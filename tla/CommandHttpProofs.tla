--------------------------- MODULE CommandHttpProofs --------------------------
(***************************************************************************)
(* Deposits, withdrawals and cancellations over HTTP, for any requests,    *)
(* retries, channel capacity, stops, orders and balances: what the calls   *)
(* were told stays true.                                                   *)
(*                                                                         *)
(* The argument: a reply states what the receipt of its id says (Told),    *)
(* and a receipt only moves from reserved to released or completed         *)
(* (EngineCoreProofs), so the reply can not become false.  A send that was *)
(* refused was never in a channel, because one try is sent once (SendInv). *)
(***************************************************************************)
EXTENDS CommandHttp, EngineCoreProofs

-----------------------------------------------------------------------------
(* What a reply says, in terms of the one receipt of the id.                *)

Credited(d) == [credit |-> d, rejected |-> FALSE] \in deposits
TakenBy(d)  == \E r \in deposits : r.credit.id = d.id /\ r # [credit |-> d, rejected |-> FALSE]

Reached(w, action) ==
    \E r \in withdrawals : /\ r.funds = w
                           /\ IF action = "reserve" THEN r.status \in {"reserved", "released", "completed"}
                              ELSE r.status = Result(action)
Denied(w) == \E r \in withdrawals : r.funds.id = w.id /\ ~(r.funds = w /\ r.status = "reserved")

CancelledFor(id, user) == \E e \in cancellations : e.id = id /\ e.user = user

Told(c, code) ==
    /\ c.kind = "deposit" => /\ code = Ok200 => Credited(c.credit)
                             /\ code = Conflict => TakenBy(c.credit)
    /\ c.kind = "withdrawal" => /\ code = Ok200 => Reached(c.funds, c.action)
                                /\ code = Conflict /\ c.action = "reserve" => Denied(c.funds)
    /\ c.kind = "cancel" => (code = Ok200 => CancelledFor(c.id, c.user))

\* What is final does not change what was told.
LEMMA ToldStays ==
    ASSUME Final, NEW c, NEW code, Told(c, code),
           c.kind = "withdrawal" => c.action \in Actions
    PROVE  Told(c, code)'
<1>1. ASSUME NEW d, Credited(d) PROVE Credited(d)'
  BY <1>1 DEF Final, Credited
<1>2. ASSUME NEW d, TakenBy(d) PROVE TakenBy(d)'
  BY <1>2 DEF Final, TakenBy
<1>3. ASSUME NEW w, Denied(w) PROVE Denied(w)'
  <2>1. PICK r \in withdrawals : r.funds.id = w.id /\ ~(r.funds = w /\ r.status = "reserved")
    BY <1>3 DEF Denied
  <2>2. CASE r \in withdrawals'
    BY <2>1, <2>2 DEF Denied
  <2>3. CASE r \notin withdrawals'
    <3>1. PICK n \in withdrawals' : n.funds = r.funds /\ n.status \in {"released", "completed"}
      BY <2>3 DEF Final
    <3>2. QED
      BY <2>1, <3>1 DEF Denied
  <2>4. QED
    BY <2>2, <2>3
<1>4. ASSUME NEW w, NEW action \in Actions, Reached(w, action) PROVE Reached(w, action)'
  <2>1. PICK r \in withdrawals :
           /\ r.funds = w
           /\ IF action = "reserve" THEN r.status \in {"reserved", "released", "completed"}
              ELSE r.status = Result(action)
    BY <1>4 DEF Reached
  <2>2. CASE r \in withdrawals'
    BY <2>1, <2>2 DEF Reached
  <2>3. CASE r \notin withdrawals'
    <3>1. PICK n \in withdrawals' : n.funds = r.funds /\ n.status \in {"released", "completed"}
      BY <2>3 DEF Final
    <3>2. r.status = "reserved"
      BY <2>3 DEF Final
    <3>3. action = "reserve"
      BY <2>1, <3>2 DEF Actions, Result
    <3>4. QED
      BY <2>1, <3>1, <3>3 DEF Reached
  <2>4. QED
    BY <2>2, <2>3
<1>5. ASSUME NEW id, NEW user, CancelledFor(id, user) PROVE CancelledFor(id, user)'
  BY <1>5 DEF Final, CancelledFor
<1>6. QED
  BY <1>1, <1>2, <1>3, <1>4, <1>5, Zenon DEF Told

\* journal::apply answers a deposit with what its receipt says.
LEMMA DepositReply ==
    ASSUME ReceiptInv, NEW d, d.amount \in Units \ {0}, CreditDeposit(d)
    PROVE  IF DepositOk(d) THEN Credited(d)' ELSE TakenBy(d)'
<1>1. CASE \E r \in deposits : r.credit.id = d.id
  <2>1. UNCHANGED deposits
    BY <1>1 DEF CreditDeposit, vars
  <2>2. QED
    BY <1>1, <2>1 DEF DepositOk, Credited, TakenBy
<1>2. CASE ~ \E r \in deposits : r.credit.id = d.id
  <2>1. PICK ok : ok = Move(Unchecked, <<d.user, d.asset>>, d.amount, 0).ok
    OBVIOUS
  <2>2. deposits' = deposits \cup {[credit |-> d, rejected |-> ~ok]}
    BY <1>2, <2>1 DEF CreditDeposit
  <2>3. CASE ok
    <3>1. DepositOk(d)
      BY <1>2, <2>1, <2>3 DEF DepositOk
    <3>2. [credit |-> d, rejected |-> ~ok] = [credit |-> d, rejected |-> FALSE]
      BY <2>3
    <3>3. QED
      BY <2>2, <3>1, <3>2 DEF Credited
  <2>4. CASE ~ok
    <3>1. ~DepositOk(d)
      BY <1>2, <2>1, <2>4 DEF DepositOk
    <3>2. PICK r : r = [credit |-> d, rejected |-> ~ok]
      OBVIOUS
    <3>3. r.credit = d /\ r # [credit |-> d, rejected |-> FALSE]
      BY <2>4, <3>2
    <3>4. QED
      BY <2>2, <3>1, <3>2, <3>3 DEF TakenBy
  <2>5. QED
    BY <2>3, <2>4
<1>3. QED
  BY <1>1, <1>2

\* journal::apply answers a withdrawal with what its receipt says.
LEMMA WithdrawalReply ==
    ASSUME ReceiptInv, NEW w, NEW action \in Actions, w.amount \in Units \ {0},
           Withdraw(w, action)
    PROVE  IF WithdrawalOk(w, action) THEN Reached(w, action)'
           ELSE action = "reserve" => Denied(w)'
<1>1. PICK ok : ok = (CASE action = "reserve"  -> Lock(Unchecked, <<w.user, w.asset>>, w.amount)
                       [] action = "release"  -> Unlock(Unchecked, <<w.user, w.asset>>, w.amount)
                       [] action = "complete" -> Move(Unchecked, <<w.user, w.asset>>, 0, -w.amount)).ok
  OBVIOUS
<1>2. PICK n : n = [funds |-> w, status |-> IF ok THEN Result(action) ELSE "rejected"]
  OBVIOUS
<1>3. n.funds = w /\ n.status = IF ok THEN Result(action) ELSE "rejected"
  BY <1>2
<1>4. IF MayWithdraw(w, action) /\ (ok \/ action = "reserve")
      THEN n \in withdrawals' ELSE UNCHANGED withdrawals
  BY <1>1, <1>2 DEF Withdraw, vars
<1>5. WithdrawalOk(w, action) <=>
        IF Receipts(w.id) = {} THEN action = "reserve" /\ ok
        ELSE \E r \in Receipts(w.id) :
                 /\ r.funds = w
                 /\ r.status = Result(action) \/ (r.status = "reserved" /\ action # "reserve" /\ ok)
  BY <1>1 DEF WithdrawalOk
<1>6. CASE Receipts(w.id) = {}
  <2>1. MayWithdraw(w, action) <=> action = "reserve"
    BY <1>6 DEF MayWithdraw
  <2>2. QED
    BY <1>3, <1>4, <1>5, <1>6, <2>1 DEF Reached, Denied, Result
<1>7. CASE Receipts(w.id) # {}
  <2>1. MayWithdraw(w, action) <=> /\ action # "reserve"
                                   /\ \E r \in Receipts(w.id) : r.funds = w /\ r.status = "reserved"
    BY <1>7 DEF MayWithdraw
  <2>2. CASE WithdrawalOk(w, action)
    <3>1. PICK r \in Receipts(w.id) :
             /\ r.funds = w
             /\ r.status = Result(action) \/ (r.status = "reserved" /\ action # "reserve" /\ ok)
      BY <1>5, <1>7, <2>2
    <3>2. CASE r.status = "reserved" /\ action # "reserve" /\ ok
      BY <1>3, <1>4, <2>1, <3>1, <3>2, <2>2 DEF Reached
    <3>3. CASE r.status = Result(action) /\ ~(r.status = "reserved" /\ action # "reserve")
      <4>1. ~MayWithdraw(w, action)
        <5>1. ASSUME NEW s \in Receipts(w.id) PROVE s = r
          BY <3>1 DEF ReceiptInv, Receipts
        <5>2. QED
          BY <2>1, <3>3, <5>1 DEF Actions, Result
      <4>2. r \in withdrawals'
        BY <1>4, <3>1, <4>1 DEF Receipts
      <4>3. QED
        BY <2>2, <3>1, <3>3, <4>2 DEF Reached, Result
    <3>4. CASE r.status = Result(action) /\ r.status = "reserved" /\ action # "reserve"
      BY <3>4 DEF Actions, Result
    <3>5. QED
      BY <3>1, <3>2, <3>3, <3>4
  <2>3. CASE ~WithdrawalOk(w, action) /\ action = "reserve"
    <3>1. UNCHANGED withdrawals
      BY <1>4, <2>1, <2>3
    <3>2. PICK r \in Receipts(w.id) : TRUE
      BY <1>7
    <3>3. ~(r.funds = w /\ r.status = "reserved")
      BY <1>5, <1>7, <2>3 DEF Result
    <3>4. QED
      BY <2>3, <3>1, <3>2, <3>3 DEF Denied, Receipts
  <2>4. QED
    BY <2>2, <2>3
<1>8. QED
  BY <1>6, <1>7

-----------------------------------------------------------------------------
(* Calls and channels.                                                      *)

Stage    == {"idle", "checked", "waiting", "done"}
Code     == {0, 200, 400, 409, 503, 504}
Slot     == [pc : Stage, try : Nat, code : Code]
Sends    == [call : Calls, try : Nat]

HttpType ==
    /\ Calls \in Mixes /\ call \in [Calls -> Slot]
    /\ balances \in Seq(Sends) /\ orders \in Seq(Sends)
    /\ applied \subseteq Sends /\ refused \subseteq Sends

\* What is in a channel came through the handler's checks.
ChannelInv ==
    /\ \A c \in Calls : call[c].pc = "checked" => Validated(c)
    /\ \A s \in ToSet(balances) : ~IsCancel(s.call) /\ Validated(s.call)
    /\ \A s \in ToSet(orders) : IsCancel(s.call)

\* A try is sent once: it is on its way, applied or refused, and none of them
\* before it was sent.
Pipe == ToSet(balances) \cup ToSet(orders) \cup applied
SendInv ==
    /\ \A s \in Pipe \cup refused : s.try <= call[s.call].try
    /\ Pipe \cap refused = {}
    /\ \A c \in Calls : call[c].pc = "checked" => SendOf(c) \notin Pipe \cup refused

AnswerInv == \A c \in Calls : Told(c, call[c].code)

\* The inductive invariant.
HttpInv == HttpType /\ ReceiptInv /\ ChannelInv /\ SendInv /\ AnswerInv

\* The requests are those of one mix.
LEMMA KnownRequests ==
    ASSUME HttpType, NEW c \in Calls
    PROVE  /\ c.kind \in {"deposit", "withdrawal", "cancel"}
           /\ c.kind = "withdrawal" => c.action \in Actions
           /\ c.kind = "cancel" => c.pair \in Pairs
BY HttpRequests DEF HttpType

\* One call moves.
LEMMA CallMoves ==
    ASSUME HttpType, NEW c \in Calls, NEW r \in Slot, call' = [call EXCEPT ![c] = r]
    PROVE  /\ Calls' = Calls /\ call' \in [Calls -> Slot] /\ call'[c] = r
           /\ \A d \in Calls : d # c => call'[d] = call[d]
BY DEF HttpType, Calls

\* An answer is new, or was there before, or is none.
Answers(d) ==
    \E k : /\ k = call'[d].code
           /\ k = call[d].code \/ k \notin {Ok200, Conflict} \/ Told(d, k)'

\* Answers that hold for the receipts keep holding.
LEMMA AnswersStay ==
    ASSUME HttpInv, Final, Calls' = Calls, \A d \in Calls : Answers(d)
    PROVE  AnswerInv'
<1>1. SUFFICES ASSUME NEW d \in Calls PROVE Told(d, call[d].code)'
  BY DEF AnswerInv
<1>2. PICK k : /\ k = call'[d].code
               /\ k = call[d].code \/ k \notin {Ok200, Conflict} \/ Told(d, k)'
  BY DEF Answers
<1>3. d.kind = "withdrawal" => d.action \in Actions
  BY KnownRequests DEF HttpInv
<1>4. Told(d, k)'
  <2>1. CASE k = call[d].code
    <3>1. Told(d, k)
      BY <2>1 DEF HttpInv, AnswerInv
    <3>2. QED
      BY <1>3, <3>1, ToldStays
  <2>2. CASE k \notin {Ok200, Conflict}
    BY <2>2 DEF Told
  <2>3. QED
    BY <1>2, <2>1, <2>2
<1>5. QED
  BY <1>2, <1>4 DEF Told, Credited, TakenBy, Reached, Denied, CancelledFor

\* What is in a channel or refused was sent by a call.
LEMMA PipeOfSends ==
    ASSUME HttpType
    PROVE  \A s \in Pipe \cup refused : s \in Sends /\ s.call \in Calls /\ s.try \in Nat
<1>1. ASSUME NEW q \in Seq(Sends) PROVE ToSet(q) \subseteq Sends
  BY DEF ToSet
<1>2. Pipe \cup refused \subseteq Sends
  BY <1>1 DEF HttpType, Pipe
<1>3. QED
  BY <1>2 DEF Sends

\* Steps that send and refuse nothing.
LEMMA SendsStay ==
    ASSUME HttpInv, Calls' = Calls, Pipe' \subseteq Pipe, refused' = refused,
           \A d \in Calls : /\ call'[d].try = call[d].try
                            /\ call'[d].pc = "checked" => call[d].pc = "checked"
    PROVE  SendInv'
<1>1. \A s \in Pipe \cup refused : s.call \in Calls
  BY PipeOfSends DEF HttpInv
<1>2. \A d \in Calls : SendOf(d)' = SendOf(d)
  BY DEF SendOf
<1>3. QED
  BY <1>1, <1>2 DEF HttpInv, SendInv

\* A step outside the core keeps the receipts.
LEMMA CoreStays ==
    ASSUME HttpInv, UNCHANGED vars
    PROVE  ReceiptInv' /\ Final
BY ReceiptsStay DEF HttpInv, vars

\* A new call keeps HttpInv.
LEMMA ArriveStep ==
    ASSUME HttpInv, NEW c \in Calls, Arrive(c)
    PROVE  HttpInv'
<1>1. PICK code : code = IF ~Validated(c) THEN BadRequest ELSE IF closed THEN Refusal(c) ELSE 0
  OBVIOUS
<1>2. code \in {0, 400, 503} /\ (code = 0 => Validated(c))
  BY <1>1 DEF BadRequest, Refusal, Unavailable
<1>3. PICK t \in Nat : t = call[c].try
  BY DEF HttpInv, HttpType, Slot
<1>4. PICK r : r = [pc |-> IF code = 0 THEN "checked" ELSE "done", try |-> t + 1, code |-> code]
  OBVIOUS
<1>5. /\ r \in Slot /\ r.try = t + 1 /\ r.code = code
      /\ r.pc = "checked" => code = 0
  BY <1>2, <1>3, <1>4 DEF Slot, Stage, Code
<1>6. call' = [call EXCEPT ![c] = r]
  BY <1>1, <1>3, <1>4 DEF Arrive
<1>7. /\ Calls' = Calls /\ call' \in [Calls -> Slot] /\ call'[c] = r
      /\ \A d \in Calls : d # c => call'[d] = call[d]
  BY <1>5, <1>6, CallMoves DEF HttpInv
<1>8. PICK new : new = [call |-> c, try |-> t + 1]
  OBVIOUS
<1>9. new \in Sends /\ new.call = c /\ new.try = t + 1
  BY <1>3, <1>8 DEF Sends
<1>10. refused' = IF code = 503 THEN refused \cup {new} ELSE refused
  BY <1>1, <1>3, <1>8 DEF Arrive, Unavailable
<1>11. UNCHANGED <<vars, balances, orders, applied>>
  BY DEF Arrive
<1>12. HttpType'
  BY <1>7, <1>9, <1>10, <1>11 DEF HttpInv, HttpType, Sends
<1>13. ReceiptInv' /\ Final
  BY <1>11, CoreStays
<1>14. ChannelInv'
  BY <1>2, <1>5, <1>7, <1>11 DEF HttpInv, ChannelInv, Validated, IsCancel
<1>15. SendInv'
  <2>1. Pipe' = Pipe
    BY <1>11 DEF Pipe
  <2>2. ASSUME NEW s \in Pipe \cup refused
        PROVE  s.call \in Calls /\ s.try \in Nat /\ s.try <= call[s.call].try
    BY <2>2, PipeOfSends DEF HttpInv, SendInv
  <2>3. ASSUME NEW s \in Pipe \cup refused PROVE s.try <= call'[s.call].try /\ s # new
    BY <1>3, <1>5, <1>7, <1>9, <2>2
  <2>4. ASSUME NEW d \in Calls, call'[d].pc = "checked"
        PROVE  SendOf(d)' \notin Pipe \cup refused'
    <3>1. CASE d = c
      <4>1. SendOf(d)' = new /\ refused' = refused
        BY <1>5, <1>7, <1>8, <1>10, <2>4, <3>1 DEF SendOf
      <4>2. QED
        BY <2>3, <4>1
    <3>2. CASE d # c
      <4>1. SendOf(d)' = SendOf(d) /\ SendOf(d) # new /\ call[d].pc = "checked"
        BY <1>7, <1>9, <2>4, <3>2 DEF SendOf
      <4>2. QED
        BY <1>10, <4>1 DEF HttpInv, SendInv
    <3>3. QED
      BY <3>1, <3>2
  <2>5. new.try <= call'[new.call].try
    BY <1>3, <1>5, <1>7, <1>9
  <2>6. QED
    BY <1>7, <1>10, <2>1, <2>3, <2>4, <2>5 DEF HttpInv, SendInv
<1>16. AnswerInv'
  <2>1. ASSUME NEW d \in Calls PROVE Answers(d)
    BY <1>2, <1>5, <1>7 DEF Answers, Ok200, Conflict
  <2>2. QED
    BY <1>7, <1>13, <2>1, AnswersStay
<1>17. QED
  BY <1>12, <1>13, <1>14, <1>15, <1>16 DEF HttpInv

\* try_send takes the try into its channel or refuses it.
LEMMA SendStep ==
    ASSUME HttpInv, NEW c \in Calls, Send(c)
    PROVE  HttpInv'
<1>1. PICK ok : ok <=> Len(IF IsCancel(c) THEN orders ELSE balances) < QueueCap
  OBVIOUS
<1>2. PICK code : code = IF ok THEN call[c].code ELSE Refusal(c)
  OBVIOUS
<1>3. call[c] \in Slot /\ call[c].pc = "checked"
  BY DEF HttpInv, HttpType, Send
<1>4. /\ code \in Code
      /\ code = call[c].code \/ code \notin {Ok200, Conflict}
  BY <1>2, <1>3 DEF Refusal, BadRequest, Unavailable, Slot, Code, Ok200, Conflict
<1>5. PICK r : r = [call[c] EXCEPT !.pc = IF ok THEN "waiting" ELSE "done", !.code = code]
  OBVIOUS
<1>6. r \in Slot /\ r.try = call[c].try /\ r.pc # "checked" /\ r.code = code
  BY <1>3, <1>4, <1>5 DEF Slot, Stage
<1>7. call' = [call EXCEPT ![c] = r]
  <2>1. CASE ok
    <3>1. r = [call[c] EXCEPT !.pc = "waiting"]
      BY <1>2, <1>3, <1>5, <2>1 DEF Slot
    <3>2. call' = [call EXCEPT ![c].pc = "waiting"]
      BY <1>1, <2>1 DEF Send
    <3>3. QED
      BY <3>1, <3>2
  <2>2. CASE ~ok
    <3>1. r = [call[c] EXCEPT !.pc = "done", !.code = Refusal(c)]
      BY <1>2, <1>5, <2>2
    <3>2. call' = [call EXCEPT ![c].pc = "done", ![c].code = Refusal(c)]
      BY <1>1, <2>2 DEF Send, Done
    <3>3. QED
      BY <3>1, <3>2
  <2>3. QED
    BY <2>1, <2>2
<1>8. /\ Calls' = Calls /\ call' \in [Calls -> Slot] /\ call'[c] = r
      /\ \A d \in Calls : d # c => call'[d] = call[d]
  BY <1>6, <1>7, CallMoves DEF HttpInv
<1>9. PICK new : new = SendOf(c)
  OBVIOUS
<1>10. new \in Sends /\ new.call = c /\ new.try = call[c].try /\ new \notin Pipe \cup refused
  BY <1>3, <1>9 DEF Sends, SendOf, Slot, HttpInv, SendInv
<1>11. ASSUME NEW q \in Seq(Sends) PROVE Append(q, new) \in Seq(Sends) /\ ToSet(Append(q, new)) = ToSet(q) \cup {new}
  BY <1>10 DEF ToSet
<1>12. /\ refused' \subseteq refused \cup {new} /\ (ok => refused' = refused)
       /\ refused \subseteq refused'
  BY <1>1, <1>9 DEF Send
<1>13. /\ balances' \in Seq(Sends) /\ orders' \in Seq(Sends) /\ UNCHANGED <<vars, applied>>
       /\ ToSet(balances') \subseteq ToSet(balances) \cup (IF ok /\ ~IsCancel(c) THEN {new} ELSE {})
       /\ ToSet(orders') \subseteq ToSet(orders) \cup (IF ok /\ IsCancel(c) THEN {new} ELSE {})
  <2>1. /\ orders' = IF ok /\ IsCancel(c) THEN Append(orders, new) ELSE orders
        /\ balances' = IF ok /\ ~IsCancel(c) THEN Append(balances, new) ELSE balances
        /\ UNCHANGED <<vars, applied>>
    BY <1>1, <1>9 DEF Send
  <2>2. balances \in Seq(Sends) /\ orders \in Seq(Sends)
    BY DEF HttpInv, HttpType
  <2>3. QED
    BY <1>11, <2>1, <2>2
<1>14. HttpType'
  BY <1>8, <1>10, <1>12, <1>13 DEF HttpInv, HttpType, Sends
<1>15. ReceiptInv' /\ Final
  BY <1>13, CoreStays
<1>16. ChannelInv'
  BY <1>3, <1>6, <1>8, <1>10, <1>13 DEF HttpInv, ChannelInv, Validated, IsCancel
<1>17. SendInv'
  <2>1. Pipe' \subseteq Pipe \cup (IF ok THEN {new} ELSE {})
    BY <1>13 DEF Pipe
  <2>2. Pipe' \cup refused' \subseteq Pipe \cup refused \cup {new}
    BY <1>12, <2>1
  <2>3. ASSUME NEW s \in Pipe' \cup refused' PROVE s.try <= call'[s.call].try
    <3>1. CASE s = new
      BY <1>3, <1>6, <1>8, <1>10, <3>1 DEF Slot
    <3>2. CASE s \in Pipe \cup refused
      BY <1>6, <1>8, <3>2, PipeOfSends DEF HttpInv, SendInv
    <3>3. QED
      BY <2>2, <3>1, <3>2
  <2>4. Pipe' \cap refused' = {}
    BY <1>10, <1>12, <2>1 DEF HttpInv, SendInv
  <2>5. ASSUME NEW d \in Calls, call'[d].pc = "checked"
        PROVE  SendOf(d)' \notin Pipe' \cup refused'
    <3>1. d # c /\ call[d].pc = "checked" /\ SendOf(d)' = SendOf(d) /\ SendOf(d) # new
      BY <1>6, <1>8, <1>10, <2>5 DEF SendOf
    <3>2. QED
      BY <2>2, <3>1 DEF HttpInv, SendInv
  <2>6. QED
    BY <1>8, <2>3, <2>4, <2>5 DEF SendInv
<1>18. AnswerInv'
  <2>1. ASSUME NEW d \in Calls PROVE Answers(d)
    BY <1>4, <1>6, <1>8 DEF Answers
  <2>2. QED
    BY <1>8, <1>15, <2>1, AnswersStay
<1>19. QED
  BY <1>14, <1>15, <1>16, <1>17, <1>18 DEF HttpInv

\* The core takes a try off its channel and the journal answers who waits.
LEMMA ReplyStep ==
    ASSUME HttpInv, NEW item \in Pipe, NEW code \in Code, Reply(item, code),
           Told(item.call, code)', Final, ReceiptInv',
           balances' \in Seq(Sends), ToSet(balances') \subseteq ToSet(balances),
           orders' \in Seq(Sends), ToSet(orders') \subseteq ToSet(orders)
    PROVE  HttpInv'
<1>1. item \in Sends /\ item.call \in Calls /\ call[item.call] \in Slot
  BY PipeOfSends DEF HttpInv, HttpType
<1>2. PICK r \in Slot : /\ call' = [call EXCEPT ![item.call] = r]
                        /\ r.try = call[item.call].try
                        /\ r = call[item.call] \/ (r.pc = "done" /\ r.code = code)
  <2>1. CASE call' = call
    <3>1. call' = [call EXCEPT ![item.call] = call[item.call]]
      BY <2>1 DEF HttpInv, HttpType
    <3>2. QED
      BY <1>1, <3>1
  <2>2. CASE call' = Done(item.call, code)
    <3>1. PICK r : r = [call[item.call] EXCEPT !.pc = "done", !.code = code]
      OBVIOUS
    <3>2. r \in Slot /\ r.try = call[item.call].try /\ r.pc = "done" /\ r.code = code
      BY <1>1, <3>1 DEF Slot, Stage
    <3>3. call' = [call EXCEPT ![item.call] = r]
      BY <2>2, <3>1 DEF Done
    <3>4. QED
      BY <3>2, <3>3
  <2>3. QED
    BY <2>1, <2>2 DEF Reply
<1>3. /\ Calls' = Calls /\ call' \in [Calls -> Slot] /\ call'[item.call] = r
      /\ \A d \in Calls : d # item.call => call'[d] = call[d]
  BY <1>1, <1>2, CallMoves DEF HttpInv
<1>4. applied' = applied \cup {item} /\ refused' = refused
  BY DEF Reply
<1>5. HttpType'
  BY <1>1, <1>3, <1>4 DEF HttpInv, HttpType, Sends
<1>6. ChannelInv'
  BY <1>2, <1>3 DEF HttpInv, ChannelInv, Validated, IsCancel
<1>7. SendInv'
  <2>1. Pipe' \subseteq Pipe
    BY <1>4 DEF Pipe
  <2>2. ASSUME NEW d \in Calls
        PROVE  call'[d].try = call[d].try /\ (call'[d].pc = "checked" => call[d].pc = "checked")
    BY <1>2, <1>3
  <2>3. QED
    BY <1>3, <1>4, <2>1, <2>2, SendsStay
<1>8. AnswerInv'
  <2>1. ASSUME NEW d \in Calls PROVE Answers(d)
    <3>1. CASE d = item.call /\ r.code = code
      BY <1>3, <3>1 DEF Answers
    <3>2. CASE d # item.call \/ r = call[item.call]
      BY <1>3, <3>2 DEF Answers
    <3>3. QED
      BY <1>2, <3>1, <3>2
  <2>2. QED
    BY <1>3, <2>1, AnswersStay
<1>9. QED
  BY <1>5, <1>6, <1>7, <1>8 DEF HttpInv

\* The head of a channel leaves it.
LEMMA HeadAndTail ==
    ASSUME NEW S, NEW q \in Seq(S), q # <<>>
    PROVE  Head(q) \in ToSet(q) /\ Tail(q) \in Seq(S) /\ ToSet(Tail(q)) \subseteq ToSet(q)
<1>1. Len(q) > 0 /\ Head(q) = q[1] /\ Tail(q) \in Seq(S) /\ Len(Tail(q)) = Len(q) - 1
  OBVIOUS
<1>2. \A i \in 1..(Len(q) - 1) : Tail(q)[i] = q[i + 1] /\ i + 1 \in 1..Len(q)
  BY <1>1
<1>3. QED
  BY <1>1, <1>2 DEF ToSet

\* The core serves the balance channel.
LEMMA ServeBalanceStep ==
    ASSUME HttpInv, ServeBalance
    PROVE  HttpInv'
<1>1. balances \in Seq(Sends) /\ balances # <<>> /\ orders \in Seq(Sends)
  BY DEF HttpInv, HttpType, ServeBalance
<1>2. PICK item : item = Head(balances)
  OBVIOUS
<1>3. /\ item \in ToSet(balances) /\ balances' \in Seq(Sends)
      /\ ToSet(balances') \subseteq ToSet(balances) /\ orders' = orders
  <2>1. balances' = Tail(balances) /\ orders' = orders
    BY DEF ServeBalance
  <2>2. Head(balances) \in ToSet(balances) /\ Tail(balances) \in Seq(Sends)
        /\ ToSet(Tail(balances)) \subseteq ToSet(balances)
    BY <1>1, HeadAndTail
  <2>3. QED
    BY <1>2, <2>1, <2>2
<1>4. PICK c \in Calls : c = item.call
  BY <1>3, PipeOfSends DEF HttpInv, Pipe
<1>5. /\ ~IsCancel(c) /\ Validated(c) /\ c.kind \in {"deposit", "withdrawal", "cancel"}
      /\ c.kind = "withdrawal" => c.action \in Actions
  BY <1>3, <1>4, KnownRequests DEF HttpInv, ChannelInv
<1>6. CASE c.kind = "deposit"
  <2>1. PICK code : code = IF DepositOk(c.credit) THEN Ok200 ELSE Conflict
    OBVIOUS
  <2>2. CreditDeposit(c.credit) /\ Reply(item, code)
    BY <1>2, <1>4, <1>6, <2>1 DEF ServeBalance
  <2>3. c.credit.amount \in Units \ {0}
    BY <1>5, <1>6 DEF Validated
  <2>4. ReceiptInv' /\ Final
    BY <2>2, CreditStep DEF HttpInv
  <2>5. IF DepositOk(c.credit) THEN Credited(c.credit)' ELSE TakenBy(c.credit)'
    BY <2>2, <2>3, DepositReply DEF HttpInv
  <2>6. Told(c, code)'
    BY <1>6, <2>1, <2>5 DEF Told, Ok200, Conflict
  <2>7. code \in Code
    BY <2>1 DEF Code, Ok200, Conflict
  <2>8. QED
    BY <1>1, <1>3, <1>4, <2>2, <2>4, <2>6, <2>7, ReplyStep DEF Pipe
<1>7. CASE c.kind = "withdrawal"
  <2>1. PICK code : code = IF WithdrawalOk(c.funds, c.action) THEN Ok200 ELSE Conflict
    OBVIOUS
  <2>2. Withdraw(c.funds, c.action) /\ Reply(item, code)
    BY <1>2, <1>4, <1>7, <2>1 DEF ServeBalance
  <2>3. c.funds.amount \in Units \ {0} /\ c.action \in Actions
    BY <1>5, <1>7 DEF Validated, Actions
  <2>4. ReceiptInv' /\ Final
    BY <2>2, <2>3, WithdrawStep DEF HttpInv, Actions
  <2>5. IF WithdrawalOk(c.funds, c.action) THEN Reached(c.funds, c.action)'
        ELSE c.action = "reserve" => Denied(c.funds)'
    BY <2>2, <2>3, WithdrawalReply DEF HttpInv
  <2>6. Told(c, code)'
    BY <1>7, <2>1, <2>5 DEF Told, Ok200, Conflict
  <2>7. code \in Code
    BY <2>1 DEF Code, Ok200, Conflict
  <2>8. QED
    BY <1>1, <1>3, <1>4, <2>2, <2>4, <2>6, <2>7, ReplyStep DEF Pipe
<1>8. QED
  BY <1>5, <1>6, <1>7 DEF IsCancel

\* The core serves the order channel.
LEMMA ServeOrderStep ==
    ASSUME HttpInv, ServeOrder
    PROVE  HttpInv'
<1>1. orders \in Seq(Sends) /\ orders # <<>> /\ balances \in Seq(Sends)
  BY DEF HttpInv, HttpType, ServeOrder
<1>2. PICK item : item = Head(orders)
  OBVIOUS
<1>3. /\ item \in ToSet(orders) /\ orders' \in Seq(Sends)
      /\ ToSet(orders') \subseteq ToSet(orders) /\ balances' = balances
  <2>1. orders' = Tail(orders) /\ balances' = balances
    BY DEF ServeOrder
  <2>2. Head(orders) \in ToSet(orders) /\ Tail(orders) \in Seq(Sends)
        /\ ToSet(Tail(orders)) \subseteq ToSet(orders)
    BY <1>1, HeadAndTail
  <2>3. QED
    BY <1>2, <2>1, <2>2
<1>4. PICK c \in Calls : c = item.call
  BY <1>3, PipeOfSends DEF HttpInv, Pipe
<1>5. PICK code : code = IF CancelOk(c) THEN Ok200 ELSE BadRequest
  OBVIOUS
<1>6. Cancel(c.id, c.user, c.pair) /\ Reply(item, code)
  BY <1>2, <1>4, <1>5 DEF ServeOrder
<1>7. ReceiptInv' /\ Final
  BY <1>6, CancelStep DEF HttpInv
<1>8. Told(c, code)'
  <2>1. c.kind = "cancel"
    BY <1>3, <1>4 DEF HttpInv, ChannelInv, IsCancel
  <2>2. code = Ok200 => CancelledFor(c.id, c.user)'
    BY <1>5 DEF CancelOk, CancelledFor, Ok200, BadRequest
  <2>3. QED
    BY <2>1, <2>2 DEF Told
<1>9. code \in Code
  BY <1>5 DEF Code, Ok200, BadRequest
<1>10. QED
  BY <1>1, <1>3, <1>4, <1>6, <1>7, <1>8, <1>9, ReplyStep DEF Pipe

\* The timeout says nothing about the outcome, and refuses nothing.
LEMMA ExpireStep ==
    ASSUME HttpInv, NEW c \in Calls, Expire(c)
    PROVE  HttpInv'
<1>1. PICK k : k = Unknown(c) /\ k \in {400, 504} /\ k # Unavailable
  BY DEF Unknown, BadRequest, GatewayTimeout, Unavailable
<1>2. PICK r : r = [call[c] EXCEPT !.pc = "done", !.code = k]
  OBVIOUS
<1>3. r \in Slot /\ r.try = call[c].try /\ r.pc = "done" /\ r.code = k
  <2>1. call[c] \in Slot
    BY DEF HttpInv, HttpType
  <2>2. k \in Code
    BY <1>1 DEF Code
  <2>3. QED
    BY <1>2, <2>1, <2>2 DEF Slot, Stage
<1>4. call' = [call EXCEPT ![c] = r]
  <2>1. call' = [call EXCEPT ![c].pc = "done", ![c].code = k]
    <3>1. call' = [call EXCEPT ![c].pc = "done", ![c].code = Unknown(c)]
      BY DEF Expire, Done
    <3>2. QED
      BY <1>1, <3>1
  <2>2. QED
    BY <1>2, <2>1
<1>5. /\ Calls' = Calls /\ call' \in [Calls -> Slot] /\ call'[c] = r
      /\ \A d \in Calls : d # c => call'[d] = call[d]
  BY <1>3, <1>4, CallMoves DEF HttpInv
<1>6. UNCHANGED <<vars, balances, orders, applied, refused>>
  BY <1>1 DEF Expire
<1>7. HttpType' /\ ChannelInv'
  BY <1>3, <1>5, <1>6 DEF HttpInv, HttpType, Sends, ChannelInv, Validated, IsCancel
<1>8. ReceiptInv' /\ Final
  BY <1>6, CoreStays
<1>9. SendInv'
  <2>1. ASSUME NEW d \in Calls
        PROVE  call'[d].try = call[d].try /\ (call'[d].pc = "checked" => call[d].pc = "checked")
    BY <1>3, <1>5
  <2>2. Pipe' \subseteq Pipe
    BY <1>6 DEF Pipe
  <2>3. QED
    BY <1>5, <1>6, <2>1, <2>2, SendsStay
<1>10. AnswerInv'
  <2>1. ASSUME NEW d \in Calls PROVE Answers(d)
    BY <1>1, <1>3, <1>5 DEF Answers, Ok200, Conflict
  <2>2. QED
    BY <1>5, <1>8, <2>1, AnswersStay
<1>11. QED
  BY <1>7, <1>8, <1>9, <1>10 DEF HttpInv

\* Orders trade and the engine closes without touching calls and channels.
LEMMA BystanderStep ==
    ASSUME HttpInv, UNCHANGED <<call, balances, orders, applied, refused>>, ReceiptInv', Final
    PROVE  HttpInv'
<1>1. HttpType' /\ ChannelInv' /\ Calls' = Calls
  BY DEF HttpInv, HttpType, Calls, Sends, ChannelInv, Validated, IsCancel
<1>2. Pipe' \subseteq Pipe
  BY DEF Pipe
<1>3. SendInv'
  BY <1>1, <1>2, SendsStay
<1>4. AnswerInv'
  <2>1. ASSUME NEW d \in Calls PROVE Answers(d)
    BY DEF Answers
  <2>2. QED
    BY <1>1, <2>1, AnswersStay
<1>5. QED
  BY <1>1, <1>3, <1>4 DEF HttpInv

\* The channels are gone with the process, the callers get an unknown outcome.
LEMMA RestartStep ==
    ASSUME HttpInv, Restart
    PROVE  HttpInv'
<1>1. ASSUME NEW d \in Calls
      PROVE  /\ call'[d] \in Slot /\ call'[d].try = call[d].try /\ call'[d].pc # "checked"
             /\ call'[d].code \in {call[d].code, 504}
  <2>1. call[d] \in Slot
    BY DEF HttpInv, HttpType
  <2>2. CASE call[d].pc \in {"checked", "waiting"}
    <3>1. PICK ended : ended = [call[d] EXCEPT !.pc = "done"]
      OBVIOUS
    <3>2. ended \in Slot /\ ended.try = call[d].try /\ ended.pc = "done"
      <4>1. "done" \in Stage
        BY DEF Stage
      <4>2. QED
        BY <2>1, <3>1, <4>1 DEF Slot
    <3>3. PICK r : r = [ended EXCEPT !.code = 504]
      OBVIOUS
    <3>4. r \in Slot /\ r.try = ended.try /\ r.pc = ended.pc /\ r.code = 504
      <4>1. 504 \in Code
        BY DEF Code
      <4>2. QED
        BY <3>2, <3>3, <4>1 DEF Slot
    <3>5. call'[d] = r
      BY Zenon, <2>2, <3>1, <3>3 DEF Restart, GatewayTimeout
    <3>6. QED
      BY <3>2, <3>4, <3>5
  <2>3. CASE call[d].pc \notin {"checked", "waiting"}
    BY Zenon, <2>1, <2>3 DEF Restart
  <2>4. QED
    BY <2>2, <2>3
<1>2. Calls' = Calls /\ call' \in [Calls -> Slot]
  BY Zenon, <1>1 DEF Restart, Calls
<1>3. /\ UNCHANGED <<vars, applied, refused>> /\ balances' = <<>> /\ orders' = <<>>
  BY Zenon DEF Restart
<1>4. ToSet(<<>>) = {} /\ <<>> \in Seq(Sends)
  BY DEF ToSet
<1>5. HttpType' /\ ChannelInv'
  BY <1>1, <1>2, <1>3, <1>4 DEF HttpInv, HttpType, Sends, ChannelInv
<1>6. ReceiptInv' /\ Final
  BY <1>3, CoreStays
<1>7. SendInv'
  <2>1. Pipe' \subseteq Pipe
    BY <1>3, <1>4 DEF Pipe
  <2>2. QED
    BY <1>1, <1>2, <1>3, <2>1, SendsStay
<1>8. AnswerInv'
  <2>1. ASSUME NEW d \in Calls PROVE Answers(d)
    BY <1>1 DEF Answers, Ok200, Conflict
  <2>2. QED
    BY <1>2, <1>6, <2>1, AnswersStay
<1>9. QED
  BY <1>5, <1>6, <1>7, <1>8 DEF HttpInv

\* HttpInv holds at the start.
LEMMA HttpStart == HttpInit => HttpInv
<1> SUFFICES ASSUME HttpInit PROVE HttpInv
  OBVIOUS
<1>1. PICK mix \in Mixes : call = [c \in mix |-> [pc |-> "idle", try |-> 0, code |-> 0]]
  BY DEF HttpInit
<1>2. PICK r : r = [pc |-> "idle", try |-> 0, code |-> 0]
  OBVIOUS
<1>3. r \in Slot /\ r.pc = "idle" /\ r.code = 0
  BY <1>2 DEF Slot, Stage, Code
<1>4. Calls = mix /\ \A c \in Calls : call[c] = r
  BY <1>1, <1>2 DEF Calls
<1>5. call \in [Calls -> Slot]
  BY <1>1, <1>2, <1>3, <1>4
<1>6. balances = <<>> /\ orders = <<>> /\ applied = {} /\ refused = {}
  BY DEF HttpInit
<1>7. ToSet(<<>>) = {} /\ <<>> \in Seq(Sends)
  BY DEF ToSet
<1>8. HttpType
  BY <1>4, <1>5, <1>6, <1>7 DEF HttpType
<1>9. ReceiptInv
  BY DEF HttpInit, Init, ReceiptInv
<1>10. ChannelInv /\ SendInv
  BY <1>3, <1>4, <1>6, <1>7 DEF ChannelInv, SendInv, Pipe
<1>11. AnswerInv
  BY <1>3, <1>4 DEF AnswerInv, Told, Ok200, Conflict
<1>12. QED
  BY <1>8, <1>9, <1>10, <1>11 DEF HttpInv

\* Every step keeps HttpInv.
LEMMA HttpStep == HttpInv /\ [HttpNext]_allVars => HttpInv'
<1> SUFFICES ASSUME HttpInv, [HttpNext]_allVars PROVE HttpInv'
  OBVIOUS
<1>1. ASSUME NEW c \in Calls, Arrive(c) \/ Send(c) \/ Expire(c) PROVE HttpInv'
  BY <1>1, ArriveStep, SendStep, ExpireStep
<1>2. CASE ServeBalance
  BY <1>2, ServeBalanceStep
<1>3. CASE ServeOrder
  BY <1>3, ServeOrderStep
<1>4. CASE Restart
  BY <1>4, RestartStep
<1>5. CASE Close
  <2>1. UNCHANGED vars /\ UNCHANGED <<call, balances, orders, applied, refused>>
    BY <1>5 DEF Close
  <2>2. QED
    BY <2>1, CoreStays, BystanderStep
<1>6. ASSUME NEW o \in Orders, Trade(o) PROVE HttpInv'
  <2>1. Submit(o) /\ UNCHANGED <<call, balances, orders, applied, refused>>
    BY <1>6 DEF Trade, httpVars
  <2>2. ReceiptInv' /\ Final
    BY <2>1, SubmitStep DEF HttpInv
  <2>3. QED
    BY <2>1, <2>2, BystanderStep
<1>7. CASE UNCHANGED allVars
  <2>1. UNCHANGED vars /\ UNCHANGED <<call, balances, orders, applied, refused>>
    BY <1>7 DEF allVars, httpVars
  <2>2. QED
    BY <2>1, CoreStays, BystanderStep
<1>8. QED
  BY <1>1, <1>2, <1>3, <1>4, <1>5, <1>6, <1>7 DEF HttpNext

\* HttpInv is an invariant.
LEMMA HttpInvariant == HttpSpec => []HttpInv
BY HttpStart, HttpStep, PTL DEF HttpSpec

\* Whatever a handler answered with NotAccepted (a closed engine, a full
\* channel) is never in the journal, for any mix of calls, retries and stops.
THEOREM RefusedSendsStayOut == HttpSpec => []NotAcceptedIsNeverApplied
<1>1. HttpInv => NotAcceptedIsNeverApplied
  BY DEF HttpInv, SendInv, Pipe, NotAcceptedIsNeverApplied
<1>2. QED
  BY <1>1, HttpInvariant, PTL

\* The one receipt of the id makes what was told about it the whole truth.
LEMMA ToldDeposit ==
    ASSUME HttpInv, NEW c \in Calls, c.kind = "deposit"
    PROVE  DepositAnswer(c)
<1>1. Told(c, call[c].code)
  BY DEF HttpInv, AnswerInv
<1>2. PICK good : good = [credit |-> c.credit, rejected |-> FALSE]
  OBVIOUS
<1>3. good.credit = c.credit
  BY <1>2
<1>4. \A r \in deposits : good \in deposits /\ r.credit.id = c.credit.id => r = good
  BY <1>3 DEF HttpInv, ReceiptInv
<1>5. /\ Credited(c.credit) <=> good \in deposits
      /\ TakenBy(c.credit) => good \notin deposits
  BY <1>2, <1>4 DEF Credited, TakenBy
<1>6. /\ call[c].code = Ok200 => good \in deposits
      /\ call[c].code = Conflict => good \notin deposits
  BY <1>1, <1>5 DEF Told
<1>7. QED
  BY <1>2, <1>6 DEF DepositAnswer

\* What a withdrawal call was told is in its receipt.
LEMMA ToldWithdrawal ==
    ASSUME HttpInv, NEW c \in Calls, c.kind = "withdrawal"
    PROVE  WithdrawalAnswer(c)
<1>1. Told(c, call[c].code) /\ c.action \in Actions
  BY KnownRequests DEF HttpInv, AnswerInv
<1>2. PICK reached : reached = {r.status : r \in {x \in withdrawals : x.funds = c.funds}}
  OBVIOUS
<1>3. ASSUME NEW r \in withdrawals, r.funds = c.funds PROVE reached = {r.status}
  <2>1. \A x \in withdrawals : x.funds = c.funds => x = r
    BY <1>3 DEF HttpInv, ReceiptInv
  <2>2. QED
    BY <1>2, <1>3, <2>1
<1>4. ASSUME call[c].code = Ok200
      PROVE  reached \in IF c.action = "reserve"
                         THEN {{"reserved"}, {"released"}, {"completed"}}
                         ELSE {{Result(c.action)}}
  <2>1. PICK r \in withdrawals :
           /\ r.funds = c.funds
           /\ IF c.action = "reserve" THEN r.status \in {"reserved", "released", "completed"}
              ELSE r.status = Result(c.action)
    BY <1>1, <1>4 DEF Told, Reached
  <2>2. reached = {r.status}
    BY <1>3, <2>1
  <2>3. QED
    BY <2>1, <2>2
<1>5. ASSUME call[c].code = Conflict, c.action = "reserve" PROVE reached # {"reserved"}
  <2>1. PICK r \in withdrawals : r.funds.id = c.funds.id /\ ~(r.funds = c.funds /\ r.status = "reserved")
    BY <1>1, <1>5 DEF Told, Denied
  <2>2. SUFFICES ASSUME reached = {"reserved"} PROVE FALSE
    OBVIOUS
  <2>3. PICK x \in withdrawals : x.funds = c.funds /\ x.status = "reserved"
    BY <1>2, <2>2
  <2>4. x = r
    BY <2>1, <2>3 DEF HttpInv, ReceiptInv
  <2>5. QED
    BY <2>1, <2>3, <2>4
<1>6. QED
  BY <1>2, <1>4, <1>5 DEF WithdrawalAnswer

\* The books stay in order under the calls, too.
LEMMA HttpBooks == HttpInv /\ BookInv /\ [HttpNext]_allVars => BookInv'
<1> SUFFICES ASSUME HttpInv, BookInv, [HttpNext]_allVars PROVE BookInv'
  OBVIOUS
<1>1. ASSUME UNCHANGED <<books, submissions, cancellations>> PROVE BookInv'
  BY <1>1, OtherStepBooks
<1>2. CASE ServeBalance
  <2>1. UNCHANGED <<books, submissions, cancellations>>
    BY Zenon, <1>2 DEF ServeBalance, CreditDeposit, Withdraw, vars
  <2>2. QED
    BY Zenon, <1>1, <2>1
<1>3. CASE ServeOrder
  <2>1. orders \in Seq(Sends) /\ orders # <<>>
    BY <1>3 DEF HttpInv, HttpType, ServeOrder
  <2>2. Head(orders) \in ToSet(orders)
    BY <2>1, HeadAndTail
  <2>3. PICK c \in Calls : c = Head(orders).call
    BY <2>2, PipeOfSends DEF HttpInv, Pipe
  <2>4. c.pair \in Pairs
    BY <2>2, <2>3, KnownRequests DEF HttpInv, ChannelInv, IsCancel
  <2>5. Cancel(c.id, c.user, c.pair)
    BY <1>3, <2>3 DEF ServeOrder
  <2>6. QED
    BY <2>4, <2>5, CancelStepBooks
<1>4. ASSUME NEW o \in Orders, Trade(o) PROVE BookInv'
  BY <1>4, SubmitStepBooks DEF Trade
<1>5. CASE (\E c \in Calls : Arrive(c) \/ Send(c) \/ Expire(c)) \/ Close \/ Restart
  <2>1. UNCHANGED vars
    BY Zenon, <1>5 DEF Arrive, Send, Expire, Close, Restart
  <2>2. QED
    BY <1>1, <2>1 DEF vars
<1>6. CASE UNCHANGED allVars
  BY <1>1, <1>6 DEF allVars, vars
<1>7. QED
  BY <1>2, <1>3, <1>4, <1>5, <1>6 DEF HttpNext

\* A cancelled order is off the book and stays off it.
LEMMA ToldCancel ==
    ASSUME HttpInv, BookInv, NEW c \in Calls, IsCancel(c)
    PROVE  CancelAnswer(c)
<1>1. SUFFICES ASSUME call[c].code = Ok200
               PROVE  /\ \E e \in cancellations : e.id = c.id /\ e.user = c.user
                      /\ \A e \in AllEntries : e.id # c.id
  BY DEF CancelAnswer
<1>2. PICK done \in cancellations : done.id = c.id /\ done.user = c.user
  BY <1>1 DEF HttpInv, AnswerInv, Told, CancelledFor, IsCancel
<1>3. Shaped(books) /\ Off(books, c.id)
  BY <1>2 DEF BookInv, BookOk
<1>4. ~Rests(books, c.id)
  BY <1>3, OffOrRests
<1>5. ASSUME NEW e \in AllEntries PROVE e.id # c.id
  BY <1>4 DEF AllEntries, Rests
<1>6. QED
  BY <1>2, <1>5

\* What a call was told stays true for ever: the money of a 200 is in the
\* balances and that of a 409 never will be, a withdrawal is where the answer
\* said, and a cancelled order is its owner's and off the book, whatever is
\* sent, retried, timed out, traded, closed and restarted afterwards.
THEOREM AnswersStayTrue == HttpSpec => []AnswersHold
<1>1. HttpInit => BookInv
  BY BookInit DEF HttpInit
<1>2. HttpInv /\ BookInv => AnswersHold
  BY ToldDeposit, ToldWithdrawal, ToldCancel DEF AnswersHold
<1>3. QED
  BY <1>1, <1>2, HttpBooks, HttpInvariant, PTL DEF HttpSpec
===============================================================================
