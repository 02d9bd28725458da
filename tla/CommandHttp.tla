----------------------------- MODULE CommandHttp ------------------------------
(***************************************************************************)
(* The HTTP calls that carry deposits, withdrawals and cancellations, from *)
(* the handler through EngineHandle to the core and back: what the status  *)
(* code tells the platform, against what the engine (EngineCore) has done, *)
(* does, or will do with a command whose caller has already gone.          *)
(*                                                                         *)
(* A command that the engine takes is committed and answered in one step,  *)
(* or lost with the process (EnginePipeline, CommandLog).                  *)
(***************************************************************************)
EXTENDS EngineCore

CONSTANTS
    Mixes,       \* sets of requests: [kind, order fields, credit or funds and action]
    QueueCap,    \* capacity of each input channel
    MaxTries,    \* bound: times a request is sent
    MaxStops     \* bound: times the engine is closed

ASSUME HttpBounds == QueueCap \in Nat \ {0} /\ MaxTries \in Nat \ {0} /\ MaxStops \in Nat

\* WithdrawalAction.
Actions == {"reserve", "release", "complete"}
ASSUME HttpRequests ==
    \A mix \in Mixes : \A c \in mix :
        /\ c.kind \in {"deposit", "withdrawal", "cancel"}
        /\ c.kind = "withdrawal" => c.action \in Actions
        /\ c.kind = "cancel" => c.pair \in Pairs

VARIABLES
    call,      \* per request: [pc, try, code]
    balances,  \* balance channel: sends waiting for the core
    orders,    \* order channel
    closed,    \* EngineHandle.closed
    applied,   \* history: sends whose command the journal holds
    refused,   \* history: sends answered as not accepted
    stops

httpVars == <<call, balances, orders, closed, refused, stops>>
allVars == <<vars, httpVars, applied>>

\* Status codes of the handlers.
Ok200 == 200
BadRequest == 400
Conflict == 409            \* DURABLY_REJECTED
Unavailable == 503         \* NOT_ACCEPTED
GatewayTimeout == 504      \* OUTCOME_UNKNOWN

\* The requests of this behaviour.
Calls == DOMAIN call
IsCancel(c) == c.kind = "cancel"
SendOf(c) == [call |-> c, try |-> call[c].try]
Done(c, code) == [call EXCEPT ![c].pc = "done", ![c].code = code]

\* The error of a call that the channel did not take, and of one whose answer
\* did not come; cancel_order reports every error as 400.
Refusal(c) == IF IsCancel(c) THEN BadRequest ELSE Unavailable

\* Mutation of Unknown: an answer that did not come is "not accepted".
UnknownAsRefused(c) == IF IsCancel(c) THEN BadRequest ELSE Unavailable

Unknown(c) == IF IsCancel(c) THEN BadRequest ELSE GatewayTimeout

\* financial_input::validated: a positive amount in engine units.
Validated(c) == CASE c.kind = "deposit"    -> c.credit.amount \in Units \ {0}
                  [] c.kind = "withdrawal" -> c.funds.amount \in Units \ {0}
                  [] OTHER                 -> TRUE

-----------------------------------------------------------------------------
(* Handler and EngineHandle.                                                *)

\* The request is parsed, then closed is read.
Arrive(c) ==
    /\ \/ call[c].pc = "idle"
       \/ call[c].pc = "done" /\ call[c].code \notin {Ok200, Conflict}
    /\ call[c].try < MaxTries
    /\ LET code == IF ~Validated(c) THEN BadRequest ELSE IF closed THEN Refusal(c) ELSE 0
       IN  /\ call' = [call EXCEPT ![c] = [pc |-> IF code = 0 THEN "checked" ELSE "done",
                                           try |-> @.try + 1, code |-> code]]
           /\ refused' = IF code = Unavailable
                         THEN refused \cup {[call |-> c, try |-> call[c].try + 1]} ELSE refused
    /\ UNCHANGED <<vars, balances, orders, closed, applied, stops>>

\* try_send.  A channel has no disconnected state of its own here: the engine
\* object keeps a receiver of both as long as the process runs, so that only
\* a full channel refuses; what ends with the process is in Restart.
Send(c) ==
    LET line == IF IsCancel(c) THEN orders ELSE balances
        ok   == Len(line) < QueueCap
    IN  /\ call[c].pc = "checked"
        /\ call' = IF ok THEN [call EXCEPT ![c].pc = "waiting"] ELSE Done(c, Refusal(c))
        /\ refused' = IF ~ok /\ Refusal(c) = Unavailable THEN refused \cup {SendOf(c)} ELSE refused
        /\ orders' = IF ok /\ IsCancel(c) THEN Append(orders, SendOf(c)) ELSE orders
        /\ balances' = IF ok /\ ~IsCancel(c) THEN Append(balances, SendOf(c)) ELSE balances
        /\ UNCHANGED <<vars, closed, applied, stops>>

\* The timeout: 3 s for money, 10 s for a cancellation.
Expire(c) ==
    /\ call[c].pc = "waiting"
    /\ call' = Done(c, Unknown(c))
    /\ refused' = IF Unknown(c) = Unavailable THEN refused \cup {SendOf(c)} ELSE refused
    /\ UNCHANGED <<vars, balances, orders, closed, applied, stops>>

-----------------------------------------------------------------------------
(* The reply of journal::apply, from the state the command meets.           *)

\* Mutation of DepositOk: a repeated deposit is a success whatever it says.
DepositOkById(d) ==
    IF \E r \in deposits : r.credit.id = d.id THEN TRUE
    ELSE Move(Unchecked, <<d.user, d.asset>>, d.amount, 0).ok

\* A repetition succeeds when the first one did with the same content.
DepositOk(d) ==
    IF \E r \in deposits : r.credit.id = d.id
    THEN [credit |-> d, rejected |-> FALSE] \in deposits
    ELSE Move(Unchecked, <<d.user, d.asset>>, d.amount, 0).ok

\* The same stage again succeeds; a reservation can be finished once.
WithdrawalOk(w, action) ==
    LET account == <<w.user, w.asset>>
        moves   == CASE action = "reserve"  -> Lock(Unchecked, account, w.amount)
                     [] action = "release"  -> Unlock(Unchecked, account, w.amount)
                     [] action = "complete" -> Move(Unchecked, account, 0, -w.amount)
    IN  IF Receipts(w.id) = {} THEN action = "reserve" /\ moves.ok
        ELSE \E r \in Receipts(w.id) :
                 /\ r.funds = w
                 /\ r.status = Result(action)
                    \/ (r.status = "reserved" /\ action # "reserve" /\ moves.ok)

\* Reply::Cancel: the order as it was cancelled, now or before.
CancelOk(c) ==
    \E e \in cancellations' : e.id = c.id /\ e.user = c.user /\ e.pair = c.pair

\* The journal commits what the core did and answers a caller that waits.
Reply(item, code) ==
    /\ call' = IF call[item.call].pc = "waiting" /\ call[item.call].try = item.try
               THEN Done(item.call, code) ELSE call
    /\ applied' = applied \cup {item}
    /\ UNCHANGED <<closed, refused, stops>>

\* The balance channel comes first.
ServeBalance ==
    /\ balances # <<>>
    /\ balances' = Tail(balances) /\ UNCHANGED orders
    /\ LET item == Head(balances)
           c    == item.call
       IN  IF c.kind = "deposit"
           THEN /\ CreditDeposit(c.credit)
                /\ Reply(item, IF DepositOk(c.credit) THEN Ok200 ELSE Conflict)
           ELSE /\ Withdraw(c.funds, c.action)
                /\ Reply(item, IF WithdrawalOk(c.funds, c.action) THEN Ok200 ELSE Conflict)

ServeOrder ==
    /\ balances = <<>> /\ orders # <<>>
    /\ orders' = Tail(orders) /\ UNCHANGED balances
    /\ LET item == Head(orders)
           c    == item.call
       IN  /\ Cancel(c.id, c.user, c.pair)
           /\ Reply(item, IF CancelOk(c) THEN Ok200 ELSE BadRequest)

\* Orders arrive from OrderIntake.
Trade(o) ==
    /\ \A s \in submissions : s.id # o.id
    /\ Submit(o) /\ UNCHANGED <<httpVars, applied>>

\* A worker fails or the engine is halted: calls from now on are refused,
\* what is in the channels may still be served or not.
Close ==
    /\ ~closed /\ stops < MaxStops
    /\ closed' = TRUE /\ stops' = stops + 1
    /\ UNCHANGED <<vars, call, balances, orders, applied, refused>>

\* The process ends and starts again from the journal; reply senders are
\* dropped with the channels.
Restart ==
    /\ closed
    /\ closed' = FALSE /\ balances' = <<>> /\ orders' = <<>>
    /\ call' = [c \in Calls |-> IF call[c].pc \in {"checked", "waiting"}
                                THEN [call[c] EXCEPT !.pc = "done", !.code = GatewayTimeout]
                                ELSE call[c]]
    /\ UNCHANGED <<vars, applied, refused, stops>>

HttpInit ==
    /\ Init
    /\ call \in {[c \in calls |-> [pc |-> "idle", try |-> 0, code |-> 0]] : calls \in Mixes}
    /\ balances = <<>> /\ orders = <<>> /\ closed = FALSE
    /\ applied = {} /\ refused = {} /\ stops = 0

HttpNext ==
    \/ \E c \in Calls : Arrive(c) \/ Send(c) \/ Expire(c)
    \/ ServeBalance \/ ServeOrder \/ Close \/ Restart
    \/ \E o \in Orders : Trade(o)

HttpSpec == HttpInit /\ [][HttpNext]_allVars

-----------------------------------------------------------------------------
(* Properties.                                                              *)

\* "Not accepted" means that this send will never reach the journal: only an
\* unknown outcome leaves that open (handle.rs, NotAccepted against
\* OutcomeUnknown).
NotAcceptedIsNeverApplied == refused \cap applied = {}

\* What a call was told stays true, whatever late sends, retries and other
\* calls with the same id do afterwards.  A deposit: 200 means that this
\* content is credited, 409 that it is not and never will be, so that the
\* platform may return the money.
DepositAnswer(c) ==
    LET credited == [credit |-> c.credit, rejected |-> FALSE] \in deposits
    IN  /\ call[c].code = Ok200 => credited
        /\ call[c].code = Conflict => ~credited

\* A withdrawal: a stage answered with 200 has happened, a finished one is
\* never the other one too, and a reservation answered with 409 holds no
\* money then or later.
WithdrawalAnswer(c) ==
    LET reached == {r.status : r \in {x \in withdrawals : x.funds = c.funds}}
    IN  /\ call[c].code = Ok200 =>
             reached \in IF c.action = "reserve"
                         THEN {{"reserved"}, {"released"}, {"completed"}}
                         ELSE {{Result(c.action)}}
        /\ call[c].code = Conflict /\ c.action = "reserve" => reached # {"reserved"}

\* A cancellation answered with 200 is the caller's own and the order is off
\* the book, although it may trade until the cancellation is reached.
CancelAnswer(c) ==
    call[c].code = Ok200 =>
        /\ \E e \in cancellations : e.id = c.id /\ e.user = c.user
        /\ \A e \in AllEntries : e.id # c.id

\* Every 200 and every 409 that a handler has given stays true, whatever
\* sends that outlived their caller, retries and restarts apply afterwards.
AnswersHold ==
    \A c \in Calls : /\ c.kind = "deposit" => DepositAnswer(c)
                     /\ c.kind = "withdrawal" => WithdrawalAnswer(c)
                     /\ IsCancel(c) => CancelAnswer(c)
===============================================================================
