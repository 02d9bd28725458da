--------------------------- MODULE EngineRefinement ---------------------------
(***************************************************************************)
(* The threads of EnginePipeline implement CommandLog.  The log is the     *)
(* journal file, the outlet is Kafka; an attempt is open from the call     *)
(* until it is committed or lost with a queue, a worker or the process.    *)
(***************************************************************************)
EXTENDS EnginePipeline

\* Where an attempt can be: checked by its caller, in a channel, in the
\* core's hand, in the journal pipe.
AttemptIn(x) == [req |-> x.req, att |-> x.att]
Calling == {[req |-> r, att |-> client[r].att] : r \in {c \in Requests : client[c].pc = "checked"}}
Waiting == {orderQ[k] : k \in DOMAIN orderQ} \cup {balanceQ[k] : k \in DOMAIN balanceQ}
InHand  == IF hand = <<>> THEN {} ELSE {hand}

\* Items of the journal pipe whose transaction has not committed yet.
Uncommitted == {k \in DOMAIN pipe : jPc \in {"committed", "finish"} => k > grp}
Computed == {AttemptIn(pipe[k]) : k \in Uncommitted}

InFlight == Calling \cup Waiting \cup InHand \cup Computed

\* What the callers see: a command in a channel looks like one yet to be sent.
Knowledge(c) ==
    [c EXCEPT !.pc = IF c.pc \in {"checked", "waiting"} THEN "pending" ELSE c.pc]

OpenAttempts == {a \in InFlight : a.req \in Commands}
Callers == [r \in Requests |-> Knowledge(client[r])]

Promise == INSTANCE CommandLog WITH
    log    <- journal,
    open   <- OpenAttempts,
    caller <- Callers,
    told   <- acked,
    outlet <- kafka,
    cursor <- delivered

\* Group commit, two channels, queries in the journal queue, failed commits,
\* lost acknowledgements, halts and crashes are invisible: callers and the
\* platform see one log.  In particular a refused call is never applied, an
\* attempt is committed at most once, and answers respect real time.
ImplementsCommandLog == Promise!Spec
===============================================================================
