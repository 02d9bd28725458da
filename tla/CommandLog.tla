------------------------------ MODULE CommandLog ------------------------------
(***************************************************************************)
(* What the engine promises to its callers and to the platform, without    *)
(* threads, channels, groups or files: one log of committed commands that  *)
(* only grows, answers that are positions of that log, and an outlet that  *)
(* carries the events of the log in order, perhaps more than once.         *)
(*                                                                         *)
(* It is the interface that EngineHandle, its documentation and the        *)
(* consumers of the topic rely on; EngineRefinement shows that the threads *)
(* of EnginePipeline implement it.                                         *)
(***************************************************************************)
EXTENDS Integers, Sequences, SequencesExt

CONSTANTS
    Requests, Commands,   \* all requests, and those that change the engine
    Events,               \* messages of a command that has a result
    MaxAttempts           \* times a caller sends a request

VARIABLES
    log,      \* committed records, in the order they took effect
    open,     \* attempts that may still be committed
    caller,   \* what each caller knows
    told,     \* largest position any caller has been told
    outlet,   \* messages the platform can read
    cursor    \* records the engine will not send again

logVars == <<log, open, caller, told, outlet, cursor>>

NotCalled == [pc |-> "idle", att |-> 0, floor |-> 0, pos |-> 0]
AttemptOf(x) == [req |-> x.req, att |-> x.att]

Init ==
    /\ log = <<>> /\ open = {} /\ told = 0 /\ outlet = <<>> /\ cursor = 0
    /\ caller = [r \in Requests |-> NotCalled]

\* A caller sends a request, for the first time or again, and it is taken or
\* refused.  Only what is taken may be committed.
Invoke(r) ==
    /\ caller[r].pc \in {"idle", "unknown", "refused"} /\ caller[r].att < MaxAttempts
    /\ \E pc \in {"pending", "refused"} :
          /\ caller' = [caller EXCEPT ![r] = [pc |-> pc, att |-> @.att + 1,
                                              floor |-> told, pos |-> 0]]
          /\ open' = IF pc = "pending" /\ r \in Commands
                     THEN open \cup {[req |-> r, att |-> caller'[r].att]} ELSE open
    /\ UNCHANGED <<log, told, outlet, cursor>>

\* A refusal after the request was taken takes it back for good.
Refuse(r) ==
    /\ caller[r].pc = "pending"
    /\ caller' = [caller EXCEPT ![r].pc = "refused"]
    /\ open' = open \ {[req |-> r, att |-> caller[r].att]}
    /\ r \in Commands => open' # open
    /\ UNCHANGED <<log, told, outlet, cursor>>

\* The log grows by open attempts, each once, and by at most one result of a
\* command; attempts may be lost, and callers may give up, at any time.
Settle ==
    /\ IsPrefix(log, log') /\ open' \subseteq open
    /\ \A k \in (Len(log) + 1)..Len(log') :
          /\ AttemptOf(log'[k]) \in open \ open'
          /\ \A j \in 1..(k - 1) :
                /\ AttemptOf(log'[j]) # AttemptOf(log'[k])
                /\ log'[j].req = log'[k].req => ~(log'[j].batch /\ log'[k].batch)
    /\ \E gone \in SUBSET {r \in Requests : caller[r].pc = "pending"} :
          caller' = [r \in Requests |-> IF r \in gone THEN [caller[r] EXCEPT !.pc = "unknown"]
                                        ELSE caller[r]]
    /\ UNCHANGED <<told, outlet, cursor>>

\* A command is answered with the position of its own record, a query with a
\* prefix of the log that holds all that anyone was told before it was sent.
Answer(r) ==
    /\ caller[r].pc = "pending"
    /\ \E pos \in 0..Len(log) :
          /\ IF r \in Commands
             THEN pos > caller[r].floor
                  /\ AttemptOf(log[pos]) = [req |-> r, att |-> caller[r].att]
             ELSE pos >= caller[r].floor
          /\ caller' = [caller EXCEPT ![r].pc = "replied", ![r].pos = pos]
          /\ told' = IF pos > told THEN pos ELSE told
    /\ UNCHANGED <<log, open, outlet, cursor>>

\* The messages of record s.
Batch(s) == {[seq |-> s, idx |-> x, req |-> log[s].req] :
                x \in 1..(IF log[s].batch THEN Events[log[s].req] ELSE 0)}
Earlier(m) == {n \in UNION {Batch(s) : s \in 1..m.seq} : n.seq < m.seq \/ n.idx < m.idx}

\* A message appears when every earlier one has appeared; it may come again.
Emit ==
    /\ \E m \in UNION {Batch(s) : s \in DOMAIN log} :
          Earlier(m) \subseteq ToSet(outlet) /\ outlet' = Append(outlet, m)
    /\ UNCHANGED <<log, open, caller, told, cursor>>

Acknowledge ==
    /\ cursor < Len(log) /\ Batch(cursor + 1) \subseteq ToSet(outlet)
    /\ cursor' = cursor + 1
    /\ UNCHANGED <<log, open, caller, told, outlet>>

Next ==
    \/ \E r \in Requests : Invoke(r) \/ Refuse(r) \/ Answer(r)
    \/ Settle \/ Emit \/ Acknowledge

Spec == Init /\ [][Next]_logVars
===============================================================================
