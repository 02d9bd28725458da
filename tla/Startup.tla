-------------------------------- MODULE Startup -------------------------------
(***************************************************************************)
(* From the first start of the process to every later one: the owner lock  *)
(* on the data directory, the creation of the journal, the first bootstrap *)
(* from the platform's balances, and the replay that later starts use      *)
(* instead.  Several processes start on one directory, crash between any   *)
(* two steps and stop; while none is up, the operator may lose the journal *)
(* file or the whole directory, or the disk may damage or lose a record.   *)
(*                                                                         *)
(* The state of an engine is the sequence of commands it has executed.     *)
(* The balances a bootstrap imports contain none of them (NoHistory), so   *)
(* they are left out.  The file system, flock and PostgreSQL are external. *)
(***************************************************************************)
EXTENDS Integers, Sequences, FiniteSets, SequencesExt

CONSTANTS
    Procs,         \* processes that are started on the directory
    Placements,    \* order commands
    Credits,       \* deposit commands
    Payouts,       \* withdrawal commands
    MaxCommands,   \* bound: commands the platform sends
    MaxCrashes,    \* bound: crashes and failed steps
    MaxLosses      \* bound: losses of the file, the directory or a record, damaged records

Commands == Placements \cup Credits \cup Payouts

ASSUME StartupBounds == MaxCommands \in Nat /\ MaxCrashes \in Nat /\ MaxLosses \in Nat

VARIABLES
    lockFile,   \* owner.lock exists
    synced,     \* the names in the directory survive a power failure
    holder,     \* the process with the flock, if any
    journal,    \* journal.sqlite3: [made, genesis, rows, bad, gone, cursor]; rows ends
                \* with the last record that is there, gone are the missing ones before it
    proc,       \* per process: [pc, fresh, mem, pending]
    platform,   \* [orders, receipts, attempts, withdrawals, received], sets of commands
    acked,      \* history: commands answered as executed
    lineages,   \* history: engine identifiers created so far
    moves,      \* history: times the whole directory was lost
    cut,        \* history: undelivered commands that vanished from the journal's end
    crashes, losses

disk == <<lockFile, synced, journal>>
history == <<acked, lineages, moves, cut, crashes, losses>>
vars == <<disk, holder, proc, platform, history>>

NoJournal == [made |-> FALSE, genesis |-> 0, rows |-> <<>>, bad |-> {}, gone |-> {},
              cursor |-> 0]
Off == [pc |-> "off", fresh |-> FALSE, mem |-> <<>>, pending |-> <<>>]

Init ==
    /\ lockFile = FALSE /\ synced = FALSE /\ holder = {} /\ journal = NoJournal
    /\ proc = [p \in Procs |-> Off]
    /\ platform = [orders |-> {}, receipts |-> {}, attempts |-> {}, withdrawals |-> {},
                   received |-> {}]
    /\ acked = {} /\ lineages = 0 /\ moves = 0 /\ cut = {} /\ crashes = 0 /\ losses = 0

At(p, pc) == proc[p].pc = pc
Goto(p, pc) == proc' = [proc EXCEPT ![p].pc = pc]

\* The process is gone, the operating system frees its lock.
Ends(p) ==
    /\ proc' = [proc EXCEPT ![p] = Off]
    /\ holder' = holder \ {p}

-----------------------------------------------------------------------------
(* Ownership::acquire.                                                      *)

\* fresh is read before the file is opened and locked.
Look(p) ==
    /\ At(p, "off")
    /\ proc' = [proc EXCEPT ![p].pc = "open", ![p].fresh = ~lockFile]
    /\ UNCHANGED <<disk, holder, platform, history>>

OpenLock(p) ==
    /\ At(p, "open") /\ lockFile' = TRUE /\ Goto(p, "flock")
    /\ UNCHANGED <<synced, journal, holder, platform, history>>

\* LOCK_NB: a directory that is owned ends the start.
Flock(p) ==
    /\ At(p, "flock")
    /\ IF holder = {} THEN holder' = {p} /\ Goto(p, "check") ELSE Ends(p)
    /\ UNCHANGED <<disk, platform, history>>

-----------------------------------------------------------------------------
(* HighPerformanceEngine::start.                                            *)

\* Mutation of Check: any directory may be bootstrapped.
CheckNothing(p) ==
    /\ At(p, "check") /\ Goto(p, "create")
    /\ UNCHANGED <<disk, holder, platform, history>>

\* A directory that had an owner must have its journal.
Check(p) ==
    /\ At(p, "check")
    /\ IF proc[p].fresh \/ journal.made THEN Goto(p, "create") /\ UNCHANGED holder
       ELSE Ends(p)
    /\ UNCHANGED <<disk, platform, history>>

\* Connection::open creates the file.
Create(p) ==
    /\ At(p, "create") /\ journal' = [journal EXCEPT !.made = TRUE] /\ Goto(p, "schema")
    /\ UNCHANGED <<lockFile, synced, holder, platform, history>>

\* Mutation of Schema: the directory is not flushed.
SchemaUnsynced(p) ==
    /\ At(p, "schema") /\ UNCHANGED synced
    /\ Goto(p, IF journal.genesis = 0 THEN "load" ELSE "recover")
    /\ UNCHANGED <<lockFile, journal, holder, platform, history>>

\* The tables exist and the directory is flushed; initialized() looks for
\* the genesis row.
Schema(p) ==
    /\ At(p, "schema") /\ synced' = TRUE
    /\ Goto(p, IF journal.genesis = 0 THEN "load" ELSE "recover")
    /\ UNCHANGED <<lockFile, journal, holder, platform, history>>

\* Mutation of NoHistory: deposits that were sent do not count.
NoHistoryButDeposits ==
    /\ platform.receipts = {} /\ platform.received = {}
    /\ platform.withdrawals = {} /\ platform.orders \subseteq platform.received

\* load_balances: nothing on the platform may come from an engine or be on
\* its way to one.
NoHistory ==
    /\ platform.receipts = {} /\ platform.received = {} /\ platform.attempts = {}
    /\ platform.withdrawals = {} /\ platform.orders \subseteq platform.received

\* One REPEATABLE READ snapshot of the platform.
LoadBalances(p) ==
    /\ At(p, "load")
    /\ IF NoHistory THEN Goto(p, "initialize") /\ UNCHANGED holder ELSE Ends(p)
    /\ UNCHANGED <<disk, platform, history>>

\* The genesis row with a new engine identifier.
Initialize(p) ==
    /\ At(p, "initialize")
    /\ lineages' = lineages + 1
    /\ journal' = [journal EXCEPT !.genesis = lineages']
    /\ Goto(p, "recover")
    /\ UNCHANGED <<lockFile, synced, holder, platform, acked, moves, cut, crashes, losses>>

\* Mutation of Whole: the last record must not have been delivered.
WholeUndelivered ==
    /\ journal.gone = {} /\ journal.bad = {}
    /\ journal.rows # <<>> => journal.cursor < Len(journal.rows)

\* Mutation of Whole: the sequence numbers may have gaps.
WholeWithGaps ==
    journal.genesis # 0 /\ journal.bad = {} /\ journal.cursor <= Len(journal.rows)

\* recover: the genesis is there, the records up to the last one that is
\* there have no gap and are undamaged, and the cursor is not ahead of them.
\* Nothing tells where the journal ended before, so that a record which was
\* not delivered and has no successor is not missed.
Whole ==
    /\ journal.genesis # 0 /\ journal.gone = {} /\ journal.bad = {}
    /\ journal.cursor <= Len(journal.rows)

\* A damaged or missing record would be replayed as something else than the
\* command.
Garbled == <<>>
Replayed == [i \in DOMAIN journal.rows |->
               IF i \in journal.bad \cup journal.gone THEN Garbled ELSE journal.rows[i]]

\* The state is rebuilt from the journal alone; then the entrance is opened.
Recover(p) ==
    /\ At(p, "recover")
    /\ IF Whole
       THEN /\ proc' = [proc EXCEPT ![p].pc = "running", ![p].mem = Replayed]
            /\ UNCHANGED holder
       ELSE Ends(p)
    /\ UNCHANGED <<disk, platform, history>>

-----------------------------------------------------------------------------
(* The running engine; EnginePipeline has the details.                      *)

\* A command the engine does not know is applied; an order is stored as
\* accepted before it is sent (order_receipt::accept).
Execute(p, c) ==
    /\ At(p, "running") /\ c \notin ToSet(proc[p].mem)
    /\ c \in platform.orders \cup platform.attempts \cup platform.withdrawals
    /\ platform' = [platform EXCEPT !.receipts = @ \cup ({c} \cap Placements)]
    /\ proc' = [proc EXCEPT ![p].mem = Append(@, c), ![p].pending = Append(@, c)]
    /\ UNCHANGED <<disk, holder, history>>

\* The journal worker commits and answers, also while the engine stops.
Commit(p) ==
    /\ proc[p].pending # <<>>
    /\ journal' = [journal EXCEPT !.rows = @ \o proc[p].pending]
    /\ acked' = acked \cup ToSet(proc[p].pending)
    /\ proc' = [proc EXCEPT ![p].pending = <<>>]
    /\ UNCHANGED <<lockFile, synced, holder, platform, lineages, moves, cut, crashes, losses>>

\* The next record reaches the platform, which applies it once; the cursor
\* is stored after that, or the process ends first.
Deliver(p) ==
    /\ At(p, "running") /\ journal.cursor < Len(journal.rows)
    /\ platform' = [platform EXCEPT !.received = @ \cup {journal.rows[journal.cursor + 1]}]
    /\ \/ journal' = [journal EXCEPT !.cursor = @ + 1] /\ UNCHANGED <<proc, holder, crashes>>
       \/ crashes < MaxCrashes /\ crashes' = crashes + 1 /\ Ends(p) /\ UNCHANGED journal
    /\ UNCHANGED <<lockFile, synced, acked, lineages, moves, cut, losses>>

\* halt closes the entrance; the file lock is released last.
Halt(p) ==
    /\ At(p, "running") /\ Goto(p, "halting")
    /\ UNCHANGED <<disk, holder, platform, history>>

Stopped(p) ==
    /\ At(p, "halting") /\ proc[p].pending = <<>> /\ Ends(p)
    /\ UNCHANGED <<disk, platform, history>>

-----------------------------------------------------------------------------
(* Faults, the operator and the platform.                                   *)

\* The process crashes, or a step of the start returns an error.
Crash(p) ==
    /\ ~At(p, "off") /\ crashes < MaxCrashes
    /\ crashes' = crashes + 1 /\ Ends(p)
    /\ UNCHANGED <<disk, platform, acked, lineages, moves, cut, losses>>

\* The machine fails: names that were not flushed may be gone, each of them.
PowerFailure ==
    /\ crashes < MaxCrashes /\ crashes' = crashes + 1
    /\ proc' = [p \in Procs |-> Off] /\ holder' = {}
    /\ IF synced THEN UNCHANGED <<lockFile, journal>>
       ELSE /\ lockFile' \in {lockFile, FALSE}
            /\ journal' \in {journal, NoJournal}
    /\ UNCHANGED <<synced, platform, acked, lineages, moves, cut, losses>>

AllDown == \A p \in Procs : At(p, "off")

LoseJournal ==
    /\ AllDown /\ journal.made /\ losses < MaxLosses
    /\ losses' = losses + 1 /\ journal' = NoJournal
    /\ UNCHANGED <<lockFile, synced, holder, proc, platform, acked, lineages, moves, cut, crashes>>

\* The directory is lost, or another path is configured.
LoseDirectory ==
    /\ AllDown /\ lockFile /\ losses < MaxLosses
    /\ losses' = losses + 1 /\ moves' = moves + 1
    /\ journal' = NoJournal /\ lockFile' = FALSE /\ synced' = FALSE
    /\ UNCHANGED <<holder, proc, platform, acked, lineages, cut, crashes>>

\* The records that are there.
Present == DOMAIN journal.rows \ journal.gone

\* A record is no longer what was written.
Damage ==
    /\ AllDown /\ losses < MaxLosses
    /\ \E i \in Present : journal' = [journal EXCEPT !.bad = @ \cup {i}]
    /\ losses' = losses + 1
    /\ UNCHANGED <<lockFile, synced, holder, proc, platform, acked, lineages, moves, cut, crashes>>

\* A record is no longer there.  The journal then ends with the last record
\* that still is, and the next one is written after that.
LoseRecord ==
    /\ AllDown /\ losses < MaxLosses
    /\ \E i \in Present : \E last \in {0} \cup (Present \ {i}) :
          /\ \A k \in Present \ {i} : k <= last
          /\ journal' = [journal EXCEPT !.rows = SubSeq(@, 1, last),
                                        !.gone = (@ \cup {i}) \cap 1..last,
                                        !.bad = (@ \ {i}) \cap 1..last]
          /\ cut' = cut \cup {journal.rows[k] : k \in {n \in DOMAIN journal.rows :
                                                          n > last /\ n > journal.cursor}}
    /\ losses' = losses + 1
    /\ UNCHANGED <<lockFile, synced, holder, proc, platform, acked, lineages, moves, crashes>>

\* The platform stores its own record before it sends anything: a pending
\* order, an attempt to send a deposit, a withdrawal.
PlatformRecords(c) ==
    /\ Cardinality(platform.orders \cup platform.attempts \cup platform.withdrawals) < MaxCommands
    /\ platform' = [platform EXCEPT !.orders = @ \cup ({c} \cap Placements),
                                    !.attempts = @ \cup ({c} \cap Credits),
                                    !.withdrawals = @ \cup ({c} \cap Payouts)]
    /\ platform' # platform
    /\ UNCHANGED <<disk, holder, proc, history>>

-----------------------------------------------------------------------------
Starting(p) ==
    \/ Look(p) \/ OpenLock(p) \/ Flock(p) \/ Check(p) \/ Create(p) \/ Schema(p)
    \/ LoadBalances(p) \/ Initialize(p) \/ Recover(p)

Next ==
    \/ \E p \in Procs : Starting(p) \/ Commit(p) \/ Deliver(p) \/ Halt(p) \/ Stopped(p) \/ Crash(p)
    \/ \E p \in Procs, c \in Commands : Execute(p, c)
    \/ \E c \in Commands : PlatformRecords(c)
    \/ PowerFailure \/ LoseJournal \/ LoseDirectory \/ Damage \/ LoseRecord

\* The container is restarted and its threads run; no fault has to happen.
Spec ==
    /\ Init /\ [][Next]_vars
    /\ \A p \in Procs : WF_vars(Starting(p)) /\ WF_vars(Commit(p)) /\ WF_vars(Stopped(p))

-----------------------------------------------------------------------------
(* Properties.                                                              *)

Up == {p \in Procs : At(p, "running")}

\* An engine that serves knows everything any engine ever answered, once:
\* neither a lost file or directory, nor a damaged record, nor one that is
\* missing, nor a second process, nor a first bootstrap in the wrong place
\* makes it forget (the refusals of acquire, start, load_balances and recover
\* together).  The one loss that recover accepts is excepted: records that
\* vanish from the end of the journal before they were delivered leave
\* neither a gap nor a cursor ahead of them.
NothingAnsweredIsForgotten ==
    \A p \in Up : acked \ cut \subseteq ToSet(proc[p].mem) /\ IsInjective(proc[p].mem)

\* One directory gets one engine identifier: interrupted and competing starts
\* create no second one, and a journal that disappears is not replaced.  The
\* identifiers of all events rest on it.
OneLineage == lineages <= 1 + moves

\* A directory that every start refuses, because it lost its journal in an
\* early crash or the platform already has history, has never served a
\* command, so that nothing is given up when an operator clears it.
RefusesForGood == lockFile /\ (~journal.made \/ (journal.genesis = 0 /\ ~NoHistory))
RefusedHasServedNobody ==
    RefusesForGood /\ AllDown /\ losses = 0 => acked = {} /\ platform.received = {}

\* What was initialized can be started again: crashes, stops and competing
\* starts leave no state that every later start refuses, unless the operator
\* or the disk loses something.
Restartable ==
    journal.genesis # 0 /\ losses = 0 ~> Up # {} \/ losses > 0
===============================================================================
