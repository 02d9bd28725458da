----------------------------- MODULE StartupProofs ----------------------------
(***************************************************************************)
(* Ownership, bootstrap and replay, and the audit on top of them, for any  *)
(* number of processes, commands, crashes and losses.                      *)
(*                                                                         *)
(* The argument: flock lets one process at a time past acquire (LockInv),  *)
(* so what that process has read of the disk stays true until it ends      *)
(* (ProcessInv).  A directory is flushed before it gets an identifier, and *)
(* once it had one, only the loss of the whole directory makes it look new *)
(* again (DirectoryInv).  Whoever was answered has left a trace on the     *)
(* platform (TraceInv), which stops a bootstrap that would forget it.      *)
(***************************************************************************)
EXTENDS Audit, TLAPS

Flag     == BOOLEAN
Stage    == {"off", "open", "flock", "check", "create", "schema", "load", "initialize",
             "recover", "running", "halting"}
Journal  == [made : Flag, genesis : Nat, rows : Seq(Commands), bad : SUBSET Nat,
             gone : SUBSET Nat, cursor : Nat]
Proc     == [pc : Stage, fresh : Flag, mem : Seq(Commands), pending : Seq(Commands)]
Platform == [orders : SUBSET Commands, receipts : SUBSET Commands,
             attempts : SUBSET Commands, withdrawals : SUBSET Commands,
             received : SUBSET Commands]

StartType ==
    /\ journal \in Journal /\ proc \in [Procs -> Proc] /\ platform \in Platform
    /\ holder \in SUBSET Procs /\ acked \in SUBSET Commands /\ cut \in SUBSET Commands
    /\ lineages \in Nat /\ moves \in Nat /\ losses \in Nat

\* Past acquire: the owner of the directory, and nobody else.
Locked(r)  == r.pc \notin {"off", "open", "flock"}
LockInv    == \A p \in Procs : (Locked(proc[p]) => holder = {p})
                            /\ (p \in holder => Locked(proc[p]))

\* What a process knows of the disk at each step of its start and after it.
Serving(r) == r.pc \in {"running", "halting"}
Ready(r)   == r.pc \in {"recover", "running", "halting"}
Loading(r) == r.pc \in {"load", "initialize"}
Knows(r) ==
    /\ r.pc = "off" => r = Off
    /\ r.pc \notin {"off", "open"} => lockFile
    /\ r.pc = "create" => r.fresh \/ journal.made
    /\ r.pc = "schema" \/ Loading(r) \/ Ready(r) => journal.made
    /\ Loading(r) => synced /\ journal.genesis = 0
    /\ r.pc = "initialize" => acked = {}
    /\ Ready(r) => journal.genesis # 0
    /\ IF Serving(r)
       THEN /\ r.mem = journal.rows \o r.pending /\ IsInjective(r.mem)
            /\ journal.cursor <= Len(journal.rows)
       ELSE r.pending = <<>>
ProcessInv == \A p \in Procs : Knows(proc[p])

\* The directory and its identifiers.
LooksNew == ~lockFile \/ journal.made \/ \E p \in Procs : proc[p].fresh
DirectoryInv ==
    /\ synced => lockFile
    /\ ~synced => journal.genesis = 0 /\ lineages <= moves
    /\ IF journal.genesis = 0 THEN journal.rows = <<>>
       ELSE /\ journal.made
            /\ journal.cursor <= Len(journal.rows) => acked \ cut \subseteq ToSet(journal.rows)
    /\ IsInjective(journal.rows)
    /\ journal.genesis <= lineages /\ lineages <= 1 + moves
    /\ journal.genesis = 0 /\ LooksNew => lineages <= moves

\* Everything executed is on record at the platform, and has left an
\* identifier in the directory unless something was lost.
Recorded == platform.orders \cup platform.attempts \cup platform.withdrawals
TraceInv ==
    /\ acked \subseteq Recorded /\ platform.received \subseteq Recorded
    /\ ToSet(journal.rows) \subseteq Recorded
    /\ \A p \in Procs : ToSet(proc[p].pending) \subseteq Recorded
    /\ losses = 0 /\ (acked # {} \/ platform.received # {}) => journal.genesis # 0

\* The inductive invariant.
StartInv == StartType /\ LockInv /\ ProcessInv /\ DirectoryInv /\ TraceInv

-----------------------------------------------------------------------------
(* Sequences.                                                               *)

\* The commands of two batches together.
LEMMA ToSetConcat ==
    ASSUME NEW S, NEW s \in Seq(S), NEW t \in Seq(S)
    PROVE  /\ s \o t \in Seq(S)
           /\ ToSet(s \o t) = ToSet(s) \cup ToSet(t)
<1>1. s \o t \in Seq(S) /\ Len(s \o t) = Len(s) + Len(t)
  OBVIOUS
<1>2. ASSUME NEW x \in ToSet(s \o t) PROVE x \in ToSet(s) \cup ToSet(t)
  <2>1. PICK i \in 1..(Len(s) + Len(t)) : x = (s \o t)[i]
    BY <1>1, <1>2 DEF ToSet
  <2>2. CASE i <= Len(s)
    BY <2>1, <2>2 DEF ToSet
  <2>3. CASE i > Len(s)
    <3>1. i - Len(s) \in 1..Len(t) /\ x = t[i - Len(s)]
      BY <2>1, <2>3
    <3>2. QED
      BY <3>1 DEF ToSet
  <2>4. QED
    BY <2>1, <2>2, <2>3
<1>3. ASSUME NEW x \in ToSet(s) PROVE x \in ToSet(s \o t)
  <2>1. PICK i \in 1..Len(s) : x = s[i]
    BY <1>3 DEF ToSet
  <2>2. i \in 1..Len(s \o t) /\ x = (s \o t)[i]
    BY <2>1, <1>1
  <2>3. QED
    BY <2>2, <1>1 DEF ToSet
<1>4. ASSUME NEW x \in ToSet(t) PROVE x \in ToSet(s \o t)
  <2>1. PICK i \in 1..Len(t) : x = t[i]
    BY <1>4 DEF ToSet
  <2>2. Len(s) + i \in 1..Len(s \o t) /\ x = (s \o t)[Len(s) + i]
    BY <2>1, <1>1
  <2>3. QED
    BY <2>2, <1>1 DEF ToSet
<1>5. QED
  BY <1>1, <1>2, <1>3, <1>4

\* One more command in a batch.
LEMMA ToSetAppend ==
    ASSUME NEW S, NEW s \in Seq(S), NEW c \in S
    PROVE  Append(s, c) \in Seq(S) /\ ToSet(Append(s, c)) \subseteq ToSet(s) \cup {c}
BY DEF ToSet

\* A command that is not there yet keeps the sequence free of repetitions.
LEMMA GrowsInjective ==
    ASSUME NEW S, NEW s \in Seq(S), NEW c \in S, c \notin ToSet(s), IsInjective(s)
    PROVE  IsInjective(Append(s, c))
<1>1. DOMAIN s = 1..Len(s) /\ DOMAIN Append(s, c) = 1..(Len(s) + 1)
  OBVIOUS
<1>2. \A i \in 1..Len(s) : Append(s, c)[i] = s[i] /\ s[i] # c
  BY DEF ToSet
<1>3. Append(s, c)[Len(s) + 1] = c
  OBVIOUS
<1>4. ASSUME NEW i \in 1..(Len(s) + 1), NEW j \in 1..(Len(s) + 1),
             Append(s, c)[i] = Append(s, c)[j]
      PROVE  i = j
  <2>1. i \in 1..Len(s) \/ i = Len(s) + 1
    OBVIOUS
  <2>2. j \in 1..Len(s) \/ j = Len(s) + 1
    OBVIOUS
  <2>3. CASE i \in 1..Len(s) /\ j \in 1..Len(s)
    BY <1>1, <1>2, <1>4, <2>3 DEF IsInjective
  <2>4. QED
    BY <1>2, <1>3, <1>4, <2>1, <2>2, <2>3, Zenon
<1>5. QED
  BY <1>1, <1>4, Zenon DEF IsInjective

\* Nothing is appended.
LEMMA ConcatNothing ==
    ASSUME NEW S, NEW s \in Seq(S)
    PROVE  s = s \o <<>> /\ <<>> \in Seq(S) /\ ToSet(<<>>) = {} /\ IsInjective(<<>>)
BY DEF ToSet, IsInjective

-----------------------------------------------------------------------------
(* Steps of one process.                                                    *)

\* Nobody moves into what a process knows: the owner because it is the only
\* one that writes, the others because the lock file is never removed under
\* them.
LEMMA Bystander ==
    ASSUME NEW r \in Proc, Knows(r), lockFile => lockFile',
           Locked(r) => UNCHANGED <<synced, journal, acked>>
    PROVE  Knows(r)'
BY DEF Knows, Locked, Serving, Ready, Loading

\* The others keep out while a process holds the lock.
LEMMA OneOwner ==
    ASSUME StartInv, NEW p \in Procs, Locked(proc[p]), NEW q \in Procs, q # p
    PROVE  ~Locked(proc[q])
BY DEF StartInv, LockInv

\* A process that has nothing to do with the lock, takes it or ends.
LockMove(p, r) ==
    \/ holder' = holder /\ (Locked(r) <=> Locked(proc[p]))
    \/ holder = {} /\ holder' = {p} /\ Locked(r)
    \/ holder' = holder \ {p} /\ ~Locked(r)

\* Steps of one process keep the lock exclusive.
LEMMA LockStep ==
    ASSUME StartInv, NEW p \in Procs, NEW r \in Proc,
           proc' = [proc EXCEPT ![p] = r], LockMove(p, r)
    PROVE  LockInv' /\ holder' \in SUBSET Procs /\ proc' \in [Procs -> Proc]
<1>1. proc'[p] = r /\ \A q \in Procs : q # p => proc'[q] = proc[q]
  BY DEF StartInv, StartType
<1>2. proc' \in [Procs -> Proc] /\ holder' \in SUBSET Procs
  BY DEF StartInv, StartType, LockMove
<1>3. ASSUME NEW q \in Procs
      PROVE  (Locked(proc'[q]) => holder' = {q}) /\ (q \in holder' => Locked(proc'[q]))
  <2>1. CASE q = p
    BY <1>1, <2>1 DEF StartInv, LockInv, LockMove
  <2>2. CASE q # p
    BY <1>1, <2>2 DEF StartInv, LockInv, LockMove
  <2>3. QED
    BY <2>1, <2>2
<1>4. QED
  BY <1>2, <1>3 DEF LockInv, Locked

\* A step of p that leaves the disk, the answers and the platform alone.
Quiet == UNCHANGED <<disk, platform, acked, lineages, moves, cut, losses>>

\* A step that leaves the directory alone keeps StartInv.
LEMMA QuietStep ==
    ASSUME StartInv, NEW p \in Procs, NEW r \in Proc,
           proc' = [proc EXCEPT ![p] = r], LockMove(p, r), Quiet,
           Knows(r), r.fresh => proc[p].fresh \/ ~lockFile,
           ToSet(r.pending) \subseteq ToSet(proc[p].pending)
    PROVE  StartInv'
<1>1. proc'[p] = r /\ \A q \in Procs : q # p => proc'[q] = proc[q]
  BY DEF StartInv, StartType
<1>2. LockInv' /\ holder' \in SUBSET Procs /\ proc' \in [Procs -> Proc]
  BY LockStep
<1>3. StartType'
  BY <1>2 DEF StartInv, StartType, Quiet, disk
<1>4. ProcessInv'
  <2>1. SUFFICES ASSUME NEW q \in Procs PROVE Knows(proc[q])'
    BY DEF ProcessInv
  <2>2. UNCHANGED <<lockFile, synced, journal, acked>>
    BY DEF Quiet, disk
  <2>3. CASE q = p
    BY <1>1, <2>2, <2>3 DEF Knows, Locked, Serving, Ready, Loading
  <2>4. CASE q # p
    BY <1>1, <2>2, <2>4 DEF StartInv, ProcessInv, Knows, Locked, Serving, Ready, Loading
  <2>5. QED
    BY <2>3, <2>4
<1>5. DirectoryInv'
  <2>1. LooksNew' => LooksNew
    BY <1>1 DEF LooksNew, Quiet, disk
  <2>2. QED
    BY <2>1 DEF StartInv, DirectoryInv, Quiet, disk
<1>6. TraceInv'
  BY <1>1 DEF StartInv, TraceInv, Recorded, Quiet, disk
<1>7. QED
  BY <1>2, <1>3, <1>4, <1>5, <1>6 DEF StartInv

\* A process that ends forgets everything and gives its lock back.
LEMMA EndsStep ==
    ASSUME StartInv, NEW p \in Procs, Ends(p), Quiet
    PROVE  StartInv'
<1>1. Off \in Proc /\ Off.pc = "off" /\ Off.fresh = FALSE
      /\ Off.pending = <<>> /\ ToSet(Off.pending) = {}
  BY DEF Off, Proc, Stage, Flag, ToSet
<1>2. Knows(Off) /\ ~Locked(Off)
  BY <1>1 DEF Knows, Locked, Serving, Ready, Loading
<1>3. proc' = [proc EXCEPT ![p] = Off] /\ LockMove(p, Off)
  BY <1>2 DEF Ends, LockMove
<1>4. QED
  BY <1>1, <1>2, <1>3, QuietStep

\* A step that only moves the program counter, between two stages with the
\* lock or two without it.
LEMMA GotoStep ==
    ASSUME StartInv, NEW p \in Procs, NEW pc \in Stage, Goto(p, pc), Quiet,
           Knows([proc[p] EXCEPT !.pc = pc]), LockMove(p, [proc[p] EXCEPT !.pc = pc])
    PROVE  StartInv'
<1> DEFINE r == [proc[p] EXCEPT !.pc = pc]
<1>1. proc[p] \in Proc
  BY DEF StartInv, StartType
<1>2. r \in Proc /\ r.fresh = proc[p].fresh /\ r.pending = proc[p].pending
  BY <1>1 DEF Proc
<1>3. proc' = [proc EXCEPT ![p] = r]
  BY DEF Goto, StartInv, StartType
<1>4. QED
  BY <1>2, <1>3, QuietStep

\* What the record of a process looks like after its counter moved.
LEMMA Moved ==
    ASSUME NEW r \in Proc, NEW pc \in Stage
    PROVE  /\ [r EXCEPT !.pc = pc].pc = pc
           /\ [r EXCEPT !.pc = pc].fresh = r.fresh
           /\ [r EXCEPT !.pc = pc].mem = r.mem
           /\ [r EXCEPT !.pc = pc].pending = r.pending
           /\ [r EXCEPT !.pc = pc] \in Proc
BY DEF Proc

\* The look at the directory.
LEMMA LookStep ==
    ASSUME StartInv, NEW p \in Procs, Look(p)
    PROVE  StartInv'
<1>1. PICK f \in Flag : f = ~lockFile
  BY Zenon DEF Flag
<1> DEFINE r == [proc[p] EXCEPT !.pc = "open", !.fresh = f]
<1>2. proc[p] \in Proc /\ proc[p].pc = "off" /\ Knows(proc[p])
  BY DEF StartInv, StartType, Look, At, ProcessInv
<1>3. proc[p].pending = <<>>
  BY <1>2 DEF Knows, Serving
<1>4. r \in Proc /\ r.pc = "open" /\ r.fresh = f /\ r.pending = <<>>
  BY <1>2, <1>3 DEF Proc, Stage
<1>5. proc' = [proc EXCEPT ![p].pc = "open", ![p].fresh = f]
  BY <1>1, Zenon DEF Look
<1>6. proc' = [proc EXCEPT ![p] = r]
  BY <1>5 DEF StartInv, StartType
<1>7. LockMove(p, r) /\ Quiet
  BY <1>2, <1>4 DEF Look, LockMove, Locked, Quiet, history
<1>8. Knows(r)
  BY <1>4 DEF Knows, Serving, Ready, Loading
<1>9. r.fresh => proc[p].fresh \/ ~lockFile
  BY <1>1, <1>4
<1> HIDE DEF r
<1>10. QED
  BY <1>3, <1>4, <1>6, <1>7, <1>8, <1>9, QuietStep

\* flock succeeds for one process.
LEMMA FlockStep ==
    ASSUME StartInv, NEW p \in Procs, Flock(p)
    PROVE  StartInv'
<1>1. Quiet /\ At(p, "flock") /\ "check" \in Stage
  BY DEF Flock, Quiet, history, Stage
<1>2. CASE holder = {} /\ holder' = {p} /\ Goto(p, "check")
  <2> DEFINE r == [proc[p] EXCEPT !.pc = "check"]
  <2>1. proc[p] \in Proc /\ Knows(proc[p]) /\ proc[p].pc = "flock"
    BY <1>1 DEF StartInv, StartType, ProcessInv, At
  <2>2. r.pc = "check" /\ r.pending = proc[p].pending
    BY <2>1, <1>1, Moved
  <2>3. Knows(r)
    BY <2>1, <2>2 DEF Knows, Serving, Ready, Loading
  <2>4. LockMove(p, r)
    BY <1>2, <2>2 DEF LockMove, Locked
  <2>5. QED
    BY <1>1, <1>2, <2>3, <2>4, GotoStep
<1>3. CASE Ends(p)
  BY <1>1, <1>3, EndsStep
<1>4. QED
  BY <1>2, <1>3 DEF Flock

\* The check of the directory under the lock.
LEMMA CheckStep ==
    ASSUME StartInv, NEW p \in Procs, Check(p)
    PROVE  StartInv'
<1>1. Quiet /\ At(p, "check") /\ "create" \in Stage
  BY DEF Check, Quiet, history, Stage
<1>2. CASE (proc[p].fresh \/ journal.made) /\ Goto(p, "create") /\ UNCHANGED holder
  <2> DEFINE r == [proc[p] EXCEPT !.pc = "create"]
  <2>1. proc[p] \in Proc /\ Knows(proc[p]) /\ proc[p].pc = "check"
    BY <1>1 DEF StartInv, StartType, ProcessInv, At
  <2>2. r.pc = "create" /\ r.pending = proc[p].pending
        /\ r.fresh = proc[p].fresh
    BY <2>1, <1>1, Moved
  <2>3. Knows(r)
    BY <1>2, <2>1, <2>2 DEF Knows, Serving, Ready, Loading
  <2>4. LockMove(p, r)
    BY <1>2, <2>1, <2>2 DEF LockMove, Locked
  <2>5. QED
    BY <1>1, <1>2, <2>3, <2>4, GotoStep
<1>3. CASE Ends(p)
  BY <1>1, <1>3, EndsStep
<1>4. QED
  BY <1>2, <1>3 DEF Check

\* The bootstrap imports balances only where nothing was ever answered.
LEMMA LoadStep ==
    ASSUME StartInv, NEW p \in Procs, LoadBalances(p)
    PROVE  StartInv'
<1>1. Quiet /\ At(p, "load")
  BY DEF LoadBalances, Quiet, history
<1>2. CASE NoHistory /\ UNCHANGED holder /\ Goto(p, "initialize")
  <2> DEFINE r == [proc[p] EXCEPT !.pc = "initialize"]
  <2>1. proc[p] \in Proc /\ Knows(proc[p]) /\ proc[p].pc = "load" /\ platform \in Platform
    BY <1>1 DEF StartInv, StartType, ProcessInv, At
  <2>2. platform.received = {} /\ Recorded = {} /\ acked = {}
    BY <1>2 DEF NoHistory, StartInv, TraceInv, Recorded
  <2>3. r.pc = "initialize" /\ r.pending = proc[p].pending
        /\ r.fresh = proc[p].fresh /\ r \in Proc
    BY <2>1, <2>2 DEF Proc, Stage
  <2>4. proc' = [proc EXCEPT ![p] = r]
    BY <1>2 DEF Goto, StartInv, StartType
  <2>5. Knows(r)
    BY <2>1, <2>2, <2>3 DEF Knows, Serving, Ready, Loading
  <2>6. LockMove(p, r)
    BY <1>2, <2>1, <2>3 DEF LockMove, Locked
  <2>7. QED
    BY <1>1, <2>3, <2>4, <2>5, <2>6, QuietStep
<1>3. CASE Ends(p)
  BY <1>1, <1>3, EndsStep
<1>4. QED
  BY <1>2, <1>3 DEF LoadBalances

\* Replay of an undamaged journal gives back every record of it.
LEMMA RecoverStep ==
    ASSUME StartInv, NEW p \in Procs, Recover(p)
    PROVE  StartInv'
<1>1. Quiet /\ At(p, "recover")
  BY DEF Recover, Quiet, history
<1>2. CASE /\ Whole /\ UNCHANGED holder
           /\ proc' = [proc EXCEPT ![p].pc = "running", ![p].mem = Replayed]
  <2> DEFINE r == [proc[p] EXCEPT !.pc = "running", !.mem = Replayed]
  <2>1. proc[p] \in Proc /\ Knows(proc[p]) /\ proc[p].pc = "recover"
    BY <1>1 DEF StartInv, StartType, ProcessInv, At
  <2>2. journal.rows \in Seq(Commands) /\ IsInjective(journal.rows)
        /\ journal.cursor <= Len(journal.rows)
    BY <1>2 DEF StartInv, StartType, Journal, DirectoryInv, Whole
  <2>3. Replayed = journal.rows
    BY <1>2, <2>2 DEF Replayed, Whole
  <2>4. proc[p].pending = <<>>
    BY <2>1 DEF Knows, Serving
  <2>5. r.pc = "running" /\ r.mem = journal.rows /\ r.pending = <<>>
        /\ r.fresh = proc[p].fresh /\ r \in Proc
    BY <2>1, <2>2, <2>3, <2>4 DEF Proc, Stage
  <2>6. proc' = [proc EXCEPT ![p] = r]
    BY <1>2 DEF StartInv, StartType
  <2>7. r.mem = journal.rows \o r.pending
    BY <2>2, <2>5, ConcatNothing
  <2>8. Knows(r)
    BY <2>1, <2>2, <2>5, <2>7 DEF Knows, Serving, Ready, Loading
  <2>9. LockMove(p, r)
    BY <1>2, <2>1, <2>5 DEF LockMove, Locked
  <2>10. QED
    BY <1>1, <2>4, <2>5, <2>6, <2>8, <2>9, QuietStep
<1>3. CASE Ends(p)
  BY <1>1, <1>3, EndsStep
<1>4. QED
  BY <1>2, <1>3 DEF Recover

\* A halt begins.
LEMMA HaltStep ==
    ASSUME StartInv, NEW p \in Procs, Halt(p)
    PROVE  StartInv'
<1> DEFINE r == [proc[p] EXCEPT !.pc = "halting"]
<1>1. Quiet /\ At(p, "running") /\ "halting" \in Stage /\ Goto(p, "halting")
      /\ holder' = holder
  BY DEF Halt, Quiet, history, Stage
<1>2. proc[p] \in Proc /\ Knows(proc[p]) /\ proc[p].pc = "running"
  BY <1>1 DEF StartInv, StartType, ProcessInv, At
<1>3. r.pc = "halting" /\ r.pending = proc[p].pending
      /\ r.mem = proc[p].mem
  BY <1>2, <1>1, Moved
<1>4. Knows(r)
  BY <1>2, <1>3 DEF Knows, Serving, Ready, Loading
<1>5. LockMove(p, r)
  BY <1>1, <1>2, <1>3 DEF LockMove, Locked
<1>6. QED
  BY <1>1, <1>4, <1>5, GotoStep

\* The end of a halt and a crash free the lock.
LEMMA EndingStep ==
    ASSUME StartInv, NEW p \in Procs, Stopped(p) \/ Crash(p)
    PROVE  StartInv'
<1>1. Ends(p) /\ Quiet
  BY DEF Stopped, Crash, Quiet, history
<1>2. QED
  BY <1>1, EndsStep

-----------------------------------------------------------------------------
(* Steps that write the disk or the platform.                               *)

\* Only the owner writes what the others may have read.
LEMMA ProcessStep ==
    ASSUME StartInv, NEW p \in Procs, NEW r \in Proc,
           proc' = [proc EXCEPT ![p] = r], Knows(r)', lockFile => lockFile',
           Locked(proc[p]) \/ UNCHANGED <<synced, journal, acked>>
    PROVE  ProcessInv'
<1>1. SUFFICES ASSUME NEW q \in Procs PROVE Knows(proc[q])'
  BY DEF ProcessInv
<1>2. CASE q = p
  <2>1. proc'[q] = r
    BY <1>2 DEF StartInv, StartType
  <2>2. QED
    BY <2>1 DEF Knows, Serving, Ready, Loading
<1>3. CASE q # p
  <2>1. PICK s \in Proc : s = proc[q]
    BY DEF StartInv, StartType
  <2>2. proc'[q] = s /\ Knows(s)
    BY <1>3, <2>1 DEF StartInv, StartType, ProcessInv
  <2>3. Locked(s) => UNCHANGED <<synced, journal, acked>>
    BY <1>3, <2>1, OneOwner
  <2>4. Knows(s)'
    BY <2>2, <2>3, Bystander
  <2>5. QED
    BY <2>2, <2>4 DEF Knows, Serving, Ready, Loading
<1>4. QED
  BY <1>2, <1>3

\* owner.lock is opened or created.
LEMMA OpenLockStep ==
    ASSUME StartInv, NEW p \in Procs, OpenLock(p)
    PROVE  StartInv'
<1>1. proc[p] \in Proc /\ proc[p].pc = "open" /\ Knows(proc[p])
  BY DEF StartInv, StartType, ProcessInv, OpenLock, At
<1>2. PICK r \in Proc : r = [proc[p] EXCEPT !.pc = "flock"]
  BY <1>1 DEF Proc, Stage
<1>3. r.pc = "flock" /\ r.fresh = proc[p].fresh
      /\ r.pending = proc[p].pending
  BY <1>1, <1>2 DEF Proc
<1>4. proc' = [proc EXCEPT ![p] = r]
  BY <1>2 DEF OpenLock, Goto, StartInv, StartType
<1>5. proc'[p] = r /\ \A q \in Procs : q # p => proc'[q] = proc[q]
  BY <1>4 DEF StartInv, StartType
<1>6. lockFile' /\ UNCHANGED <<synced, journal, holder, platform, acked, lineages, moves, cut, losses>>
  BY DEF OpenLock, history
<1>7. LockInv' /\ holder' \in SUBSET Procs /\ proc' \in [Procs -> Proc]
  <2>1. LockMove(p, r)
    BY <1>1, <1>3, <1>6 DEF LockMove, Locked
  <2>2. QED
    BY <1>4, <2>1, LockStep
<1>8. ProcessInv'
  <2>1. Knows(r)'
    BY <1>1, <1>3, <1>6 DEF Knows, Serving, Ready, Loading
  <2>2. QED
    BY <1>4, <1>6, <2>1, ProcessStep
<1>9. StartType'
  BY <1>6, <1>7 DEF StartInv, StartType
<1>10. DirectoryInv'
  <2>1. LooksNew' => LooksNew
    BY <1>3, <1>5, <1>6 DEF LooksNew
  <2>2. QED
    BY <1>6, <2>1 DEF StartInv, DirectoryInv
<1>11. TraceInv'
  BY <1>3, <1>5, <1>6 DEF StartInv, TraceInv, Recorded
<1>12. QED
  BY <1>7, <1>8, <1>9, <1>10, <1>11 DEF StartInv

\* The file is created where it may be: in a new directory, or where it is.
LEMMA CreateStep ==
    ASSUME StartInv, NEW p \in Procs, Create(p)
    PROVE  StartInv'
<1>1. proc[p] \in Proc /\ proc[p].pc = "create" /\ Knows(proc[p]) /\ journal \in Journal
  BY DEF StartInv, StartType, ProcessInv, Create, At
<1>2. PICK r \in Proc : r = [proc[p] EXCEPT !.pc = "schema"]
  BY <1>1 DEF Proc, Stage
<1>3. r.pc = "schema" /\ r.fresh = proc[p].fresh
      /\ r.pending = proc[p].pending
  BY <1>1, <1>2 DEF Proc
<1>4. proc' = [proc EXCEPT ![p] = r]
  BY <1>2 DEF Create, Goto, StartInv, StartType
<1>5. proc'[p] = r /\ \A q \in Procs : q # p => proc'[q] = proc[q]
  BY <1>4 DEF StartInv, StartType
<1>6. UNCHANGED <<lockFile, synced, holder, platform, acked, lineages, moves, cut, losses>>
  BY DEF Create, history
<1>7. /\ journal' \in Journal /\ journal'.made
      /\ journal'.genesis = journal.genesis /\ journal'.cursor = journal.cursor
      /\ journal'.rows = journal.rows
  BY <1>1 DEF Create, Journal, Flag
<1>8. LockInv' /\ holder' \in SUBSET Procs /\ proc' \in [Procs -> Proc]
  <2>1. LockMove(p, r)
    BY <1>1, <1>3, <1>6 DEF LockMove, Locked
  <2>2. QED
    BY <1>4, <2>1, LockStep
<1>9. ProcessInv'
  <2>1. Knows(r)'
    BY <1>1, <1>3, <1>6, <1>7 DEF Knows, Serving, Ready, Loading
  <2>2. Locked(proc[p])
    BY <1>1 DEF Locked
  <2>3. QED
    BY <1>4, <1>6, <2>1, <2>2, ProcessStep
<1>10. StartType'
  BY <1>6, <1>7, <1>8 DEF StartInv, StartType
<1>11. DirectoryInv'
  <2>1. LooksNew
    BY <1>1 DEF LooksNew, Knows
  <2>2. QED
    BY <1>6, <1>7, <2>1 DEF StartInv, DirectoryInv
<1>12. TraceInv'
  BY <1>3, <1>5, <1>6, <1>7 DEF StartInv, TraceInv, Recorded
<1>13. QED
  BY <1>8, <1>9, <1>10, <1>11, <1>12 DEF StartInv

\* The directory is flushed before anything is stored in it.
LEMMA SchemaStep ==
    ASSUME StartInv, NEW p \in Procs, Schema(p)
    PROVE  StartInv'
<1>1. proc[p] \in Proc /\ proc[p].pc = "schema" /\ Knows(proc[p])
  BY DEF StartInv, StartType, ProcessInv, Schema, At
<1>2. PICK pc \in Stage : pc = IF journal.genesis = 0 THEN "load" ELSE "recover"
  BY DEF Stage
<1>3. PICK r \in Proc : r = [proc[p] EXCEPT !.pc = pc]
  BY <1>1 DEF Proc
<1>4. r.pc = pc /\ r.fresh = proc[p].fresh
      /\ r.pending = proc[p].pending
  BY <1>1, <1>3 DEF Proc
<1>5. proc' = [proc EXCEPT ![p] = r]
  BY <1>2, <1>3 DEF Schema, Goto, StartInv, StartType
<1>6. proc'[p] = r /\ \A q \in Procs : q # p => proc'[q] = proc[q]
  BY <1>5 DEF StartInv, StartType
<1>7. /\ UNCHANGED <<lockFile, journal, holder, platform, acked, lineages, moves, cut, losses>>
      /\ synced'
  BY DEF Schema, history
<1>8. LockInv' /\ holder' \in SUBSET Procs /\ proc' \in [Procs -> Proc]
  <2>1. LockMove(p, r)
    BY <1>1, <1>2, <1>4, <1>7 DEF LockMove, Locked
  <2>2. QED
    BY <1>5, <2>1, LockStep
<1>9. ProcessInv'
  <2>1. Knows(r)'
    BY <1>1, <1>2, <1>4, <1>7 DEF Knows, Serving, Ready, Loading
  <2>2. Locked(proc[p])
    BY <1>1 DEF Locked
  <2>3. QED
    BY <1>5, <1>7, <2>1, <2>2, ProcessStep
<1>10. StartType'
  BY <1>7, <1>8 DEF StartInv, StartType
<1>11. DirectoryInv'
  <2>1. lockFile /\ (LooksNew' => LooksNew)
    BY <1>1, <1>4, <1>6, <1>7 DEF LooksNew, Knows
  <2>2. QED
    BY <1>7, <2>1 DEF StartInv, DirectoryInv
<1>12. TraceInv'
  BY <1>4, <1>6, <1>7 DEF StartInv, TraceInv, Recorded
<1>13. QED
  BY <1>8, <1>9, <1>10, <1>11, <1>12 DEF StartInv

\* The identifier is the directory's first: the journal existed without one.
LEMMA InitializeStep ==
    ASSUME StartInv, NEW p \in Procs, Initialize(p)
    PROVE  StartInv'
<1>1. proc[p] \in Proc /\ proc[p].pc = "initialize" /\ Knows(proc[p]) /\ journal \in Journal
  BY DEF StartInv, StartType, ProcessInv, Initialize, At
<1>2. PICK r \in Proc : r = [proc[p] EXCEPT !.pc = "recover"]
  BY <1>1 DEF Proc, Stage
<1>3. r.pc = "recover" /\ r.fresh = proc[p].fresh
      /\ r.pending = proc[p].pending
  BY <1>1, <1>2 DEF Proc
<1>4. proc' = [proc EXCEPT ![p] = r]
  BY <1>2 DEF Initialize, Goto, StartInv, StartType
<1>5. proc'[p] = r /\ \A q \in Procs : q # p => proc'[q] = proc[q]
  BY <1>4 DEF StartInv, StartType
<1>6. /\ UNCHANGED <<lockFile, synced, holder, platform, acked, moves, cut, losses>>
      /\ lineages' = lineages + 1 /\ lineages \in Nat /\ moves \in Nat
  BY DEF Initialize, StartInv, StartType
<1>7. journal.made /\ synced /\ journal.genesis = 0 /\ acked = {}
  BY <1>1 DEF Knows, Loading
<1>8. /\ journal' \in Journal /\ journal'.made = journal.made
      /\ journal'.genesis = lineages + 1 /\ journal'.rows = journal.rows
  <2>1. lineages + 1 \in Nat
    BY <1>6
  <2>2. journal' = [journal EXCEPT !.genesis = lineages + 1]
    BY <1>6, <1>7 DEF Initialize
  <2>3. QED
    BY <1>1, <2>1, <2>2 DEF Journal
<1>9. LockInv' /\ holder' \in SUBSET Procs /\ proc' \in [Procs -> Proc]
  <2>1. LockMove(p, r)
    BY <1>1, <1>3, <1>6 DEF LockMove, Locked
  <2>2. QED
    BY <1>4, <2>1, LockStep
<1>10. ProcessInv'
  <2>1. Knows(r)'
    BY <1>1, <1>3, <1>6, <1>7, <1>8 DEF Knows, Serving, Ready, Loading
  <2>2. Locked(proc[p])
    BY <1>1 DEF Locked
  <2>3. QED
    BY <1>4, <1>6, <2>1, <2>2, ProcessStep
<1>11. StartType'
  BY <1>6, <1>8, <1>9 DEF StartInv, StartType
<1>12. DirectoryInv'
  <2>1. lineages <= moves
    BY <1>7 DEF StartInv, DirectoryInv, LooksNew
  <2>2. journal'.genesis # 0
    BY <1>6, <1>8
  <2>3. QED
    BY <1>6, <1>7, <1>8, <2>1, <2>2 DEF StartInv, DirectoryInv
<1>13. TraceInv'
  BY <1>3, <1>5, <1>6, <1>7, <1>8 DEF StartInv, TraceInv, Recorded
<1>14. QED
  BY <1>9, <1>10, <1>11, <1>12, <1>13 DEF StartInv

\* A new command is on record before it is applied.
LEMMA ExecuteStep ==
    ASSUME StartInv, NEW p \in Procs, NEW c \in Commands, Execute(p, c)
    PROVE  StartInv'
<1>1. proc[p] \in Proc /\ proc[p].pc = "running" /\ Knows(proc[p]) /\ journal \in Journal
      /\ platform \in Platform
  BY DEF StartInv, StartType, ProcessInv, Execute, At
<1>2. proc[p].mem \in Seq(Commands) /\ proc[p].pending \in Seq(Commands)
      /\ journal.rows \in Seq(Commands)
  BY <1>1 DEF Proc, Journal
<1>3. /\ Append(proc[p].mem, c) \in Seq(Commands) /\ Append(proc[p].pending, c) \in Seq(Commands)
      /\ ToSet(Append(proc[p].pending, c)) \subseteq ToSet(proc[p].pending) \cup {c}
  BY <1>2, ToSetAppend
<1>4. PICK r \in Proc : r = [proc[p] EXCEPT !.mem = Append(@, c), !.pending = Append(@, c)]
  BY <1>1, <1>3 DEF Proc
<1>5. r.pc = "running" /\ r.fresh = proc[p].fresh
      /\ r.mem = Append(proc[p].mem, c) /\ r.pending = Append(proc[p].pending, c)
  BY <1>1, <1>4 DEF Proc
<1>6. proc' = [proc EXCEPT ![p] = r]
  BY <1>4 DEF Execute, StartInv, StartType
<1>7. proc'[p] = r /\ \A q \in Procs : q # p => proc'[q] = proc[q]
  BY <1>6 DEF StartInv, StartType
<1>8. UNCHANGED <<lockFile, synced, journal, holder, acked, lineages, moves, cut, losses>>
  BY DEF Execute, disk, history
<1>9. /\ platform' \in Platform /\ platform'.orders = platform.orders
      /\ platform'.attempts = platform.attempts /\ platform'.received = platform.received
      /\ platform'.withdrawals = platform.withdrawals
  BY <1>1 DEF Execute, Platform
<1>10. LockInv' /\ holder' \in SUBSET Procs /\ proc' \in [Procs -> Proc]
  <2>1. LockMove(p, r)
    BY <1>1, <1>5, <1>8 DEF LockMove, Locked
  <2>2. QED
    BY <1>6, <2>1, LockStep
<1>11. ProcessInv'
  <2>1. /\ proc[p].mem = journal.rows \o proc[p].pending /\ IsInjective(proc[p].mem)
        /\ journal.made /\ journal.genesis # 0 /\ lockFile
        /\ journal.cursor <= Len(journal.rows)
    BY <1>1 DEF Knows, Serving, Ready
  <2>2. r.mem = journal.rows \o r.pending
    <3>1. ASSUME NEW s \in Seq(Commands), NEW t \in Seq(Commands)
          PROVE  Append(s \o t, c) = s \o Append(t, c)
      OBVIOUS
    <3>2. Append(journal.rows \o proc[p].pending, c) = journal.rows \o Append(proc[p].pending, c)
      BY <1>2, <3>1, Zenon
    <3>3. QED
      BY <1>5, <2>1, <3>2, Zenon
  <2>3. IsInjective(r.mem)
    BY <1>2, <1>5, <2>1, GrowsInjective DEF Execute
  <2>4. Knows(r)'
    BY <1>5, <1>8, <2>1, <2>2, <2>3 DEF Knows, Serving, Ready, Loading
  <2>5. QED
    BY <1>6, <1>8, <2>4, ProcessStep
<1>12. StartType'
  BY <1>8, <1>9, <1>10 DEF StartInv, StartType
<1>13. DirectoryInv'
  <2>1. LooksNew' => LooksNew
    BY <1>5, <1>7, <1>8 DEF LooksNew
  <2>2. QED
    BY <1>8, <2>1 DEF StartInv, DirectoryInv
<1>14. TraceInv'
  <2>1. Recorded' = Recorded /\ c \in Recorded
    BY <1>9 DEF Recorded, Execute
  <2>2. ASSUME NEW q \in Procs PROVE ToSet(proc'[q].pending) \subseteq Recorded
    BY <1>3, <1>5, <1>7, <2>1 DEF StartInv, TraceInv
  <2>3. QED
    BY <1>8, <1>9, <2>1, <2>2 DEF StartInv, TraceInv
<1>15. QED
  BY <1>10, <1>11, <1>12, <1>13, <1>14 DEF StartInv

\* A batch is stored and answered in one step.
LEMMA CommitStep ==
    ASSUME StartInv, NEW p \in Procs, Commit(p)
    PROVE  StartInv'
<1>1. proc[p] \in Proc /\ Knows(proc[p]) /\ journal \in Journal /\ acked \in SUBSET Commands
  BY DEF StartInv, StartType, ProcessInv
<1>2. /\ Serving(proc[p]) /\ proc[p].mem = journal.rows \o proc[p].pending
      /\ IsInjective(proc[p].mem)
      /\ journal.made /\ journal.genesis # 0 /\ lockFile
      /\ journal.cursor <= Len(journal.rows)
  BY <1>1 DEF Commit, Knows, Serving, Ready
<1>3. proc[p].pending \in Seq(Commands) /\ journal.rows \in Seq(Commands)
  BY <1>1 DEF Proc, Journal
<1>4. PICK r \in Proc : r = [proc[p] EXCEPT !.pending = <<>>]
  <2>1. <<>> \in Seq(Commands)
    OBVIOUS
  <2>2. [proc[p] EXCEPT !.pending = <<>>] \in Proc
    BY <1>1, <2>1 DEF Proc
  <2>3. QED
    BY <2>2, Zenon
<1>5. r.pc = proc[p].pc /\ r.fresh = proc[p].fresh
      /\ r.mem = proc[p].mem /\ r.pending = <<>>
  BY <1>1, <1>4 DEF Proc
<1>6. proc' = [proc EXCEPT ![p] = r]
  BY <1>4 DEF Commit, StartInv, StartType
<1>7. proc'[p] = r /\ \A q \in Procs : q # p => proc'[q] = proc[q]
  BY <1>6 DEF StartInv, StartType
<1>8. UNCHANGED <<lockFile, synced, holder, platform, lineages, moves, cut, losses>>
  BY DEF Commit
<1>9. /\ proc[p].mem \in Seq(Commands)
      /\ ToSet(proc[p].mem) = ToSet(journal.rows) \cup ToSet(proc[p].pending)
      /\ ToSet(proc[p].pending) \subseteq Commands /\ journal.cursor <= Len(proc[p].mem)
  <2>1. /\ journal.rows \o proc[p].pending \in Seq(Commands)
        /\ ToSet(journal.rows \o proc[p].pending)
              = ToSet(journal.rows) \cup ToSet(proc[p].pending)
    BY <1>3, ToSetConcat
  <2>2. ToSet(proc[p].pending) \subseteq Commands
    BY <1>3 DEF ToSet
  <2>3. Len(journal.rows \o proc[p].pending) = Len(journal.rows) + Len(proc[p].pending)
    BY <1>3
  <2>4. journal.cursor <= Len(journal.rows \o proc[p].pending)
    BY <1>1, <1>2, <1>3, <2>3 DEF Journal
  <2>5. QED
    BY <1>2, <2>1, <2>2, <2>4, Zenon
<1>10. /\ journal' \in Journal /\ journal'.made = journal.made
       /\ journal'.genesis = journal.genesis /\ journal'.cursor = journal.cursor
       /\ journal'.rows = proc[p].mem
  BY <1>1, <1>2, <1>9 DEF Commit, Journal
<1>11. acked' = acked \cup ToSet(proc[p].pending) /\ acked' \in SUBSET Commands
  BY <1>1, <1>9 DEF Commit
<1>12. LockInv' /\ holder' \in SUBSET Procs /\ proc' \in [Procs -> Proc]
  <2>1. LockMove(p, r)
    BY <1>5, <1>8 DEF LockMove, Locked
  <2>2. QED
    BY <1>6, <2>1, LockStep
<1>13. ProcessInv'
  <2>1. r.mem = journal'.rows \o r.pending
    BY <1>5, <1>9, <1>10, ConcatNothing
  <2>2. Knows(r)'
    BY <1>2, <1>5, <1>8, <1>9, <1>10, <2>1 DEF Knows, Serving, Ready, Loading
  <2>3. Locked(proc[p])
    BY <1>2 DEF Locked, Serving
  <2>4. QED
    BY <1>6, <1>8, <2>2, <2>3, ProcessStep
<1>14. StartType'
  BY <1>8, <1>10, <1>11, <1>12 DEF StartInv, StartType
<1>15. DirectoryInv'
  BY <1>2, <1>8, <1>9, <1>10, <1>11 DEF StartInv, DirectoryInv
<1>16. TraceInv'
  <2>1. ToSet(r.pending) = {}
    BY <1>3, <1>5, ConcatNothing
  <2>2. Recorded' = Recorded
    BY <1>8 DEF Recorded
  <2>3. ASSUME NEW q \in Procs PROVE ToSet(proc'[q].pending) \subseteq Recorded
    BY <1>7, <2>1 DEF StartInv, TraceInv
  <2>4. QED
    BY <1>2, <1>8, <1>9, <1>10, <1>11, <2>2, <2>3 DEF StartInv, TraceInv
<1>17. QED
  BY <1>12, <1>13, <1>14, <1>15, <1>16 DEF StartInv

\* The platform receives what the journal has, which is on its record.
LEMMA DeliverStep ==
    ASSUME StartInv, NEW p \in Procs, Deliver(p)
    PROVE  StartInv'
<1>1. proc[p] \in Proc /\ proc[p].pc = "running" /\ Knows(proc[p]) /\ journal \in Journal
      /\ platform \in Platform
  BY DEF StartInv, StartType, ProcessInv, Deliver, At
<1>2. journal.genesis # 0 /\ journal.rows \in Seq(Commands) /\ journal.cursor \in Nat
      /\ journal.cursor < Len(journal.rows)
  BY <1>1 DEF Knows, Ready, Journal, Deliver
<1>3. PICK c : c = journal.rows[journal.cursor + 1]
  OBVIOUS
<1>4. c \in ToSet(journal.rows) /\ c \in Commands
  BY <1>2, <1>3 DEF Deliver, ToSet
<1>5. /\ platform' \in Platform /\ platform'.orders = platform.orders
      /\ platform'.attempts = platform.attempts
      /\ platform'.withdrawals = platform.withdrawals
      /\ platform'.received = platform.received \cup {c}
  <2>1. platform' = [platform EXCEPT !.received = @ \cup {c}]
    BY <1>3 DEF Deliver
  <2>2. QED
    BY <1>1, <1>4, <2>1 DEF Platform
<1>6. UNCHANGED <<lockFile, synced, acked, lineages, moves, cut, losses>>
  BY DEF Deliver
<1>7. /\ journal' \in Journal /\ journal'.made = journal.made
      /\ journal'.genesis = journal.genesis
      /\ journal'.rows = journal.rows /\ journal'.cursor <= Len(journal.rows)
  <2>1. CASE UNCHANGED journal
    BY <1>1, <1>2, <2>1
  <2>2. CASE journal' = [journal EXCEPT !.cursor = @ + 1]
    BY <1>1, <1>2, <2>2 DEF Journal
  <2>3. QED
    BY <2>1, <2>2 DEF Deliver
<1>8. PICK r \in Proc : /\ proc' = [proc EXCEPT ![p] = r] /\ LockMove(p, r)
                        /\ r = proc[p] \/ r = Off
  <2>1. CASE UNCHANGED <<proc, holder>>
    <3>1. proc' = [proc EXCEPT ![p] = proc[p]]
      BY <2>1 DEF StartInv, StartType
    <3>2. QED
      BY <1>1, <2>1, <3>1 DEF LockMove
  <2>2. CASE Ends(p)
    <3>1. Off \in Proc
      BY DEF Off, Proc, Stage, Flag
    <3>2. QED
      BY <2>2, <3>1 DEF Ends, LockMove, Locked, Off
  <2>3. QED
    BY <2>1, <2>2 DEF Deliver
<1>9. proc'[p] = r /\ \A q \in Procs : q # p => proc'[q] = proc[q]
  BY <1>8 DEF StartInv, StartType
<1>10. LockInv' /\ holder' \in SUBSET Procs /\ proc' \in [Procs -> Proc]
  BY <1>8, LockStep
<1>11. ProcessInv'
  <2>1. CASE r = proc[p]
    BY <1>1, <1>6, <1>7, <1>8, <2>1, ProcessStep
    DEF Knows, Serving, Ready, Loading, Locked
  <2>2. CASE r = Off
    <3>1. r.pc = "off" /\ r.pending = <<>>
      BY <2>2 DEF Off
    <3>2. Knows(r)'
      BY <2>2, <3>1 DEF Knows, Serving, Ready, Loading
    <3>3. Locked(proc[p])
      BY <1>1 DEF Locked
    <3>4. QED
      BY <1>6, <1>8, <3>2, <3>3, ProcessStep
  <2>3. QED
    BY <1>8, <2>1, <2>2
<1>12. StartType'
  BY <1>5, <1>6, <1>7, <1>10 DEF StartInv, StartType
<1>13. DirectoryInv'
  BY <1>2, <1>6, <1>7 DEF StartInv, DirectoryInv
<1>14. TraceInv'
  <2>1. Recorded' = Recorded
    BY <1>5 DEF Recorded
  <2>2. ToSet(Off.pending) = {}
    BY DEF Off, ToSet
  <2>3. ASSUME NEW q \in Procs PROVE ToSet(proc'[q].pending) \subseteq Recorded
    BY <1>8, <1>9, <2>2 DEF StartInv, TraceInv
  <2>4. QED
    BY <1>2, <1>4, <1>5, <1>6, <1>7, <2>1, <2>3 DEF StartInv, TraceInv
<1>15. QED
  BY <1>10, <1>11, <1>12, <1>13, <1>14 DEF StartInv

\* The platform's records only grow.
LEMMA PlatformStep ==
    ASSUME StartInv, NEW c \in Commands, PlatformRecords(c)
    PROVE  StartInv'
<1>1. UNCHANGED <<lockFile, synced, journal, holder, proc, acked, lineages, moves, cut, losses>>
  BY DEF PlatformRecords, disk, history
<1>2. platform \in Platform
  BY DEF StartInv, StartType
<1>3. platform' \in Platform /\ platform'.received = platform.received /\ Recorded \subseteq Recorded'
  BY <1>2 DEF PlatformRecords, Platform, Recorded
<1>4. StartType' /\ LockInv' /\ ProcessInv'
  BY <1>1, <1>3
  DEF StartInv, StartType, LockInv, Locked, ProcessInv, Knows, Serving, Ready, Loading
<1>5. DirectoryInv'
  BY <1>1 DEF StartInv, DirectoryInv, LooksNew
<1>6. TraceInv'
  BY <1>1, <1>3 DEF StartInv, TraceInv
<1>7. QED
  BY <1>4, <1>5, <1>6 DEF StartInv

\* With every process down, only the directory and the platform matter.
LEMMA Down ==
    ASSUME proc' = [p \in Procs |-> Off], holder' = {}
    PROVE  /\ LockInv' /\ ProcessInv' /\ proc' \in [Procs -> Proc]
           /\ \A p \in Procs : proc'[p].fresh = FALSE /\ ToSet(proc'[p].pending) = {}
<1>1. Off \in Proc /\ Off.pc = "off" /\ Off.fresh = FALSE
      /\ Off.pending = <<>> /\ ToSet(Off.pending) = {}
  BY DEF Off, Proc, Stage, Flag, ToSet
<1>2. \A p \in Procs : proc'[p] = Off
  OBVIOUS
<1>3. LockInv'
  BY <1>1, <1>2 DEF LockInv, Locked
<1>4. ProcessInv'
  BY <1>1, <1>2 DEF ProcessInv, Knows, Serving, Ready, Loading
<1>5. QED
  BY <1>1, <1>2, <1>3, <1>4

\* The missing journal.
LEMMA EmptyJournal ==
    /\ NoJournal \in Journal /\ NoJournal.made = FALSE /\ NoJournal.genesis = 0
    /\ NoJournal.rows = <<>> /\ IsInjective(NoJournal.rows)
    /\ ToSet(NoJournal.rows) = {}
BY DEF NoJournal, Journal, Flag, IsInjective, ToSet

\* Names are lost only before the directory was flushed, and so before it
\* had an identifier.
LEMMA PowerStep ==
    ASSUME StartInv, PowerFailure
    PROVE  StartInv'
<1>1. /\ LockInv' /\ ProcessInv' /\ proc' \in [Procs -> Proc]
      /\ \A p \in Procs : proc'[p].fresh = FALSE /\ ToSet(proc'[p].pending) = {}
  BY Down DEF PowerFailure
<1>2. UNCHANGED <<synced, platform, acked, lineages, moves, cut, losses>> /\ holder' = {}
  BY DEF PowerFailure
<1>3. CASE synced /\ UNCHANGED <<lockFile, journal>>
  <2>1. StartType'
    BY <1>1, <1>2, <1>3 DEF StartInv, StartType
  <2>2. LooksNew' => LooksNew
    BY <1>1, <1>3 DEF LooksNew
  <2>3. DirectoryInv' /\ TraceInv'
    BY <1>1, <1>2, <1>3, <2>2 DEF StartInv, DirectoryInv, TraceInv, Recorded
  <2>4. QED
    BY <1>1, <2>1, <2>3 DEF StartInv
<1>4. CASE ~synced /\ journal' \in {journal, NoJournal}
  <2>1. /\ journal.genesis = 0 /\ lineages <= moves /\ journal.rows = <<>>
        /\ IsInjective(journal.rows) /\ journal \in Journal
        /\ ToSet(journal.rows) \subseteq Recorded
    BY <1>4 DEF StartInv, DirectoryInv, StartType, TraceInv
  <2>2. /\ journal'.genesis = 0 /\ journal'.rows = <<>>
        /\ IsInjective(journal'.rows) /\ journal' \in Journal
        /\ ToSet(journal'.rows) \subseteq Recorded
    BY <1>4, <2>1, EmptyJournal
  <2>3. StartType'
    BY <1>1, <1>2, <2>2 DEF StartInv, StartType
  <2>4. DirectoryInv'
    BY <1>2, <1>4, <2>1, <2>2 DEF StartInv, DirectoryInv
  <2>5. TraceInv'
    BY <1>1, <1>2, <2>1, <2>2 DEF StartInv, TraceInv, Recorded
  <2>6. QED
    BY <1>1, <2>3, <2>4, <2>5 DEF StartInv
<1>5. QED
  BY <1>3, <1>4 DEF PowerFailure

\* Nobody is up when something is lost.
LEMMA AllDownMeans ==
    ASSUME StartInv, AllDown
    PROVE  proc = [p \in Procs |-> Off] /\ holder = {}
BY DEF AllDown, At, StartInv, StartType, ProcessInv, Knows, LockInv, Locked

\* A directory whose journal is lost keeps its lock file and is refused; a
\* directory that is lost counts as another one.
LEMMA LossStep ==
    ASSUME StartInv, LoseJournal \/ LoseDirectory
    PROVE  StartInv'
<1>1. proc = [p \in Procs |-> Off] /\ holder = {}
  BY AllDownMeans DEF LoseJournal, LoseDirectory
<1>2. /\ UNCHANGED <<holder, proc, platform, acked, lineages, cut>>
      /\ journal' = NoJournal /\ losses' = losses + 1 /\ losses \in Nat
  BY DEF LoseJournal, LoseDirectory, StartInv, StartType
<1>3. /\ LockInv' /\ ProcessInv' /\ proc' \in [Procs -> Proc]
      /\ \A p \in Procs : proc'[p].fresh = FALSE /\ ToSet(proc'[p].pending) = {}
  BY <1>1, <1>2, Down
<1>4. moves' \in Nat /\ moves <= moves' /\ lineages \in Nat /\ moves \in Nat
  BY DEF LoseJournal, LoseDirectory, StartInv, StartType
<1>5. StartType'
  BY <1>2, <1>3, <1>4, EmptyJournal DEF StartInv, StartType
<1>6. DirectoryInv'
  <2>1. CASE LoseJournal
    <3>1. UNCHANGED <<lockFile, synced, moves>>
      BY <2>1 DEF LoseJournal
    <3>2. LooksNew' => ~lockFile
      BY <1>2, <1>3, <3>1, EmptyJournal DEF LooksNew
    <3>3. QED
      BY <1>2, <1>4, <3>1, <3>2, EmptyJournal DEF StartInv, DirectoryInv
  <2>2. CASE LoseDirectory
    BY <1>2, <1>4, <2>2, EmptyJournal DEF LoseDirectory, StartInv, DirectoryInv
  <2>3. QED
    BY <2>1, <2>2
<1>7. TraceInv'
  BY <1>2, <1>3, EmptyJournal DEF StartInv, TraceInv, Recorded
<1>8. QED
  BY <1>3, <1>5, <1>6, <1>7 DEF StartInv

\* A damaged record, while no process is up.
LEMMA DamageStep ==
    ASSUME StartInv, Damage
    PROVE  StartInv'
<1>1. proc = [p \in Procs |-> Off] /\ holder = {}
  BY AllDownMeans DEF Damage
<1>2. /\ UNCHANGED <<lockFile, synced, holder, proc, platform, acked, lineages, moves, cut>>
      /\ losses' = losses + 1 /\ losses \in Nat /\ journal \in Journal
  BY DEF Damage, StartInv, StartType
<1>3. /\ LockInv' /\ ProcessInv' /\ proc' \in [Procs -> Proc]
      /\ \A p \in Procs : proc'[p].fresh = FALSE /\ ToSet(proc'[p].pending) = {}
  BY <1>1, <1>2, Down
<1>4. /\ journal' \in Journal /\ journal'.made = journal.made
      /\ journal'.genesis = journal.genesis /\ journal'.cursor = journal.cursor
      /\ journal'.rows = journal.rows
  <2>1. PICK i \in Present : journal' = [journal EXCEPT !.bad = @ \cup {i}]
    BY DEF Damage
  <2>2. i \in Nat
    BY <1>2, <2>1 DEF Journal, Present
  <2>3. QED
    BY <1>2, <2>1, <2>2 DEF Journal
<1>5. StartType'
  BY <1>2, <1>3, <1>4 DEF StartInv, StartType
<1>6. LooksNew' => LooksNew
  BY <1>2, <1>4 DEF LooksNew
<1>7. DirectoryInv'
  BY <1>2, <1>4, <1>6 DEF StartInv, DirectoryInv
<1>8. TraceInv'
  BY <1>2, <1>3, <1>4 DEF StartInv, TraceInv, Recorded
<1>9. QED
  BY <1>3, <1>5, <1>7, <1>8 DEF StartInv

\* What a lost record leaves of the journal: its first records.
Shortened(last) ==
    /\ journal' \in Journal /\ journal'.made = journal.made
    /\ journal'.genesis = journal.genesis /\ journal'.cursor = journal.cursor
    /\ journal'.rows \in Seq(Commands) /\ Len(journal'.rows) = last
    /\ last <= Len(journal.rows) /\ \A k \in 1..last : journal'.rows[k] = journal.rows[k]
    /\ journal.rows # <<>> /\ cut \subseteq cut' /\ cut' \in SUBSET Commands
    /\ \A k \in 1..Len(journal.rows) :
          k > last /\ k > journal.cursor => journal.rows[k] \in cut'

\* The loss of one record shortens the journal to the last one that is left.
LEMMA RecordLost ==
    ASSUME StartInv, LoseRecord
    PROVE  \E last \in Nat : Shortened(last)
<1>1. journal \in Journal /\ cut \in SUBSET Commands
  BY DEF StartInv, StartType
<1>2. /\ journal.rows \in Seq(Commands) /\ journal.cursor \in Nat
      /\ journal.gone \in SUBSET Nat /\ journal.bad \in SUBSET Nat
  BY <1>1 DEF Journal
<1> DEFINE lost(n) == {journal.rows[k] : k \in {m \in DOMAIN journal.rows :
                                                  m > n /\ m > journal.cursor}}
<1>3. PICK i \in Present : \E last \in {0} \cup (Present \ {i}) :
        /\ journal' = [journal EXCEPT !.rows = SubSeq(@, 1, last),
                                      !.gone = (@ \cup {i}) \cap 1..last,
                                      !.bad = (@ \ {i}) \cap 1..last]
        /\ cut' = cut \cup lost(last)
  BY DEF LoseRecord
<1>3a. PICK last \in {0} \cup (Present \ {i}) :
        /\ journal' = [journal EXCEPT !.rows = SubSeq(@, 1, last),
                                      !.gone = (@ \cup {i}) \cap 1..last,
                                      !.bad = (@ \ {i}) \cap 1..last]
        /\ cut' = cut \cup lost(last)
  BY <1>3
<1>4. i \in 1..Len(journal.rows) /\ last \in Nat /\ last <= Len(journal.rows)
  BY <1>2, <1>3a DEF Present
<1>5. ASSUME NEW s \in Seq(Commands), NEW n \in Nat, n <= Len(s)
      PROVE  /\ SubSeq(s, 1, n) \in Seq(Commands) /\ Len(SubSeq(s, 1, n)) = n
             /\ \A k \in 1..n : SubSeq(s, 1, n)[k] = s[k]
  BY <1>5
<1>6. /\ SubSeq(journal.rows, 1, last) \in Seq(Commands)
      /\ Len(SubSeq(journal.rows, 1, last)) = last
      /\ \A k \in 1..last : SubSeq(journal.rows, 1, last)[k] = journal.rows[k]
  BY <1>2, <1>4, <1>5, Zenon
<1>7. PICK t : t = SubSeq(journal.rows, 1, last)
  OBVIOUS
<1>8. /\ journal' \in Journal /\ journal'.made = journal.made
      /\ journal'.genesis = journal.genesis /\ journal'.cursor = journal.cursor
      /\ journal'.rows = t
  <2>0. 1..last \subseteq Nat
    BY <1>4
  <2>1. PICK g \in SUBSET Nat : g = (journal.gone \cup {i}) \cap 1..last
    BY <2>0, Zenon
  <2>2. PICK b \in SUBSET Nat : b = (journal.bad \ {i}) \cap 1..last
    BY <2>0, Zenon
  <2>3. journal' = [journal EXCEPT !.rows = t, !.gone = g, !.bad = b]
    BY <1>3a, <1>7, <2>1, <2>2, Zenon
  <2>4. t \in Seq(Commands)
    BY <1>6, <1>7, Zenon
  <2>5. QED
    BY <1>1, <2>3, <2>4 DEF Journal
<1>9. /\ lost(last) \subseteq Commands
      /\ \A k \in 1..Len(journal.rows) :
            k > last /\ k > journal.cursor => journal.rows[k] \in lost(last)
  BY <1>2
<1>10. cut \subseteq cut' /\ cut' \in SUBSET Commands
       /\ \A k \in 1..Len(journal.rows) :
             k > last /\ k > journal.cursor => journal.rows[k] \in cut'
  <2> HIDE DEF lost
  <2>1. QED
    BY <1>1, <1>3a, <1>9, Zenon
<1>11. journal.rows # <<>>
  BY <1>2, <1>4
<1>12. /\ journal'.rows \in Seq(Commands) /\ Len(journal'.rows) = last
       /\ \A k \in 1..last : journal'.rows[k] = journal.rows[k]
  BY <1>6, <1>7, <1>8, Zenon
<1>13. Shortened(last)
  BY <1>4, <1>8, <1>10, <1>11, <1>12, Zenon DEF Shortened
<1>14. QED
  BY <1>4, <1>13

\* A record that is gone, while no process is up: the journal keeps a prefix,
\* and what is gone after it was delivered, so that no start accepts the
\* rest, or is in cut.
LEMMA LoseRecordStep ==
    ASSUME StartInv, LoseRecord
    PROVE  StartInv'
<1>1. proc = [p \in Procs |-> Off] /\ holder = {}
  BY AllDownMeans DEF LoseRecord
<1>2. /\ UNCHANGED <<lockFile, synced, holder, proc, platform, acked, lineages, moves>>
      /\ losses' = losses + 1 /\ losses \in Nat /\ journal \in Journal
      /\ cut \in SUBSET Commands
  BY DEF LoseRecord, StartInv, StartType
<1>3. /\ LockInv' /\ ProcessInv' /\ proc' \in [Procs -> Proc]
      /\ \A p \in Procs : proc'[p].fresh = FALSE /\ ToSet(proc'[p].pending) = {}
  BY <1>1, <1>2, Down
<1>4. PICK last \in Nat : Shortened(last)
  BY RecordLost
<1>5. /\ journal' \in Journal /\ journal'.made = journal.made
      /\ journal'.genesis = journal.genesis /\ journal'.cursor = journal.cursor
      /\ journal'.rows \in Seq(Commands) /\ Len(journal'.rows) = last
      /\ last <= Len(journal.rows) /\ \A k \in 1..last : journal'.rows[k] = journal.rows[k]
      /\ journal.rows # <<>> /\ cut \subseteq cut' /\ cut' \in SUBSET Commands
      /\ \A k \in 1..Len(journal.rows) :
            k > last /\ k > journal.cursor => journal.rows[k] \in cut'
  BY <1>4 DEF Shortened
<1>6. journal.rows \in Seq(Commands) /\ journal.cursor \in Nat
  BY <1>2 DEF Journal
<1>7. ToSet(journal'.rows) \subseteq ToSet(journal.rows)
  BY <1>4, <1>5, <1>6 DEF ToSet
<1>8. IsInjective(journal'.rows)
  <2>1. IsInjective(journal.rows)
    BY DEF StartInv, DirectoryInv
  <2>2. DOMAIN journal'.rows = 1..last /\ DOMAIN journal.rows = 1..Len(journal.rows)
    BY <1>5, <1>6
  <2>3. 1..last \subseteq 1..Len(journal.rows)
    BY <1>4, <1>5, <1>6
  <2>4. QED
    BY <1>5, <2>1, <2>2, <2>3, Zenon DEF IsInjective
<1>9. journal.genesis # 0 /\ journal.made
      /\ (journal.cursor <= Len(journal.rows) => acked \ cut \subseteq ToSet(journal.rows))
  BY <1>5 DEF StartInv, DirectoryInv
<1>10. ASSUME journal'.cursor <= Len(journal'.rows), NEW c \in acked \ cut'
       PROVE  c \in ToSet(journal'.rows)
  <2>1. journal.cursor <= last /\ journal.cursor <= Len(journal.rows)
    BY <1>4, <1>5, <1>6, <1>10
  <2>2. c \in ToSet(journal.rows)
    BY <1>5, <1>9, <1>10, <2>1
  <2>3. PICK k \in 1..Len(journal.rows) : c = journal.rows[k]
    BY <1>6, <2>2 DEF ToSet
  <2>4. ~(k > last)
    <3>1. k > last => k > journal.cursor
      BY <1>4, <1>6, <2>1
    <3>2. QED
      BY <1>5, <1>10, <2>3, <3>1
  <2>5. k \in 1..last
    BY <1>4, <2>4
  <2>6. QED
    BY <1>5, <2>3, <2>5 DEF ToSet
<1>11. StartType'
  BY <1>2, <1>3, <1>5 DEF StartInv, StartType
<1>12. LooksNew' => LooksNew
  BY <1>2, <1>5 DEF LooksNew
<1>13. DirectoryInv'
  <2>1. journal'.genesis # 0 /\ journal'.made
        /\ (journal'.cursor <= Len(journal'.rows) => acked' \ cut' \subseteq ToSet(journal'.rows))
    BY <1>2, <1>5, <1>9, <1>10
  <2>2. QED
    BY <1>2, <1>5, <1>8, <1>12, <2>1 DEF StartInv, DirectoryInv
<1>14. TraceInv'
  BY <1>2, <1>3, <1>5, <1>7 DEF StartInv, TraceInv, Recorded
<1>15. QED
  BY <1>3, <1>11, <1>13, <1>14 DEF StartInv

-----------------------------------------------------------------------------
(* The invariant and what it gives.                                         *)

\* StartInv holds at the start.
LEMMA StartInit == Init => StartInv
<1> SUFFICES ASSUME Init PROVE StartInv
  OBVIOUS
<1>1. Off \in Proc /\ Off.pc = "off" /\ Off.fresh = FALSE
      /\ Off.pending = <<>> /\ ToSet(Off.pending) = {}
  BY DEF Off, Proc, Stage, Flag, ToSet
<1>2. \A p \in Procs : proc[p] = Off
  BY DEF Init
<1>3. StartType
  BY <1>1, EmptyJournal DEF Init, StartType, Platform
<1>4. LockInv /\ ProcessInv
  BY <1>1, <1>2
  DEF Init, LockInv, Locked, ProcessInv, Knows, Serving, Ready, Loading
<1>5. DirectoryInv
  BY EmptyJournal DEF Init, DirectoryInv
<1>6. TraceInv
  BY <1>1, <1>2, EmptyJournal DEF Init, TraceInv, Recorded
<1>7. QED
  BY <1>3, <1>4, <1>5, <1>6 DEF StartInv

\* Every step keeps StartInv.
LEMMA StartStep == StartInv /\ [Next]_vars => StartInv'
<1> SUFFICES ASSUME StartInv, [Next]_vars PROVE StartInv'
  OBVIOUS
<1>1. CASE UNCHANGED vars
  BY <1>1
  DEF vars, disk, history, StartInv, StartType, LockInv, Locked, ProcessInv, Knows, Serving,
      Ready, Loading, DirectoryInv, LooksNew, TraceInv, Recorded
<1>2. ASSUME NEW p \in Procs, Starting(p) PROVE StartInv'
  BY <1>2, LookStep, OpenLockStep, FlockStep, CheckStep, CreateStep, SchemaStep, LoadStep,
     InitializeStep, RecoverStep DEF Starting
<1>3. ASSUME NEW p \in Procs,
             Commit(p) \/ Deliver(p) \/ Halt(p) \/ Stopped(p) \/ Crash(p)
      PROVE  StartInv'
  BY <1>3, CommitStep, DeliverStep, HaltStep, EndingStep
<1>4. ASSUME NEW p \in Procs, NEW c \in Commands, Execute(p, c) PROVE StartInv'
  BY <1>4, ExecuteStep
<1>5. ASSUME NEW c \in Commands, PlatformRecords(c) PROVE StartInv'
  BY <1>5, PlatformStep
<1>6. CASE PowerFailure \/ LoseJournal \/ LoseDirectory \/ Damage \/ LoseRecord
  BY <1>6, PowerStep, LossStep, DamageStep, LoseRecordStep
<1>7. QED
  BY <1>1, <1>2, <1>3, <1>4, <1>5, <1>6 DEF Next

\* A serving engine knows, once, everything that was ever answered, for any
\* number of processes, crashes, losses and commands: acquire, the refusals
\* of start and load_balances, and recover leave no way to forget, except
\* for records that vanish from the journal's end before their delivery.
THEOREM NothingIsForgotten == Spec => []NothingAnsweredIsForgotten
<1>1. StartInv => NothingAnsweredIsForgotten
  <2>1. SUFFICES ASSUME StartInv, NEW p \in Up
                 PROVE  acked \ cut \subseteq ToSet(proc[p].mem) /\ IsInjective(proc[p].mem)
    BY DEF NothingAnsweredIsForgotten
  <2>2. p \in Procs /\ proc[p].pc = "running"
    BY <2>1 DEF Up, At
  <2>3. proc[p] \in Proc /\ journal \in Journal /\ Knows(proc[p])
    BY <2>1, <2>2 DEF StartInv, StartType, ProcessInv
  <2>4. proc[p].pending \in Seq(Commands) /\ journal.rows \in Seq(Commands)
    BY <2>3 DEF Proc, Journal
  <2>5. /\ proc[p].mem = journal.rows \o proc[p].pending /\ IsInjective(proc[p].mem)
        /\ journal.genesis # 0 /\ journal.cursor <= Len(journal.rows)
    BY <2>2, <2>3 DEF Knows, Serving, Ready
  <2>6. acked \ cut \subseteq ToSet(journal.rows)
    BY <2>1, <2>5 DEF StartInv, DirectoryInv
  <2>7. ToSet(journal.rows \o proc[p].pending) = ToSet(journal.rows) \cup ToSet(proc[p].pending)
    BY <2>4, ToSetConcat
  <2>8. QED
    BY <2>5, <2>6, <2>7, Zenon
<1>2. QED
  BY <1>1, StartInit, StartStep, PTL DEF Spec

\* One directory gets one engine identifier, whatever crashes and competes.
THEOREM OneIdentifierPerDirectory == Spec => []OneLineage
<1>1. StartInv => OneLineage
  BY DEF StartInv, DirectoryInv, OneLineage
<1>2. QED
  BY <1>1, StartInit, StartStep, PTL DEF Spec

\* A directory that every start refuses has never served a command, unless
\* something was lost.
THEOREM RefusedDirectoryIsEmpty == Spec => []RefusedHasServedNobody
<1>1. StartInv => RefusedHasServedNobody
  BY DEF StartInv, DirectoryInv, TraceInv, RefusedHasServedNobody, RefusesForGood
<1>2. QED
  BY <1>1, StartInit, StartStep, PTL DEF Spec

-----------------------------------------------------------------------------
(* The audit.                                                               *)

Event == [engine : Nat, cmd : Commands]
Walk  == [engine : Nat, through : Nat, after : Nat, events : Seq(Event)]

\* The walk is a prefix of the journal it began in, as long as that journal
\* is there and its cursor is not ahead; the identifier tells, because no
\* later journal gets it again.
SameJournal == walk.engine # 0 /\ walk.engine = journal.genesis
Sound       == journal.cursor <= Len(journal.rows)
Copied(i)   == \/ walk.events[i].cmd \in cut
               \/ i <= Len(journal.rows) /\ walk.events[i].cmd = journal.rows[i]
WalkInv ==
    /\ walk \in Walk /\ walk.engine <= lineages
    /\ walk.engine = 0 => walk = NewWalk
    /\ Len(walk.events) = walk.after /\ walk.after <= walk.through
    /\ \A i \in 1..walk.after : walk.events[i].engine = walk.engine
    /\ SameJournal /\ Sound => \A i \in 1..walk.after : Copied(i)

\* What a step may do to the journal: keep it up to undelivered records at
\* its end and add to it, make it unacceptable, lose it, or give it an
\* identifier that no journal had before.
Kept(i) == \/ i <= Len(journal'.rows) /\ journal'.rows[i] = journal.rows[i]
           \/ journal.rows[i] \in cut'
Keeps ==
    /\ journal'.genesis = journal.genesis
    /\ Sound' => Sound /\ \A i \in 1..Len(journal.rows) : Kept(i)
JournalMove ==
    /\ lineages <= lineages' /\ cut \subseteq cut'
    /\ Keeps \/ journal'.genesis = 0 \/ journal'.genesis > lineages

\* The journal grows, disappears or starts over.
LEMMA JournalStep == StartInv /\ [Next]_vars => JournalMove
<1> SUFFICES ASSUME StartInv, [Next]_vars PROVE JournalMove
  OBVIOUS
<1>1. journal \in Journal /\ journal.rows \in Seq(Commands) /\ journal.cursor \in Nat
      /\ lineages \in Nat
  BY DEF StartInv, StartType, Journal
<1>2. ASSUME journal'.genesis = journal.genesis, journal'.rows = journal.rows,
             journal'.cursor = journal.cursor, UNCHANGED <<lineages, cut>>
      PROVE  JournalMove
  BY <1>1, <1>2 DEF JournalMove, Keeps, Kept, Sound
<1>3. ASSUME NEW p \in Procs, Create(p) PROVE JournalMove
  <2>1. /\ journal'.genesis = journal.genesis /\ journal'.rows = journal.rows
        /\ journal'.cursor = journal.cursor /\ UNCHANGED <<lineages, cut>>
    BY <1>1, <1>3 DEF Create, Journal, history
  <2>2. QED
    BY <1>2, <2>1
<1>4. ASSUME NEW p \in Procs, Initialize(p) PROVE JournalMove
  <2>1. journal'.genesis = lineages + 1 /\ lineages' = lineages + 1 /\ cut' = cut
    BY <1>1, <1>4 DEF Initialize, Journal
  <2>2. QED
    BY <1>1, <2>1 DEF JournalMove
<1>5. ASSUME NEW p \in Procs, Commit(p) PROVE JournalMove
  <2>1. proc[p].pending \in Seq(Commands) /\ Sound
    BY <1>5 DEF StartInv, StartType, Proc, ProcessInv, Commit, Knows, Sound
  <2>2. /\ journal'.genesis = journal.genesis /\ UNCHANGED <<lineages, cut>>
        /\ journal'.rows = journal.rows \o proc[p].pending
    BY <1>1, <1>5 DEF Commit, Journal
  <2>3. ASSUME NEW s \in Seq(Commands), NEW t \in Seq(Commands)
        PROVE  \A i \in 1..Len(s) : i <= Len(s \o t) /\ (s \o t)[i] = s[i]
    OBVIOUS
  <2>4. \A i \in 1..Len(journal.rows) : Kept(i)
    BY <1>1, <2>1, <2>2, <2>3, Zenon DEF Kept
  <2>5. Keeps
    BY <2>1, <2>2, <2>4, Zenon DEF Keeps
  <2>6. QED
    BY <1>1, <2>2, <2>5 DEF JournalMove
<1>6. ASSUME NEW p \in Procs, Deliver(p) PROVE JournalMove
  <2>1. /\ journal'.genesis = journal.genesis /\ journal'.rows = journal.rows
        /\ UNCHANGED <<lineages, cut>> /\ Sound
    BY <1>1, <1>6 DEF Deliver, Journal, Sound
  <2>2. QED
    BY <1>1, <2>1 DEF JournalMove, Keeps, Kept
<1>7. CASE LoseJournal \/ LoseDirectory
  BY <1>1, <1>7, EmptyJournal DEF LoseJournal, LoseDirectory, JournalMove
<1>8. CASE PowerFailure
  <2>1. UNCHANGED <<lineages, cut>> /\ (UNCHANGED journal \/ journal' = NoJournal)
    BY <1>8 DEF PowerFailure
  <2>2. CASE journal' = NoJournal
    BY <1>1, <2>1, <2>2, EmptyJournal DEF JournalMove
  <2>3. QED
    BY <1>2, <2>1, <2>2
<1>9. CASE Damage
  <2>1. /\ journal'.genesis = journal.genesis /\ journal'.rows = journal.rows
        /\ journal'.cursor = journal.cursor /\ UNCHANGED <<lineages, cut>>
    BY <1>1, <1>9 DEF Damage, Journal
  <2>2. QED
    BY <1>2, <2>1
<1>10. CASE LoseRecord
  <2>1. PICK last \in Nat : Shortened(last)
    BY <1>10, RecordLost
  <2>2. /\ journal'.genesis = journal.genesis /\ journal'.cursor = journal.cursor
        /\ Len(journal'.rows) = last /\ last <= Len(journal.rows) /\ cut \subseteq cut'
        /\ \A k \in 1..last : journal'.rows[k] = journal.rows[k]
        /\ \A k \in 1..Len(journal.rows) :
              k > last /\ k > journal.cursor => journal.rows[k] \in cut'
    BY <2>1 DEF Shortened
  <2>3. ASSUME Sound' PROVE Sound /\ \A k \in 1..Len(journal.rows) : Kept(k)
    <3>1. journal.cursor <= last
      BY <2>2, <2>3 DEF Sound
    <3>2. Sound
      BY <1>1, <2>1, <2>2, <3>1 DEF Sound
    <3>3. ASSUME NEW k \in 1..Len(journal.rows) PROVE Kept(k)
      <4>1. CASE k \in 1..last
        BY <2>1, <2>2, <4>1 DEF Kept
      <4>2. CASE k > last
        BY <1>1, <2>1, <2>2, <3>1, <4>2 DEF Kept
      <4>3. QED
        BY <2>1, <4>1, <4>2
    <3>4. QED
      BY <3>2, <3>3
  <2>4. lineages' = lineages
    BY <1>10 DEF LoseRecord
  <2>5. QED
    BY <1>1, <2>2, <2>3, <2>4 DEF JournalMove, Keeps
<1>11. ASSUME NEW p \in Procs,
              \/ Look(p) \/ OpenLock(p) \/ Flock(p) \/ Check(p) \/ Schema(p)
              \/ LoadBalances(p) \/ Recover(p) \/ Halt(p) \/ Stopped(p) \/ Crash(p)
       PROVE  UNCHANGED <<journal, lineages, cut>>
  BY <1>11
  DEF Look, OpenLock, Flock, Check, Schema, LoadBalances, Recover, Halt, Stopped, Crash, disk,
      history
<1>12. ASSUME NEW p \in Procs, NEW c \in Commands, Execute(p, c)
       PROVE  UNCHANGED <<journal, lineages, cut>>
  BY <1>12 DEF Execute, disk, history
<1>13. ASSUME NEW c \in Commands, PlatformRecords(c) PROVE UNCHANGED <<journal, lineages, cut>>
  BY <1>13 DEF PlatformRecords, disk, history
<1>14. CASE UNCHANGED <<journal, lineages, cut>>
  BY <1>2, <1>14
<1>15. CASE UNCHANGED vars
  BY <1>14, <1>15 DEF vars, disk, history
<1>16. QED
  BY <1>3, <1>4, <1>5, <1>6, <1>7, <1>8, <1>9, <1>10, <1>11, <1>12, <1>13, <1>14, <1>15
  DEF Next, Starting

\* The engine moves, the auditor does not.
LEMMA WalkStays ==
    ASSUME StartInv, StartInv', WalkInv, JournalMove, UNCHANGED walk
    PROVE  WalkInv'
<1>1. /\ lineages \in Nat /\ lineages' \in Nat /\ walk \in Walk /\ walk.engine \in Nat
      /\ walk.after \in Nat /\ journal.rows \in Seq(Commands) /\ cut \subseteq cut'
  BY DEF StartInv, StartType, WalkInv, Walk, Journal, JournalMove
<1>2. walk.engine <= lineages'
  BY <1>1 DEF WalkInv, JournalMove
<1>3. ASSUME SameJournal' PROVE Keeps /\ SameJournal
  BY <1>1, <1>3 DEF SameJournal, JournalMove, Keeps, WalkInv
<1>4. ASSUME SameJournal', Sound', NEW i \in 1..walk.after
      PROVE  \/ walk.events[i].cmd \in cut'
             \/ i <= Len(journal'.rows) /\ walk.events[i].cmd = journal'.rows[i]
  <2>1. Keeps /\ SameJournal
    BY <1>3, <1>4
  <2>2. Sound /\ \A k \in 1..Len(journal.rows) : Kept(k)
    BY <1>4, <2>1 DEF Keeps
  <2>3. Copied(i)
    BY <1>4, <2>1, <2>2 DEF WalkInv
  <2>4. CASE walk.events[i].cmd \in cut
    BY <1>1, <2>4
  <2>5. CASE i <= Len(journal.rows) /\ walk.events[i].cmd = journal.rows[i]
    <3>1. i \in 1..Len(journal.rows)
      BY <1>1, <2>5
    <3>2. Kept(i)
      BY <2>2, <3>1
    <3>3. QED
      BY <2>5, <3>2 DEF Kept
  <2>6. QED
    BY <2>3, <2>4, <2>5 DEF Copied
<1>5. QED
  BY <1>2, <1>4 DEF WalkInv, Copied, SameJournal, Sound

\* A page continues the walk where it stopped.
LEMMA PageStep ==
    ASSUME StartInv, WalkInv, NEW p \in Procs, NEW limit \in 1..MaxLimit, Page(p, limit)
    PROVE  WalkInv'
<1> DEFINE hi == IF walk.after + limit < Through THEN walk.after + limit ELSE Through
<1>1. /\ journal.rows \in Seq(Commands) /\ journal.genesis \in Nat /\ lineages \in Nat
      /\ journal.genesis <= lineages
  BY DEF StartInv, StartType, Journal, DirectoryInv
<1>2. /\ walk.engine \in Nat /\ walk.after \in Nat /\ walk.through \in Nat
      /\ walk.events \in Seq(Event) /\ Len(walk.events) = walk.after
  BY DEF WalkInv, Walk
<1>3. /\ journal.genesis # 0 /\ walk.engine \in {0, journal.genesis}
      /\ walk.after <= Through /\ Through <= Len(journal.rows)
  BY DEF Page, Answerable
<1>4. Through \in Nat
  BY <1>1, <1>2 DEF Through
<1>5. hi \in Nat /\ walk.after <= hi /\ hi <= Through /\ hi <= Len(journal.rows)
  BY <1>2, <1>3, <1>4, <1>1
<1>6. /\ PageRows(limit) \in Seq(Commands) /\ Len(PageRows(limit)) = hi - walk.after
      /\ \A k \in 1..(hi - walk.after) : PageRows(limit)[k] = journal.rows[walk.after + k]
  <2>1. PageRows(limit) = SubSeq(journal.rows, walk.after + 1, hi)
    BY DEF PageRows
  <2> HIDE DEF hi
  <2>2. ASSUME NEW s \in Seq(Commands), NEW a \in Nat, NEW b \in Nat, a <= b, b <= Len(s)
        PROVE  /\ SubSeq(s, a + 1, b) \in Seq(Commands) /\ Len(SubSeq(s, a + 1, b)) = b - a
               /\ \A k \in 1..(b - a) : SubSeq(s, a + 1, b)[k] = s[a + k]
    BY <2>2
  <2>3. /\ SubSeq(journal.rows, walk.after + 1, hi) \in Seq(Commands)
        /\ Len(SubSeq(journal.rows, walk.after + 1, hi)) = hi - walk.after
        /\ \A k \in 1..(hi - walk.after) :
              SubSeq(journal.rows, walk.after + 1, hi)[k] = journal.rows[walk.after + k]
    <3>1. journal.rows \in Seq(Commands) /\ walk.after \in Nat /\ hi \in Nat
          /\ walk.after <= hi /\ hi <= Len(journal.rows)
      BY <1>1, <1>2, <1>5, Zenon
    <3>2. QED
      BY <2>2, <3>1, Zenon
  <2>4. QED
    BY <2>1, <2>3, Zenon
<1>7. NextAfter(limit) = hi
  <2> HIDE DEF hi
  <2>1. QED
    BY <1>2, <1>5, <1>6 DEF NextAfter
<1> DEFINE new == [k \in DOMAIN PageRows(limit) |->
                     [engine |-> journal.genesis, cmd |-> PageRows(limit)[k]]]
<1> HIDE DEF hi
<1>8. /\ new \in Seq(Event) /\ Len(new) = hi - walk.after
      /\ \A k \in 1..(hi - walk.after) :
            new[k].engine = journal.genesis /\ new[k].cmd = journal.rows[walk.after + k]
  <2>1. hi - walk.after \in Nat /\ DOMAIN PageRows(limit) = 1..(hi - walk.after)
    BY <1>2, <1>5, <1>6
  <2>2. \A k \in 1..(hi - walk.after) : PageRows(limit)[k] \in Commands
    BY <1>6, <2>1
  <2>3. new \in [1..(hi - walk.after) -> Event]
    BY <1>1, <2>1, <2>2 DEF Event
  <2>4. \A k \in 1..(hi - walk.after) :
            new[k].engine = journal.genesis /\ new[k].cmd = PageRows(limit)[k]
    BY <2>1
  <2> HIDE DEF new
  <2>5. new \in Seq(Event) /\ Len(new) = hi - walk.after
    BY <2>1, <2>3
  <2>6. QED
    BY <1>6, <2>4, <2>5
<1>9. walk' = [engine |-> journal.genesis, through |-> Through, after |-> hi,
               events |-> walk.events \o new]
  BY <1>7 DEF Page
<1> HIDE DEF new
<1>10. /\ walk.events \o new \in Seq(Event) /\ Len(walk.events \o new) = hi
       /\ \A i \in 1..walk.after : (walk.events \o new)[i] = walk.events[i]
       /\ \A i \in 1..hi : i > walk.after => (walk.events \o new)[i] = new[i - walk.after]
  <2>1. walk.after + (hi - walk.after) = hi
    BY <1>2, <1>5
  <2>2. ASSUME NEW s \in Seq(Event), NEW t \in Seq(Event)
        PROVE  /\ s \o t \in Seq(Event) /\ Len(s \o t) = Len(s) + Len(t)
               /\ \A i \in 1..Len(s) : (s \o t)[i] = s[i]
               /\ \A i \in 1..(Len(s) + Len(t)) : i > Len(s) => (s \o t)[i] = t[i - Len(s)]
    OBVIOUS
  <2>3. walk.events \in Seq(Event) /\ new \in Seq(Event)
        /\ Len(walk.events) = walk.after /\ Len(new) = hi - walk.after
    BY <1>2, <1>8, Zenon
  <2>4. /\ walk.events \o new \in Seq(Event)
        /\ Len(walk.events \o new) = Len(walk.events) + Len(new)
        /\ \A i \in 1..Len(walk.events) : (walk.events \o new)[i] = walk.events[i]
        /\ \A i \in 1..(Len(walk.events) + Len(new)) :
              i > Len(walk.events) => (walk.events \o new)[i] = new[i - Len(walk.events)]
    BY <2>2, <2>3, Zenon
  <2>5. QED
    BY <2>1, <2>3, <2>4, Zenon
<1>11. ASSUME NEW i \in 1..hi
       PROVE  /\ (walk.events \o new)[i].engine = journal.genesis
              /\ \/ (walk.events \o new)[i].cmd \in cut
                 \/ i <= Len(journal.rows) /\ (walk.events \o new)[i].cmd = journal.rows[i]
  <2>1. CASE i \in 1..walk.after
    <3>1. walk.engine # 0
      BY <1>2, <2>1 DEF WalkInv, NewWalk
    <3>2. SameJournal /\ Sound
      BY <1>3, <3>1 DEF SameJournal, Page, At, StartInv, ProcessInv, Knows, Serving, Sound
    <3>3. walk.events[i].engine = journal.genesis /\ Copied(i)
      BY <2>1, <3>2 DEF WalkInv, SameJournal
    <3>4. QED
      BY <1>10, <2>1, <3>3 DEF Copied
  <2>2. CASE i > walk.after
    <3>1. i - walk.after \in 1..(hi - walk.after) /\ walk.after + (i - walk.after) = i
      BY <1>2, <1>5, <2>2
    <3>2. /\ new[i - walk.after].engine = journal.genesis
          /\ new[i - walk.after].cmd = journal.rows[i]
      BY <1>8, <3>1
    <3>3. i <= Len(journal.rows)
      BY <1>1, <1>2, <1>5
    <3>4. QED
      BY <1>10, <2>2, <3>2, <3>3
  <2>3. i \in 1..walk.after \/ i > walk.after
    BY <1>2, <1>5
  <2>4. QED
    BY <2>1, <2>2, <2>3, Zenon
<1>12. /\ walk'.engine = journal.genesis /\ walk'.through = Through /\ walk'.after = hi
       /\ walk'.events = walk.events \o new
  BY <1>9
<1>13. walk' \in Walk
  BY <1>1, <1>4, <1>5, <1>9, <1>10 DEF Walk
<1>14. UNCHANGED <<journal, lineages, cut>>
  BY DEF Page, vars, disk, history
<1>15. QED
  BY <1>1, <1>3, <1>5, <1>10, <1>11, <1>12, <1>13, <1>14 DEF WalkInv, SameJournal, Copied

\* A new walk has nothing yet.
LEMMA NewWalkInv ==
    NewWalk \in Walk /\ NewWalk.engine = 0 /\ NewWalk.through = 0 /\ NewWalk.after = 0
    /\ NewWalk.events = <<>> /\ Len(NewWalk.events) = 0
BY DEF NewWalk, Walk

\* The auditor's copy is the journal of one engine, each record once and in
\* order, however the pages and the engine's steps interleave and whatever
\* is started, stopped or lost between two pages.
THEOREM AuditCopiesTheJournal == AuditSpec => []AuditIsComplete
<1>1. AuditInit => StartInv /\ WalkInv
  BY StartInit, NewWalkInv DEF AuditInit, Init, WalkInv, SameJournal
<1>2. StartInv /\ WalkInv /\ [AuditNext]_auditVars => StartInv' /\ WalkInv'
  <2> SUFFICES ASSUME StartInv, WalkInv, [AuditNext]_auditVars PROVE StartInv' /\ WalkInv'
    OBVIOUS
  <2>1. [Next]_vars
    BY DEF AuditNext, auditVars, Page, Again
  <2>2. StartInv' /\ JournalMove
    BY <2>1, StartStep, JournalStep
  <2>3. lineages' \in Nat
    BY <2>2 DEF StartInv, StartType
  <2>4. CASE UNCHANGED walk
    BY <2>2, <2>4, WalkStays
  <2>5. ASSUME NEW p \in Procs, NEW limit \in 1..MaxLimit, Page(p, limit) PROVE WalkInv'
    BY <2>5, PageStep
  <2>6. CASE Again
    <3>1. walk' = NewWalk
      BY <2>6 DEF Again
    <3>2. walk' \in Walk /\ walk'.engine = 0 /\ walk'.through = 0 /\ walk'.after = 0
          /\ Len(walk'.events) = 0
      BY <3>1, NewWalkInv, Zenon
    <3>3. walk'.engine <= lineages' /\ walk'.after <= walk'.through
          /\ \A i \in 1..walk'.after : walk'.events[i].engine = walk'.engine
      BY <2>3, <3>2
    <3>4. ~SameJournal'
      BY <3>2 DEF SameJournal
    <3>5. Len(walk'.events) = walk'.after
      BY <3>2
    <3>6. QED
      BY <2>2, <3>1, <3>2, <3>3, <3>4, <3>5 DEF WalkInv
  <2>7. QED
    BY <2>2, <2>4, <2>5, <2>6 DEF AuditNext, auditVars
<1>3. StartInv /\ WalkInv => AuditIsComplete
  <2> SUFFICES ASSUME StartInv, WalkInv PROVE AuditIsComplete
    OBVIOUS
  <2>1. walk.events \in Seq(Event) /\ walk.engine \in Nat
    BY DEF WalkInv, Walk
  <2>2. DOMAIN walk.events = 1..walk.after
    BY <2>1 DEF WalkInv
  <2>4. ASSUME NEW i \in 1..walk.after, walk.engine = journal.genesis, Whole
        PROVE  \/ walk.events[i].cmd \in cut
               \/ i \in DOMAIN journal.rows /\ walk.events[i].cmd = journal.rows[i]
    <3>1. SameJournal /\ Sound /\ journal.rows \in Seq(Commands)
      BY <2>4 DEF SameJournal, Whole, Sound, StartInv, StartType, Journal
    <3>2. Copied(i)
      BY <3>1 DEF WalkInv
    <3>3. QED
      BY <2>1, <3>1, <3>2 DEF Copied, WalkInv
  <2>5. QED
    BY <2>1, <2>2, <2>4 DEF AuditIsComplete, WalkInv
<1>4. QED
  BY <1>1, <1>2, <1>3, PTL DEF AuditSpec
===============================================================================
