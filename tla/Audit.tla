--------------------------------- MODULE Audit --------------------------------
(***************************************************************************)
(* The read-only audit over HTTP (audit.rs), composed with Startup: an     *)
(* auditor walks through the journal page by page while the engine         *)
(* executes, stops, crashes and is started again between two pages.  The   *)
(* first page fixes the engine identifier and the end of the walk, later   *)
(* requests repeat both.  A page is read in one SQLite transaction, so it  *)
(* is one step; the semaphore only limits how many are read at a time.     *)
(***************************************************************************)
EXTENDS Startup

CONSTANTS
    MaxLimit,    \* records of a page (100)
    PageBytes    \* events a page can carry (4 MiB)

ASSUME AuditBounds == MaxLimit \in Nat \ {0} /\ PageBytes \in Nat \ {0}

VARIABLES
    walk    \* [engine, through, after, events]; engine 0 before the first page

auditVars == <<vars, walk>>

NewWalk == [engine |-> 0, through |-> 0, after |-> 0, events |-> <<>>]

\* The end of the walk: as asked, or the last record on the first page.
Through == IF walk.engine = 0 THEN Len(journal.rows) ELSE walk.through

\* SELECT ... WHERE sequence > after AND sequence <= through LIMIT.
PageRows(limit) ==
    SubSeq(journal.rows, walk.after + 1,
           IF walk.after + limit < Through THEN walk.after + limit ELSE Through)

\* Mutation of NextAfter: a page that the limit cut short counts as the last.
NextAfterThrough(limit) == Through

\* next_after: the last record of the page.
NextAfter(limit) == walk.after + Len(PageRows(limit))

\* Every ensure! of read, and the limits page checks before it.
Answerable(limit) ==
    /\ journal.genesis # 0 /\ walk.engine \in {0, journal.genesis}
    /\ walk.after <= Through /\ Through <= Len(journal.rows)
    /\ (journal.bad \cup journal.gone) \cap ((walk.after + 1)..NextAfter(limit)) = {}
    /\ Len(PageRows(limit)) <= PageBytes

\* A page that is served; a refused one changes nothing and may be asked for
\* again, with another limit.
Page(p, limit) ==
    /\ At(p, "running") /\ Answerable(limit)
    /\ walk' = [engine |-> journal.genesis, through |-> Through, after |-> NextAfter(limit),
                events |-> walk.events \o [k \in DOMAIN PageRows(limit) |->
                                             [engine |-> journal.genesis,
                                              cmd |-> PageRows(limit)[k]]]]
    /\ UNCHANGED vars

\* The auditor begins a new walk.
Again ==
    /\ walk.engine # 0 /\ walk.after = walk.through
    /\ walk' = NewWalk /\ UNCHANGED vars

AuditInit == Init /\ walk = NewWalk

AuditNext ==
    \/ Next /\ UNCHANGED walk
    \/ \E p \in Procs, limit \in 1..MaxLimit : Page(p, limit)
    \/ Again

AuditSpec ==
    /\ AuditInit /\ [][AuditNext]_auditVars
    /\ \A p \in Procs : /\ WF_auditVars(Starting(p) /\ UNCHANGED walk)
                        /\ WF_auditVars(Commit(p) /\ UNCHANGED walk)
                        /\ WF_auditVars(Stopped(p) /\ UNCHANGED walk)

-----------------------------------------------------------------------------
\* What the auditor has is the journal of one engine from its first record
\* to the place it has reached, each record once and in order, although
\* records are added and processes change between the pages.  As long as the
\* engine accepts that journal, the two differ at most in records that
\* vanished from its undelivered end.
AuditIsComplete ==
    /\ Len(walk.events) = walk.after /\ walk.after <= walk.through
    /\ \A i \in DOMAIN walk.events :
          /\ walk.events[i].engine = walk.engine
          /\ walk.engine = journal.genesis /\ Whole =>
                \/ walk.events[i].cmd \in cut
                \/ i \in DOMAIN journal.rows /\ walk.events[i].cmd = journal.rows[i]
===============================================================================
