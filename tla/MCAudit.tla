------------------------------- MODULE MCAudit --------------------------------
(* One auditor of an engine with one command of each kind: the journal grows  *)
(* inside an unfinished walk, and a page of three records is too large.       *)
EXTENDS Audit
CONSTANTS p1, order, credit, payout
===============================================================================
