------------------------------ MODULE MCStartup -------------------------------
(* Two processes on one directory, one command of each kind.                 *)
EXTENDS Startup
CONSTANTS p1, p2, order, credit, payout
===============================================================================
