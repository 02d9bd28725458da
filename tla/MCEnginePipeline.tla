--------------------------- MODULE MCEnginePipeline ---------------------------
(* Small instances of EnginePipeline and of its refinement for TLC. *)
EXTENDS EngineRefinement

CONSTANTS o1, b1, q1

\* The order gives a trade event and a snapshot, the balance command one event.
MCEvents == [r \in Commands |-> IF r = o1 THEN 2 ELSE 1]
===============================================================================
