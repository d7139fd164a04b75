----------------------------- MODULE MCPipeline -----------------------------
(***************************************************************************)
(* Small deployments of the pipeline for TLC.                              *)
(***************************************************************************)
EXTENDS Pipeline, TLC

CONSTANTS p1, p2, w1, w2

OneProcess == [x \in Workers \cup Operators |-> p1]

TwoProcesses == [x \in Workers \cup Operators |-> IF x = w2 THEN p2 ELSE p1]

\* Slots of one process are interchangeable.
SlotSymmetry == Permutations(Workers)
=============================================================================
