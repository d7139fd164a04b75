---------------------------- MODULE MCWorkQueue ----------------------------
(***************************************************************************)
(* Small deployments of the work queue for TLC: every worker and every     *)
(* request in one process, or one worker per process.                      *)
(***************************************************************************)
EXTENDS WorkQueue, TLC

CONSTANTS p1, p2, w1, w2

OneProcess == [x \in Workers \cup Operators |-> p1]

TwoProcesses == [x \in Workers \cup Operators |-> IF x = w2 THEN p2 ELSE p1]

\* Rows are interchangeable, and so are requests: all are made to one process.
QueueSymmetry == Permutations(Items) \cup Permutations(Operators)
=============================================================================
