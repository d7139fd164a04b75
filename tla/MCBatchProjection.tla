-------------------------- MODULE MCBatchProjection --------------------------
(***************************************************************************)
(* A batch of two items and two overlapping transactions, for TLC.         *)
(***************************************************************************)
EXTENDS BatchProjection, TLC

\* Sessions are interchangeable, and so are the items of a batch.
BatchSymmetry == Permutations(Sessions) \cup Permutations(Items)
=============================================================================
