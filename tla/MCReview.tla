------------------------------ MODULE MCReview ------------------------------
(***************************************************************************)
(* A small review desk for TLC.                                            *)
(***************************************************************************)
EXTENDS Review, TLC

\* Advertisements are interchangeable, and so are people.
ReviewSymmetry == Permutations(Adverts) \cup Permutations(People)
=============================================================================
