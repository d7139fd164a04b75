---------------------------- MODULE MCIngestion ----------------------------
(***************************************************************************)
(* Small upload traffic for TLC.                                           *)
(***************************************************************************)
EXTENDS Ingestion, TLC

\* Requests are interchangeable, and so are images.
IngestionSymmetry == Permutations(Requests) \cup Permutations(Digests)
=============================================================================
