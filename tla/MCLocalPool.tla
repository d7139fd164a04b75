---------------------------- MODULE MCLocalPool ----------------------------
(***************************************************************************)
(* A pool of one or two slots for TLC.                                     *)
(***************************************************************************)
EXTENDS LocalPool, TLC
=============================================================================
