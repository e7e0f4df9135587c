------------------------------- MODULE MCThreads -------------------------------
(***************************************************************************)
(* Instances of Threads for TLC.                                           *)
(***************************************************************************)
EXTENDS Threads
=============================================================================
