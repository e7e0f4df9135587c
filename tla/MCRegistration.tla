---------------------------- MODULE MCRegistration ----------------------------
(* A small instance of Registration for TLC.                                *)
EXTENDS Registration, TLC

MCSymmetry == Permutations(Masks)
=============================================================================
