---------------------------- MODULE MCObjectVector ----------------------------
(* Small instances of ObjectVector for TLC.                                 *)
EXTENDS ObjectVector, TLC

MCSymmetry == Permutations(Vecs) \cup Permutations(Objects)

(* The outcome of the last call decides nothing about the next one, and no  *)
(* property says anything once the counters are wrong.                      *)
MCView == IF flaw = "none" THEN <<kind, vec, rc, ext>> ELSE <<flaw>>
=============================================================================
