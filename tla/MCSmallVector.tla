---------------------------- MODULE MCSmallVector ----------------------------
(* Small instances of SmallVector for TLC.                                  *)
EXTENDS SmallVector, TLC

MCSymmetry == Permutations(Vecs) \cup Permutations(Blocks)

(* Two states that differ in the last call only have the same future; every *)
(* step is still checked against the action properties.  Of a vector whose  *)
(* elements were read from freed memory only the shape is told apart.       *)
Sound(v) == Live(v) /\ vec[v].size <= vec[v].cap

Seen(v) == IF Sound(v) /\ Spoilt(v)
           THEN [buf |-> vec[v].buf, size |-> vec[v].size, cap |-> vec[v].cap,
                 cells |-> "spoilt"]
           ELSE vec[v]

MCView == <<[v \in Vecs |-> Seen(v)], heap>>
=============================================================================
