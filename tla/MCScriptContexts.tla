--------------------------- MODULE MCScriptContexts ---------------------------
(* Small instances of ScriptContexts for TLC.                               *)
EXTENDS ScriptContexts, TLC

MCSymmetry == Permutations(Threads) \cup Permutations(Contexts)
=============================================================================
