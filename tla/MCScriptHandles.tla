--------------------------- MODULE MCScriptHandles ---------------------------
(* Small instances of ScriptHandles for TLC.                                *)
EXTENDS ScriptHandles, TLC

MCSymmetry == Permutations(Slots) \cup Permutations(Objects)

(* One class each, for the two operations that miscount.                    *)
MCTypeinfo == {"typeinfo"}

MCEngine == {"engine"}
=============================================================================
