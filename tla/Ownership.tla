------------------------------ MODULE Ownership ------------------------------
(***************************************************************************)
(* What the smart pointers of asbind20 promise, without counters: a helper *)
(* that names an object keeps it alive, and an object is alive exactly     *)
(* while a helper or the application refers to it.  ScriptHandles, which   *)
(* has the AddRef and Release calls, implements this module.               *)
(***************************************************************************)
EXTENDS Naturals

CONSTANTS
    Slots,      \* storage for helpers: variables, members, temporaries
    Objects,    \* identities of reference-counted AngelScript objects
    Null,       \* the null handle
    Absent      \* no helper lives in this storage

VARIABLES
    h,          \* what each slot holds
    ext,        \* references the application manages by hand
    alive       \* the objects that exist

vars == <<h, ext, alive>>

Held(o) == ext[o] > 0 \/ \E s \in Slots : h[s] = o

Referenced == { o \in Objects : Held(o) }

Init == /\ h = [s \in Slots |-> Absent]
        /\ ext = [o \in Objects |-> 0]
        /\ alive = {}

(***************************************************************************)
(* References move, multiply or disappear.  None of them can be to an      *)
(* object that is gone, and what nothing refers to any more is destroyed   *)
(* in the same step.                                                       *)
(***************************************************************************)
Share == /\ h' \in [Slots -> Objects \cup {Null, Absent}]
         /\ ext' \in [Objects -> Nat]
         /\ alive' = Referenced'
         /\ alive' \subseteq alive

(* An object is created for the application or inside a new helper.         *)
Create(o) == /\ o \notin alive
             /\ alive' = alive \cup {o}
             /\ \/ /\ ext' = [ext EXCEPT ![o] = 1]
                   /\ h' = h
                \/ /\ ext' = ext
                   /\ \E s \in Slots : /\ h[s] = Absent
                                        /\ h' = [h EXCEPT ![s] = o]

Next == Share \/ \E o \in Objects : Create(o)

Spec == Init /\ [][Next]_vars
=============================================================================
