-------------------------------- MODULE Scopes --------------------------------
(***************************************************************************)
(* What the guards namespace_ and access_mask promise: registration has a  *)
(* lexical environment.  A guard opens an environment inside the current   *)
(* one and changes one thing of it; when it is destroyed, alone or with    *)
(* others by an exception, the environment around it is there again.       *)
(* Registration, which keeps one namespace and one mask in the engine and  *)
(* a previous value in each guard, implements this module.                 *)
(***************************************************************************)
EXTENDS Naturals, Sequences

CONSTANTS
    Namespaces,
    Masks

Environments == [ns : Namespaces, mask : Masks]

VARIABLE envs       \* the environments that are open, the current one last

Init == \E e \in Environments : envs = <<e>>

(* One environment more, which differs from the one around it in a          *)
(* namespace or a mask at most.                                             *)
Open(old, new) ==
    /\ Len(new) = Len(old) + 1
    /\ SubSeq(new, 1, Len(old)) = old
    /\ new[Len(new)] \in Environments
    /\ \/ new[Len(new)].ns = old[Len(old)].ns
       \/ new[Len(new)].mask = old[Len(old)].mask

(* The environments that are left are as they were.                         *)
Leave(old, new) == /\ Len(new) \in 1..Len(old)
                   /\ new = SubSeq(old, 1, Len(new))

Next == \E old \in {envs}, new \in {envs'} : Open(old, new) \/ Leave(old, new)

Spec == Init /\ [][Next]_envs
=============================================================================
