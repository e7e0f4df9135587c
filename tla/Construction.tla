---------------------------- MODULE Construction ----------------------------
(***************************************************************************)
(* The functions that bind/class.hpp generates to create objects for       *)
(* scripts: constructors of value types, factories of reference types, and *)
(* the list forms of both.  Each is given as the sequence of its steps,    *)
(* and the registration as the convention and the auxiliary pointer that   *)
(* come with it.  A class is of C++; whether its destructor is trivial or  *)
(* its elements are many (C arrays) changes nothing but the guard's name.  *)
(***************************************************************************)
EXTENDS Naturals, Sequences

ValueKinds ==
  {"constructor", "array_constructor", "array_copy", "list_constructor", "ctor_fn"}
HandleKinds == {"factory", "list_factory"}

\* A registered way to create an object; notify is policies::notify_gc, and
\* ctor_fn is fn_tools::as_ctor_fn.
Creations ==
  {g \in [kind : ValueKinds \cup HandleKinds, notify : BOOLEAN, template : BOOLEAN] :
     /\ g.kind \in ValueKinds => ~g.notify
     /\ g.kind \in {"array_constructor", "array_copy", "ctor_fn"} => ~g.template}

(***************************************************************************)
(* Registration: the convention and the auxiliary pointer.                 *)
(***************************************************************************)

\* Mutant: no registration has an auxiliary pointer.
aux_for_policyMutant(g) == "null"

\* A class that is no template has no hidden argument for its type information.
aux_for_policy(g) == IF g.notify /\ ~g.template THEN "typeinfo" ELSE "null"

\* the constructors that are generated, the default and the copy constructor
register_constructor(g, generic) ==
  [conv |-> IF generic THEN "GENERIC" ELSE "CDECL_OBJLAST", aux |-> "null"]

ctor_fn_wrapper_helper(g, generic) ==
  [conv |-> IF generic THEN "GENERIC" ELSE "CDECL_OBJFIRST", aux |-> "null"]

list_constructor_registration(g, generic) ==
  [conv |-> IF generic THEN "GENERIC" ELSE "CDECL_OBJLAST", aux |-> "null"]

register_factory(g, generic) ==
  CASE generic -> [conv |-> "GENERIC", aux |-> aux_for_policy(g)]
    [] ~generic /\ g.notify /\ ~g.template ->
         [conv |-> "CDECL_OBJLAST", aux |-> aux_for_policy(g)]
    [] OTHER -> [conv |-> "CDECL", aux |-> "null"]

list_factory(g, generic) ==
  CASE generic -> [conv |-> "GENERIC", aux |-> aux_for_policy(g)]
    [] ~generic /\ g.notify /\ ~g.template ->
         [conv |-> "CDECL_OBJLAST", aux |-> aux_for_policy(g)]
    [] OTHER -> [conv |-> "CDECL", aux |-> "null"]

Registration(g, generic) ==
  CASE g.kind = "factory"          -> register_factory(g, generic)
    [] g.kind = "list_factory"     -> list_factory(g, generic)
    [] g.kind = "list_constructor" -> list_constructor_registration(g, generic)
    [] g.kind = "ctor_fn"          -> ctor_fn_wrapper_helper(g, generic)
    [] OTHER                       -> register_constructor(g, generic)

\* The type information that the generated function sees: a template's is a
\* hidden argument, another class has it in the auxiliary pointer or not at all.
TypeInfoOf(g, generic) ==
  IF g.template THEN "typeinfo" ELSE Registration(g, generic).aux

(***************************************************************************)
(* The generated functions.                                                *)
(***************************************************************************)
\* Mutant: the constructed object is not destroyed.
constructorMutant == <<"new">>

constructor == <<"new", "destroy_if_ex">>

array_constructor == <<"new", "destroy_if_ex">>

arr_copy_constructor == <<"new", "destroy_if_ex">>

\* no guard, whatever the policy for the list
list_constructor == <<"new">>

\* nor for the value that a function returns
ctor_fn_wrapper == <<"new">>

factory == <<"new">>

\* Mutant: the collector is told first.
factory_notify_gcMutant == <<"new", "notify_gc", "delete_if_ex">>

factory_notify_gc == <<"new", "delete_if_ex", "notify_gc">>

list_factory_default == <<"new">>

\* no guard, but the collector knows the object
list_factory_notify_gc == <<"new", "notify_gc_if_necessary">>

Steps(g) ==
  CASE g.kind = "constructor"       -> constructor
    [] g.kind = "array_constructor" -> array_constructor
    [] g.kind = "array_copy"        -> arr_copy_constructor
    [] g.kind = "list_constructor"  -> list_constructor
    [] g.kind = "ctor_fn"           -> ctor_fn_wrapper
    [] g.kind = "factory"           -> IF g.notify THEN factory_notify_gc ELSE factory
    [] g.kind = "list_factory"      -> IF g.notify THEN list_factory_notify_gc
                                                   ELSE list_factory_default

\* The factories of templates look at the flag of the instance at run time,
\* because the template callback may have removed it.  (Without type information
\* they are not defined.)
notify_gc(g, ti, gc) == ti # "null" /\ (g.template => gc)

\* Mutant: the flag of the instance is not looked at.
notify_gc_if_necessaryMutant(g, ti, gc) == ti # "null"

\* Without type information nobody is told.
notify_gc_if_necessary(g, ti, gc) == ti # "null" /\ (g.template => gc)

=============================================================================
