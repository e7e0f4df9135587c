--------------------------- MODULE CallConventions ---------------------------
(***************************************************************************)
(* How a call of AngelScript reaches a C++ function: the convention that   *)
(* bind/common.hpp deduces from the function's parameters, the arguments   *)
(* that AngelScript passes natively under a convention, and the arguments  *)
(* that the wrappers of bind/genfunc.hpp fetch when the function is called *)
(* through an asIScriptGeneric instead.                                    *)
(*                                                                         *)
(* A C++ function is [member, end, obj]: whether it is a member function,  *)
(* at which end its parameters have the object ("none" for functions that  *)
(* get none), and whether that one is a T* or T& ("T") or a void* ("void").*)
(* The arguments of a call are a sequence over ArgKinds; what the function *)
(* receives is a sequence of tokens, `this' first.                         *)
(***************************************************************************)
EXTENDS Naturals, SequencesExt

\* an ordinary value, a reference to the class itself, `?', the hidden type
\* information of a template, the buffer of an initialisation list
ArgKinds == {"val", "same", "any", "ti", "list"}

Obj == <<"obj", 0>>       \* the object of the call
Aux == <<"aux", 0>>       \* the auxiliary object of the registration
Comp == <<"comp", 0>>     \* the component that the object points to
Arg(k) == <<"arg", k>>    \* the k-th argument: its value or its address
TypeId(k) == <<"id", k>>  \* the type id of the k-th argument
Unread == <<"none", 0>>   \* beyond the arguments of the call
Refused == <<"refused", 0>>  \* an expression that does not compile

ArgOf(args, k) == IF k \in DOMAIN args THEN Arg(k) ELSE Unread

(***************************************************************************)
(* The parameters of the function, as its author wrote them.               *)
(***************************************************************************)

\* what AngelScript passes for the arguments; `?' is an address and a type id
PassedArgs(args) ==
  FlattenSeq([k \in DOMAIN args |->
                IF args[k] = "any" THEN <<Arg(k), TypeId(k)>> ELSE <<Arg(k)>>])

ArgTypes(args) ==
  FlattenSeq([k \in DOMAIN args |->
                CASE args[k] = "any"  -> <<"void", "int">>
                  [] args[k] = "list" -> <<"void">>
                  [] args[k] = "same" -> <<"T">>
                  [] args[k] = "ti"   -> <<"ti">>
                  [] args[k] = "val"  -> <<"int">>])

AtEnd(end, x, seq) ==
  CASE end = "first" -> <<x>> \o seq
    [] end = "last"  -> seq \o <<x>>
    [] end = "none"  -> seq

\* the types of all parameters, `this' excluded
ParamTypes(f, args) == AtEnd(f.end, f.obj, ArgTypes(args))

(***************************************************************************)
(* Deduction.                                                              *)
(***************************************************************************)

conv_of_loc(loc, thiscall) ==
  IF thiscall THEN (IF loc = "first" THEN "THISCALL_OBJFIRST" ELSE "THISCALL_OBJLAST")
              ELSE (IF loc = "first" THEN "CDECL_OBJFIRST" ELSE "CDECL_OBJLAST")

is_this_arg(type, class, tryVoid) == type = class \/ (tryVoid /\ type = "void")

cdecl_method_callconv(count, objFirst) ==
  IF objFirst /\ count # 1 THEN "CDECL_OBJFIRST" ELSE "CDECL_OBJLAST"

\* The convention by the types at both ends, "ill-formed" when no parameter
\* can be the object (a static_assert).
CdeclByEnds(types, class, tryVoid) ==
  LET fits(void) == {e \in {1, Len(types)} :
                       types # <<>> /\ is_this_arg(types[e], class, void)}
      by(void) == cdecl_method_callconv(Len(types), 1 \in fits(void))
  IN  CASE fits(FALSE) # {} -> by(FALSE)
        [] fits(FALSE) = {} /\ tryVoid /\ fits(TRUE) # {} -> by(TRUE)
        [] OTHER -> "ill-formed"

deduce_method_callconv(f, args, tryVoid) ==
  IF f.member THEN "THISCALL"
              ELSE CdeclByEnds(ParamTypes(f, args), "T", tryVoid)

\* a member function of the auxiliary object that gets the object as well
deduce_method_callconv_aux(f, args) ==
  LET types == ParamTypes(f, args)
      fits == {e \in {1, Len(types)} : types # <<>> /\ types[e] = "T"}
  IN  CASE ~f.member \/ fits = {} -> "ill-formed"
        [] f.member /\ 1 \in fits /\ Len(types) # 1 -> "THISCALL_OBJFIRST"
        [] OTHER -> "THISCALL_OBJLAST"

\* asCALL_STDCALL differs from asCALL_CDECL on few platforms only
deduce_function_callconv(f) == IF f.member THEN "ill-formed" ELSE "CDECL"

AsGlobal == {"template_callback", "factory_function", "list_factory_function"}

deduce_beh_callconv(family, f, args) ==
  IF family \in AsGlobal
  THEN deduce_function_callconv(f)
  ELSE deduce_method_callconv(f, args,
         family \in {"constructor_function", "list_constructor_function"})

deduce_beh_callconv_aux(family, f, args) ==
  CASE family \in AsGlobal /\ f.member -> "THISCALL_ASGLOBAL"
    [] family = "template_callback" /\ ~f.member -> deduce_function_callconv(f)
    [] family \in AsGlobal \ {"template_callback"} /\ ~f.member ->
         CdeclByEnds(ParamTypes(f, args), "A", FALSE)
    [] OTHER -> deduce_method_callconv_aux(f, args)

(***************************************************************************)
(* What a native function receives from AngelScript (external).  A factory *)
(* has no object: AngelScript passes its auxiliary in place of it.         *)
(***************************************************************************)
NativeArgs(conv, family, args) ==
  LET passed == PassedArgs(args)
      object == IF family \in AsGlobal THEN Aux ELSE Obj
  IN  CASE conv = "CDECL"             -> passed
        [] conv = "THISCALL"          -> <<Obj>> \o passed
        [] conv = "THISCALL_COMP"     -> <<Comp>> \o passed
        [] conv = "THISCALL_ASGLOBAL" -> <<Aux>> \o passed
        [] conv = "CDECL_OBJFIRST"    -> <<object>> \o passed
        [] conv = "CDECL_OBJLAST"     -> passed \o <<object>>
        [] conv = "THISCALL_OBJFIRST" -> <<Aux, Obj>> \o passed
        [] conv = "THISCALL_OBJLAST"  -> <<Aux>> \o passed \o <<Obj>>

=============================================================================
