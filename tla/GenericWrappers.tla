--------------------------- MODULE GenericWrappers ---------------------------
(***************************************************************************)
(* The wrappers of bind/genfunc.hpp and bind/function_tools.hpp: each is a *)
(* function of an asIScriptGeneric that fetches the arguments of a C++     *)
(* function and calls it.  An operator here gives what the C++ function    *)
(* receives: f and the arguments are as in CallConventions, var is the set *)
(* of script positions, from 0, that the registration names in var_type.   *)
(***************************************************************************)
EXTENDS CallConventions, FiniteSets

\* `count' arguments, the first of them at index `from' (from 0)
get_generic_args(args, from, count) ==
  [i \in 1..count |-> ArgOf(args, from + i)]

get_generic_typeinfo(args) == ArgOf(args, 1)

\* the pointer to the component is read at an offset from the object
comp_accessor(object) == IF object = Obj THEN Comp ELSE Unread

\* Mutant: the auxiliary object is not `this'.
get_generic_thisMutant(conv) == Obj

get_generic_this(conv) == IF conv = "THISCALL_ASGLOBAL" THEN Aux ELSE Obj

(***************************************************************************)
(* Functions, lambdas and methods.                                         *)
(***************************************************************************)

\* the object, the auxiliary and the other arguments in the order of conv
Arranged(conv, this, others) ==
  CASE conv \in {"THISCALL", "THISCALL_ASGLOBAL", "CDECL_OBJFIRST"} -> <<this>> \o others
    [] conv = "CDECL_OBJLAST"     -> others \o <<this>>
    [] conv = "THISCALL_OBJFIRST" -> <<Aux, this>> \o others
    [] conv = "THISCALL_OBJLAST"  -> <<Aux>> \o others \o <<this>>
    [] conv = "CDECL"             -> others

\* the number of parameters that are not the object
OtherCount(conv, f, args) ==
  LET raw == Len(ParamTypes(f, args))
  IN  IF conv \in {"THISCALL", "THISCALL_ASGLOBAL", "CDECL"} THEN raw ELSE raw - 1

generic_wrapper_nontype(conv, f, args) ==
  Arranged(conv, get_generic_this(conv),
           get_generic_args(args, 0, OtherCount(conv, f, args)))

\* the script position (from 0) of each raw parameter, a `?' taking two
gen_script_arg_idx(count, var) ==
  FlattenSeq([i \in 1..(count - Cardinality(var)) |->
                IF i - 1 \in var THEN <<i - 1, i - 1>> ELSE <<i - 1>>])

\* is the raw parameter (from 0) a type id?
var_type_tag(var, raw) == raw \in {v + 1 : v \in var}

\* Mutant: a type id is fetched at the raw position.
VarTypeArgsMutant(types, var, args) ==
  LET idx == gen_script_arg_idx(Len(types), var)
  IN  [j \in DOMAIN idx |->
         CASE ~var_type_tag(var, j - 1) -> ArgOf(args, idx[j] + 1)
           [] var_type_tag(var, j - 1) /\ types[j] = "void" -> Refused
           [] OTHER -> TypeId(j)]

\* an int is not converted to the void* of an address
VarTypeArgs(types, var, args) ==
  LET idx == gen_script_arg_idx(Len(types), var)
  IN  [j \in DOMAIN idx |->
         CASE ~var_type_tag(var, j - 1) -> ArgOf(args, idx[j] + 1)
           [] var_type_tag(var, j - 1) /\ types[j] = "void" -> Refused
           [] OTHER -> TypeId(idx[j] + 1)]

\* Variant of generic_wrapper_nontype for var_type: the types are those of the
\* parameters that are not the object
var_type_wrapper(conv, args, var) ==
  Arranged(conv, get_generic_this(conv), VarTypeArgs(ArgTypes(args), var, args))

generic_wrapper_composite(args, var) ==
  <<comp_accessor(Obj)>> \o
  (IF var = {} THEN get_generic_args(args, 0, Len(ArgTypes(args)))
               ELSE VarTypeArgs(ArgTypes(args), var, args))

(***************************************************************************)
(* Constructors and factories.                                             *)
(***************************************************************************)

\* Mutant: the arguments after the type information are fetched from the start.
WithTypeInfoMutant(template, args, count) ==
  IF template THEN <<get_generic_typeinfo(args)>> \o get_generic_args(args, 0, count - 1)
              ELSE get_generic_args(args, 0, count)

\* for a template the type information comes first, and the rest after it
WithTypeInfo(template, args, count) ==
  IF template THEN <<get_generic_typeinfo(args)>> \o get_generic_args(args, 1, count - 1)
              ELSE get_generic_args(args, 0, count)

generic_wrapper_ctor_func(template, conv, f, args) ==
  LET others == WithTypeInfo(template, args, Len(ParamTypes(f, args)) - 1)
  IN  IF conv = "CDECL_OBJFIRST" THEN <<Obj>> \o others ELSE others \o <<Obj>>

generic_wrapper_ctor_lambda(template, conv, f, args) ==
  generic_wrapper_ctor_func(template, conv, f, args)

\* takes two parameters, and reads the list from the first argument; the other
\* order names a function that does not exist
generic_wrapper_list_ctor(conv, f, args) ==
  CASE Len(ParamTypes(f, args)) # 2 -> <<Refused>>
    [] Len(ParamTypes(f, args)) = 2 /\ conv = "CDECL_OBJFIRST" -> <<Obj, ArgOf(args, 1)>>
    [] OTHER -> <<Refused>>

generic_wrapper_factory_aux(template, conv, f, args) ==
  LET raw == Len(ParamTypes(f, args))
      others(n) == WithTypeInfo(template, args, n)
  IN  CASE conv = "THISCALL_ASGLOBAL" -> <<Aux>> \o others(raw)
        [] conv = "CDECL_OBJFIRST"    -> <<Aux>> \o others(raw - 1)
        [] conv = "CDECL_OBJLAST"     -> others(raw - 1) \o <<Aux>>

list_factory_func(template, conv, args) ==
  LET given == IF template THEN <<get_generic_typeinfo(args), ArgOf(args, 2)>>
                           ELSE <<ArgOf(args, 1)>>
  IN  IF conv = "CDECL_OBJLAST" THEN given \o <<Aux>> ELSE <<Aux>> \o given

(***************************************************************************)
(* Functions that are given another result (map_ret) or that return the    *)
(* value to construct (as_ctor_fn).                                        *)
(***************************************************************************)

\* the parameters of a free function are fetched as arguments, its object too
map_ret_wrapper_generic(f, args) ==
  LET raw == Len(ParamTypes(f, args))
  IN  IF f.member THEN <<Obj>> \o get_generic_args(args, 0, raw)
                  ELSE get_generic_args(args, 0, raw)

\* the memory, and the arguments of the function that returns the value
ctor_fn_wrapper_generic(args) ==
  <<Obj>> \o get_generic_args(args, 0, Len(ArgTypes(args)))

=============================================================================
