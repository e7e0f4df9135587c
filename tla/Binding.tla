------------------------------- MODULE Binding -------------------------------
(***************************************************************************)
(* The registration of a C++ function with the generators of bind/, and a  *)
(* call of it by a script.  A registration is a call of one of many        *)
(* overloads; an overload registers the function with AngelScript, or      *)
(* calls another overload.  The same registration is compiled twice: by a  *)
(* generator that may use native conventions, and by one that must not     *)
(* (ForceGeneric), for platforms on which AngelScript has none.            *)
(***************************************************************************)
EXTENDS GenericWrappers, TLC

CONSTANT MaxArgs    \* bound on the arguments of a function

ASSUME MaxArgsIsNat == MaxArgs \in Nat

Builds == {"native", "portable"}
ForceGeneric(b) == b = "portable"

Families ==
  {"method", "behaviour", "template_callback", "constructor_function",
   "destructor_function", "list_constructor_function", "factory_function",
   "list_factory_function", "function"}

Forms ==
  {"raw",      \* a function pointer known at run time
   "fp",       \* fp<&f>
   "lambda",   \* a lambda without captures
   "gfn",      \* a function of an asIScriptGeneric*
   "wrapped"}  \* fn_tools::map_ret, fn_tools::as_ctor_fn

VARIABLES
  template,   \* is the class a template?
  fn, args,   \* the C++ function and the arguments of its script declaration
  want,       \* the call that the application makes
  at,         \* per build: the overload that is being called
  stage,      \* per build: "calling", "registered", "called" or "refused"
  reg,        \* per build: what AngelScript was given
  got         \* per build: what the C++ function received from the script

vars == <<template, fn, args, want, at, stage, reg, got>>

request == <<template, fn, args, want>>

\* families whose scripts pass the hidden type information of a template
TakesTypeInfo ==
  {"template_callback", "constructor_function", "list_constructor_function",
   "factory_function", "list_factory_function"}

\* the arguments AngelScript passes
EngineArgs == (IF template THEN <<"ti">> ELSE <<>>) \o args

(***************************************************************************)
(* What an overload may do: nothing when there is none for the call or its *)
(* body does not compile, else call another one or register.               *)
(***************************************************************************)
CallOverload(c) == {[do |-> "call", call |-> c]}

NoReg == [conv |-> "none", wrapper |-> "none", orig |-> "none",
          explicit |-> FALSE, aux |-> FALSE, var |-> {}]

\* register_method, register_behaviour, register_function
RegisterNative(c, conv) ==
  IF conv = "ill-formed" THEN {}
  ELSE {[do |-> "register",
         reg |-> [conv |-> conv, wrapper |-> "none", orig |-> conv,
                  explicit |-> c.explicit, aux |-> c.aux, var |-> {}]]}

\* What the C++ function receives through a wrapper.
ThroughWrapper(r) ==
  CASE r.wrapper = "nontype" /\ r.var = {} -> generic_wrapper_nontype(r.orig, fn, EngineArgs)
    [] r.wrapper = "nontype" /\ r.var # {} -> var_type_wrapper(r.orig, EngineArgs, r.var)
    [] r.wrapper = "composite" -> generic_wrapper_composite(EngineArgs, r.var)
    [] r.wrapper = "ctor_func" -> generic_wrapper_ctor_func(template, r.orig, fn, EngineArgs)
    [] r.wrapper = "ctor_lambda" -> generic_wrapper_ctor_lambda(template, r.orig, fn, EngineArgs)
    [] r.wrapper = "list_ctor" -> generic_wrapper_list_ctor(r.orig, fn, EngineArgs)
    [] r.wrapper = "factory_aux" -> generic_wrapper_factory_aux(template, r.orig, fn, EngineArgs)
    [] r.wrapper = "list_factory" -> list_factory_func(template, r.orig, EngineArgs)
    [] r.wrapper = "map_ret" -> map_ret_wrapper_generic(fn, EngineArgs)
    [] r.wrapper = "ctor_fn" -> ctor_fn_wrapper_generic(EngineArgs)
    [] r.wrapper = "gfn" -> <<>>

Compiles(r) == r.orig # "ill-formed" /\ Refused \notin ToSet(ThroughWrapper(r))

RegisterWrapper(c, wrapper, orig) ==
  {[do |-> "register", reg |-> r] :
     r \in {x \in {[conv |-> "generic", wrapper |-> wrapper, orig |-> orig,
                    explicit |-> c.explicit, aux |-> c.aux, var |-> c.var]} : Compiles(x)}}

\* a function of an asIScriptGeneric* is registered as it is
RegisterGeneric(c) ==
  IF c.generic \/ c.loc # "none" THEN {} ELSE RegisterWrapper(c, "gfn", "generic")

Generic(c) == [c EXCEPT !.generic = TRUE]
Pointer(c) == [c EXCEPT !.form = "raw", !.var = {}]

\* Mutant: the function is given on as it was given, not as a pointer.
UsualChoiceMutant(b, c) == CallOverload(IF ForceGeneric(b) THEN Generic(c) ELSE c)

\* The tail of most overloads that take fp<&f> or a lambda.
UsualChoice(b, c) == CallOverload(IF ForceGeneric(b) THEN Generic(c) ELSE Pointer(c))

\* where the call says the object is, or where its parameters tell
Located(c, deduced) ==
  IF c.loc = "none" THEN deduced
  ELSE conv_of_loc(c.loc, c.family = "method" /\ c.aux)

(***************************************************************************)
(* The overloads of `method', by the form of the function.                 *)
(***************************************************************************)
method_callconv(c) ==
  IF c.aux THEN deduce_method_callconv_aux(fn, EngineArgs)
           ELSE deduce_method_callconv(fn, EngineArgs, FALSE)

MethodPointer(b, c) ==
  IF c.generic \/ ForceGeneric(b) \/ (c.aux /\ c.loc # "none") THEN {}
  ELSE RegisterNative(c, Located(c, method_callconv(c)))

MethodFp(b, c) ==
  CASE c.loc # "none" /\ ~c.aux -> {}
    [] c.generic /\ (c.loc = "none" \/ c.aux) ->
         RegisterWrapper(c, "nontype", Located(c, method_callconv(c)))
    [] ~c.generic /\ c.loc # "none" /\ c.aux /\ ~ForceGeneric(b) ->
         RegisterNative(c, conv_of_loc(c.loc, TRUE))
    [] OTHER -> UsualChoice(b, c)

\* Mutant: ForceGeneric is forgotten.
MethodLambdaMutant(b, c) ==
  IF c.generic THEN RegisterWrapper(c, "nontype", Located(c, method_callconv(c)))
               ELSE RegisterNative(c, method_callconv(c))

MethodLambda(b, c) ==
  CASE c.generic -> RegisterWrapper(c, "nontype", Located(c, method_callconv(c)))
    [] ~c.generic /\ ForceGeneric(b) -> CallOverload(Generic(c))
    [] ~c.generic /\ ~ForceGeneric(b) /\ c.loc = "none" ->
         RegisterNative(c, method_callconv(c))
    [] OTHER -> RegisterWrapper(c, "nontype", conv_of_loc(c.loc, FALSE))

\* native functions need no var_type, but those with an auxiliary are wrapped
MethodVarType(b, c) ==
  CASE c.generic \/ (c.aux /\ ~ForceGeneric(b)) ->
         RegisterWrapper(c, "nontype", method_callconv(c))
    [] ~c.generic /\ ForceGeneric(b) -> CallOverload(Generic(c))
    [] ~c.generic /\ ~ForceGeneric(b) /\ ~c.aux /\ c.form = "fp" -> CallOverload(Pointer(c))
    [] OTHER -> RegisterNative(c, method_callconv(c))

MethodComposite(b, c) ==
  CASE c.form = "raw" ->
         IF c.generic \/ ForceGeneric(b) THEN {} ELSE RegisterNative(c, "THISCALL_COMP")
    [] c.form = "fp" /\ c.generic -> RegisterWrapper(c, "composite", "THISCALL")
    [] OTHER -> UsualChoice(b, c)

MethodWrapped(b, c) ==
  CASE c.generic -> RegisterWrapper(c, "map_ret", "generic")
    [] ~c.generic /\ ForceGeneric(b) -> CallOverload(Generic(c))
    [] OTHER -> RegisterNative(c, "CDECL_OBJFIRST")

method(b, c) ==
  CASE c.form = "gfn"      -> RegisterGeneric(c)
    [] c.form = "wrapped"  -> MethodWrapped(b, c)
    [] c.comp              -> MethodComposite(b, c)
    [] c.var # {} /\ ~c.comp -> MethodVarType(b, c)
    [] c.form = "raw"    /\ c.var = {} /\ ~c.comp -> MethodPointer(b, c)
    [] c.form = "fp"     /\ c.var = {} /\ ~c.comp -> MethodFp(b, c)
    [] c.form = "lambda" /\ c.var = {} /\ ~c.comp -> MethodLambda(b, c)

(***************************************************************************)
(* Behaviours.                                                             *)
(***************************************************************************)
BehaviourConv(c) ==
  IF c.aux THEN deduce_beh_callconv_aux(c.family, fn, EngineArgs)
           ELSE deduce_beh_callconv(c.family, fn, EngineArgs)

\* the behaviours of one signature: addref, release, enum_refs, ...
behaviour(b, c) ==
  CASE c.form = "gfn" -> RegisterGeneric(c)
    [] c.form = "raw" /\ ~c.generic /\ ~ForceGeneric(b) -> RegisterNative(c, BehaviourConv(c))
    [] c.form = "fp" /\ c.generic -> RegisterWrapper(c, "nontype", BehaviourConv(c))
    [] c.form = "fp" /\ ~c.generic -> UsualChoice(b, c)
    [] OTHER -> {}

template_callback(b, c) ==
  CASE ~template -> {}
    [] template /\ c.form = "gfn" -> RegisterGeneric(c)
    [] template /\ c.form = "raw" /\ ~c.generic /\ ~ForceGeneric(b) /\ (c.aux => fn.member) ->
         RegisterNative(c, BehaviourConv(c))
    [] template /\ c.form = "fp" /\ c.generic -> RegisterWrapper(c, "nontype", BehaviourConv(c))
    [] template /\ c.form = "fp" /\ ~c.generic -> UsualChoice(b, c)
    [] OTHER -> {}

\* constructor_function: pointers and generic functions
ConstructorPointer(b, c) ==
  CASE c.form = "gfn" -> RegisterGeneric(c)
    [] c.form = "raw" /\ ~c.generic /\ ~ForceGeneric(b) ->
         RegisterNative(c, Located(c, BehaviourConv(c)))
    [] OTHER -> {}

\* constructor_function(use_generic, ...)
ConstructorGeneric(b, c) ==
  RegisterWrapper(c, IF c.form = "fp" THEN "ctor_func" ELSE "ctor_lambda",
                  Located(c, BehaviourConv(c)))

\* constructor_function(params, use_explicit, fp<&f>)
ConstructorExplicit(b, c) ==
  CallOverload(IF ForceGeneric(b) THEN Generic(c) ELSE c)

\* constructor_function(params, as_ctor_fn<&f>())
ConstructorWrapped(b, c) ==
  IF c.generic \/ ForceGeneric(b) THEN RegisterWrapper(c, "ctor_fn", "generic")
                                  ELSE RegisterNative(c, "CDECL_OBJFIRST")

constructor_function(b, c) ==
  CASE c.form \in {"gfn", "raw"} -> ConstructorPointer(b, c)
    [] c.form = "wrapped" -> ConstructorWrapped(b, c)
    [] c.form \in {"fp", "lambda"} /\ c.generic -> ConstructorGeneric(b, c)
    [] c.form = "fp" /\ ~c.generic /\ c.explicit /\ c.loc = "none" -> ConstructorExplicit(b, c)
    [] OTHER -> UsualChoice(b, c)

\* (the lambda of a destructor takes no auxiliary)
destructor_function(b, c) ==
  CASE c.form = "gfn" -> RegisterGeneric(c)
    [] c.form = "raw" /\ ~c.generic /\ ~ForceGeneric(b) -> RegisterNative(c, BehaviourConv(c))
    [] c.form \in {"fp", "lambda"} /\ c.generic ->
         RegisterWrapper(c, "nontype", BehaviourConv(c))
    [] c.form \in {"fp", "lambda"} /\ ~c.generic -> UsualChoice(b, c)
    [] OTHER -> {}

list_constructor_function(b, c) ==
  CASE c.form = "gfn" -> RegisterGeneric(c)
    [] c.form = "raw" /\ ~c.generic /\ ~ForceGeneric(b) -> RegisterNative(c, BehaviourConv(c))
    [] c.form = "fp" /\ c.generic -> RegisterWrapper(c, "list_ctor", BehaviourConv(c))
    [] c.form = "fp" /\ ~c.generic -> UsualChoice(b, c)
    [] OTHER -> {}

\* factory_function: pointers and generic functions
FactoryPointer(b, c) ==
  CASE c.form = "gfn" -> RegisterGeneric(c)
    [] c.form = "raw" /\ ~c.generic /\ ~ForceGeneric(b) /\ (fn.member => c.aux) ->
         RegisterNative(c, Located(c, BehaviourConv(c)))
    [] OTHER -> {}

\* factory_function(use_generic, params, fp<&f>, ...)
FactoryGeneric(b, c) ==
  RegisterWrapper(c, IF c.aux THEN "factory_aux" ELSE "nontype", Located(c, BehaviourConv(c)))

factory_function(b, c) ==
  CASE c.form \in {"gfn", "raw"} -> FactoryPointer(b, c)
    [] c.form = "fp" /\ c.generic -> FactoryGeneric(b, c)
    [] c.form = "fp" /\ ~c.generic -> UsualChoice(b, c)
    [] OTHER -> {}

\* there is no list_factory_function(fp<&f>) without an auxiliary
list_factory_function(b, c) ==
  CASE c.form = "gfn" -> RegisterGeneric(c)
    [] c.form = "raw" /\ ~c.generic /\ ~ForceGeneric(b) ->
         RegisterNative(c, Located(c, BehaviourConv(c)))
    [] c.form = "fp" /\ c.aux /\ c.generic ->
         RegisterWrapper(c, "list_factory", Located(c, BehaviourConv(c)))
    [] c.form = "fp" /\ c.aux /\ ~c.generic -> UsualChoice(b, c)
    [] OTHER -> {}

\* global::function; an auxiliary is the object of a member function
function(b, c) ==
  LET conv == IF c.aux THEN "THISCALL_ASGLOBAL" ELSE deduce_function_callconv(fn)
  IN  CASE c.form = "gfn" -> RegisterGeneric(c)
        [] c.form = "raw" /\ ~c.generic /\ ~ForceGeneric(b) -> RegisterNative(c, conv)
        [] c.form \in {"fp", "lambda"} /\ c.generic -> RegisterWrapper(c, "nontype", conv)
        [] c.form = "wrapped" /\ c.generic -> RegisterWrapper(c, "map_ret", "generic")
        [] c.form = "wrapped" /\ ~c.generic /\ ForceGeneric(b) -> CallOverload(Generic(c))
        [] c.form = "wrapped" /\ ~c.generic /\ ~ForceGeneric(b) -> RegisterNative(c, "CDECL")
        [] c.form \in {"fp", "lambda"} /\ ~c.generic -> UsualChoice(b, c)
        [] OTHER -> {}

Overload(b, c) ==
  CASE c.family = "method"                    -> method(b, c)
    [] c.family = "behaviour"                 -> behaviour(b, c)
    [] c.family = "template_callback"         -> template_callback(b, c)
    [] c.family = "constructor_function"      -> constructor_function(b, c)
    [] c.family = "destructor_function"       -> destructor_function(b, c)
    [] c.family = "list_constructor_function" -> list_constructor_function(b, c)
    [] c.family = "factory_function"          -> factory_function(b, c)
    [] c.family = "list_factory_function"     -> list_factory_function(b, c)
    [] c.family = "function"                  -> function(b, c)

(***************************************************************************)
(* What applications register.                                             *)
(***************************************************************************)
ArgLists(family) ==
  LET any == UNION {[1..n -> {"val", "same"} \cup
                      (IF family = "method" THEN {"any"} ELSE {})] : n \in 0..MaxArgs}
  IN  CASE family \in {"behaviour"}           -> {<<>>, <<"val">>}
        [] family = "destructor_function"     -> {<<>>}
        [] family = "template_callback"       -> {<<"val">>}
        [] family \in {"list_constructor_function", "list_factory_function"} -> {<<"list">>}
        [] OTHER                              -> any

\* the functions of a family: where they get the object, or the auxiliary
Functions(family, aux) ==
  LET Free(ends, types) == [member : {FALSE}, end : ends, obj : types]
      Member(ends) == [member : {TRUE}, end : ends, obj : {"T"}]
      both == {"first", "last"}
  IN  CASE family \in {"method", "behaviour", "destructor_function"} /\ ~aux ->
             Free(both, {"T"}) \cup Member({"none"})
        [] family \in {"method", "behaviour", "destructor_function"} /\ aux -> Member(both)
        [] family = "constructor_function" /\ ~aux ->
             Free(both, {"T", "void"}) \cup Free({"none"}, {"T"})
        [] family = "list_constructor_function" /\ ~aux -> Free(both, {"T", "void"})
        [] family \in {"factory_function", "list_factory_function"} /\ aux ->
             Free(both, {"A"}) \cup Member({"none"})
        [] family \in {"template_callback", "function"} /\ aux -> Member({"none"})
        [] family \in AsGlobal \cup {"function"} /\ ~aux -> Free({"none"}, {"T"})
        [] OTHER -> {}

Calls ==
  [family : Families, generic : BOOLEAN, form : Forms, explicit : BOOLEAN,
   aux : BOOLEAN, loc : {"none", "first", "last"}, comp : BOOLEAN,
   var : SUBSET (0..MaxArgs - 1)]

AnyAt(as) == {k - 1 : k \in {j \in DOMAIN as : as[j] = "any"}}

\* Calls that fit the function f: fn_tools::as_ctor_fn is for functions without
\* an object, other constructor functions have one.
Sensible(c, f, as) ==
  /\ c.explicit => c.family \in {"constructor_function", "factory_function"}
  /\ c.loc # "none" => c.loc = f.end
                       /\ c.family \in {"method", "constructor_function",
                                        "factory_function", "list_factory_function"}
  /\ c.comp => c.family = "method" /\ f.member /\ ~c.aux /\ c.form \in {"fp", "raw"}
  /\ c.form = "lambda" => ~f.member /\ ~c.aux
                          /\ c.family \in {"method", "constructor_function",
                                           "destructor_function", "function"}
  /\ c.form = "wrapped" =>
       /\ ~c.aux
       /\ \/ c.family = "method" /\ (f.member \/ f.end = "first")
          \/ c.family = "function"
          \/ c.family = "constructor_function" /\ f.end = "none"
  /\ c.form = "gfn" => ~c.generic
  /\ c.form \in {"gfn", "wrapped"} => c.loc = "none"
  /\ c.family = "constructor_function" /\ f.end = "none" => c.form = "wrapped"
  /\ c.form = "wrapped" => AnyAt(as) = {}
  /\ c.var # {} => c.loc = "none"

Init ==
  /\ \E family \in Families, auxiliary, generic, explicit, comp \in BOOLEAN, form \in Forms :
       \E f \in Functions(family, auxiliary), as \in ArgLists(family) :
         \E loc \in {"none", f.end} :
           LET c == [family |-> family, generic |-> generic, form |-> form,
                     explicit |-> explicit, aux |-> auxiliary, loc |-> loc, comp |-> comp,
                     var |-> IF form \in {"fp", "lambda"} THEN AnyAt(as) ELSE {}]
           IN  Sensible(c, f, as) /\ want = c /\ fn = f /\ args = as
  /\ template \in {FALSE} \cup {want.family \in TakesTypeInfo}
  /\ want.family = "template_callback" => template
  /\ at = [b \in Builds |-> want]
  /\ stage = [b \in Builds |-> "calling"]
  /\ reg = [b \in Builds |-> NoReg]
  /\ got = [b \in Builds |-> <<>>]

(***************************************************************************)
(* Compilation and run time of each build.                                 *)
(***************************************************************************)

\* one overload calls another
Forward(b) ==
  /\ stage[b] = "calling"
  /\ \E o \in Overload(b, at[b]) : o.do = "call" /\ at' = [at EXCEPT ![b] = o.call]
  /\ UNCHANGED <<request, stage, reg, got>>

\* the last one registers the function
Register(b) ==
  /\ stage[b] = "calling"
  /\ \E o \in Overload(b, at[b]) : o.do = "register" /\ reg' = [reg EXCEPT ![b] = o.reg]
  /\ stage' = [stage EXCEPT ![b] = "registered"]
  /\ UNCHANGED <<request, at, got>>

\* no overload fits, or the one that fits does not compile
Refuse(b) ==
  /\ stage[b] = "calling"
  /\ Overload(b, at[b]) = {}
  /\ stage' = [stage EXCEPT ![b] = "refused"]
  /\ UNCHANGED <<request, at, reg, got>>

\* a script calls the function
Call(b) ==
  /\ stage[b] = "registered"
  /\ got' = [got EXCEPT ![b] = IF reg[b].conv = "generic" THEN ThroughWrapper(reg[b])
                               ELSE NativeArgs(reg[b].conv, want.family, EngineArgs)]
  /\ stage' = [stage EXCEPT ![b] = "called"]
  /\ UNCHANGED <<request, at, reg>>

Step(b) == Forward(b) \/ Register(b) \/ Refuse(b) \/ Call(b)

Next == \E b \in Builds : Step(b)

Spec == Init /\ [][Next]_vars

\* a compiler and a program that are started go on
FairSpec == Spec /\ WF_vars(Next)

(***************************************************************************)
(* Properties.                                                             *)
(***************************************************************************)
Conventions ==
  {"none", "generic", "CDECL", "THISCALL", "THISCALL_COMP", "THISCALL_ASGLOBAL",
   "CDECL_OBJFIRST", "CDECL_OBJLAST", "THISCALL_OBJFIRST", "THISCALL_OBJLAST"}

Wrappers ==
  {"none", "nontype", "composite", "ctor_func", "ctor_lambda", "list_ctor",
   "factory_aux", "list_factory", "map_ret", "ctor_fn", "gfn"}

Registrations ==
  [conv : Conventions, wrapper : Wrappers, orig : Conventions, explicit : BOOLEAN,
   aux : BOOLEAN, var : SUBSET (0..MaxArgs - 1)]

TypeOK ==
  /\ template \in BOOLEAN
  /\ fn \in [member : BOOLEAN, end : {"first", "last", "none"}, obj : {"T", "A", "void"}]
  /\ args \in Seq(ArgKinds) /\ Len(args) <= 1 + MaxArgs
  /\ want \in Calls
  /\ at \in [Builds -> Calls]
  /\ stage \in [Builds -> {"calling", "registered", "called", "refused"}]
  /\ reg \in [Builds -> Registrations]
  /\ \A b \in Builds : \A i \in DOMAIN got[b] :
       got[b][i] \in {"obj", "aux", "comp", "arg", "id", "none"} \X (0..Len(EngineArgs))

\* What the author of the function expects to receive.
Intended ==
  LET passed == PassedArgs(EngineArgs)
      object == IF want.family \in AsGlobal THEN Aux ELSE Obj
  IN  IF want.form = "gfn" THEN <<>>
      ELSE CASE want.form = "wrapped" /\ want.family = "constructor_function" ->
                  <<Obj>> \o passed
             [] want.comp -> <<Comp>> \o passed
             [] fn.member /\ want.aux -> <<Aux>> \o AtEnd(fn.end, Obj, passed)
             [] fn.member /\ ~want.aux /\ ~want.comp -> <<Obj>> \o passed
             [] OTHER -> AtEnd(fn.end, object, passed)

\* The documented rule for an object parameter without objfirst or objlast (T
\* before void*, the first before the last) prefers the wrong end.
Misleading ==
  LET types == ParamTypes(fn, EngineArgs)
      class == IF want.family \in AsGlobal THEN "A" ELSE "T"
      tries == want.family \in {"constructor_function", "list_constructor_function"}
      rank(t) == CASE t = class -> 2
                   [] t # class /\ tries /\ t = "void" -> 1
                   [] OTHER -> 0
      ends == [first |-> rank(Head(types)), last |-> rank(types[Len(types)])]
  IN  /\ want.loc = "none" /\ want.form \notin {"gfn", "wrapped"} /\ fn.end # "none"
      /\ types # <<>>
      /\ \/ fn.end = "last" /\ Len(types) > 1 /\ ends.first >= ends.last
         \/ fn.end = "first" /\ ends.last > ends.first

\* map_ret of a free function fetches the object of a method as an argument.
MappedMethod == want.form = "wrapped" /\ want.family = "method" /\ ~fn.member

\* The wrapper of list constructors knows neither templates (a FIXME in the
\* code) nor, so that it compiles, an object behind the list.
ListConstructor ==
  want.family = "list_constructor_function" /\ (template \/ fn.end = "last")

\* With two `?' a type id is put where an address belongs: does not compile.
TwoVarTypes == Cardinality(want.var) > 1

\* An overload that calls itself.
CallsItself ==
  /\ want.family = "constructor_function" /\ want.form = "fp" /\ ~want.generic
  /\ want.explicit /\ want.loc = "none"

\* Whatever overload, deduction and wrapper a registration goes through, the
\* C++ function receives the object, the auxiliary and every argument of the
\* script at the parameter that is meant for it (common.hpp:58-306,
\* genfunc.hpp, the overloads of class.hpp and global.hpp).
ArgumentsArrive ==
  \A b \in Builds :
    /\ stage[b] = "called"
    /\ ~Misleading
    /\ ~(reg[b].conv = "generic" /\ (MappedMethod \/ ListConstructor))
    => got[b] = Intended

\* A registration without function pointers means the same with and without
\* ForceGeneric: it compiles in both builds or in none, and the function
\* receives the same (doc/advanced/generic.rst; class.hpp:1956 and its like).
PortsAgree ==
  /\ want.form \in {"fp", "lambda", "wrapped"}
  /\ \A b \in Builds : stage[b] \in {"called", "refused"}
  /\ ~(MappedMethod \/ ListConstructor \/ TwoVarTypes)
  => /\ stage["native"] = stage["portable"]
     /\ got["native"] = got["portable"]

\* What the application says with the function gets to AngelScript through
\* every chain of overloads: nothing but a generic function when use_generic or
\* ForceGeneric ask for it, explicit, the auxiliary object, the composite.
NothingIsDropped ==
  \A b \in Builds :
    stage[b] \in {"registered", "called"} =>
      /\ (ForceGeneric(b) \/ want.generic) => reg[b].conv = "generic"
      /\ reg[b].explicit = want.explicit
      /\ reg[b].aux = want.aux
      /\ want.comp = (reg[b].conv = "THISCALL_COMP" \/ reg[b].wrapper = "composite")

\* An overload gives a call on once at most: what it gives on is another call
\* than the application's, and the overload that gets it registers or refuses.
\* So every chain of overloads ends, but the one of CallsItself.
GivenOnOnce ==
  \A b \in Builds : \A o \in Overload(b, at[b]) :
    o.do = "call" => \/ CallsItself /\ b = "native"
                     \/ at[b] = want /\ o.call # want

\* Every call of a generator comes to an end.
CallsReturn ==
  \A b \in Builds :
    stage[b] = "calling" /\ ~(CallsItself /\ b = "native") ~> stage[b] # "calling"

\* doc/advanced/generic.rst:81 and :100: var_type takes the positions of all
\* `?' of the script parameters, as in var_type<0, 2>.
DocumentedVarTypes == \A b \in Builds : want.var # {} => stage[b] # "refused"

\* doc/object_type.rst:271 says that explicit constructor functions can be
\* registered, and template_value_class.cpp:207 registers fp<...> as one: every
\* call of a generator comes to an end.
ExplicitConstructors == \A b \in Builds : stage[b] = "calling" ~> stage[b] # "calling"

=============================================================================
