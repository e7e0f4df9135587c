----------------------------- MODULE Registration -----------------------------
(***************************************************************************)
(* The registration of an application interface with asbind20: the scope   *)
(* guards namespace_ and access_mask of bind.hpp and the binding           *)
(* generators value_class, ref_class, interface, enum_ and global.         *)
(*                                                                         *)
(* Guards and generators are local objects of C++, here the frames of a    *)
(* stack.  A generator keeps the name of its type and gives that name to   *)
(* the engine at each call, and the engine looks for it in its default     *)
(* namespace and then in those around it.  A failure ends in the listener, *)
(* which throws unless the application gave one that does not.             *)
(*                                                                         *)
(* Failed assertions end the program and have no step: the model is of a   *)
(* build with assertions.  Declarations, calling conventions and addresses *)
(* are left out.                                                           *)
(***************************************************************************)
EXTENDS Naturals, FiniteSets, Sequences

CONSTANTS
    Parts,      \* names that namespaces are made of
    Names,      \* names of types
    Masks,      \* access masks
    None,       \* no type
    MaxNesting, \* bound: parts of a namespace
    MaxFrames,  \* bound: guards and generators at a time
    MaxGenerators, \* bound: generators at a time
    MaxEntities \* bound: members and functions that are registered

Namespaces == UNION { [1..n -> Parts] : n \in 0..MaxNesting }

Paths == Namespaces \X Names

(* A ref_class without flags of its own: appending to one that has, one     *)
(* that is collected for example, fails an assertion.                       *)
Classes == {"value", "ref", "interface", "enum"}

Kinds == {"method", "property", "enum value"}

ASSUME NoneAssumption == None \notin Paths /\ None \notin Classes
ASSUME BoundsAssumption == /\ MaxNesting \in Nat /\ MaxFrames \in Nat
                            /\ MaxGenerators \in Nat /\ MaxEntities \in Nat

VARIABLES
    ns,         \* the engine's default namespace
    mask,       \* the engine's default access mask
    frames,     \* the guards and generators that live, in order of creation
    types,      \* the types of the engine and what they are
    members,    \* the members of types; by: the type of the generator
                \* that registered it, if it was used where it was made
    functions,  \* the namespaces with the global function
    told        \* what the listeners were told of

engine == <<types, members, functions, told>>

vars == <<ns, mask, frames, types, members, functions, told>>

Init == /\ ns = <<>>
        /\ mask \in Masks
        /\ frames = <<>>
        /\ types = [p \in Paths |-> None]
        /\ members = {}
        /\ functions = {}
        /\ told = {}

-----------------------------------------------------------------------------
(* The stack.                                                               *)

NamespaceGuard == [guard : {"namespace"}, prev : Namespaces]

MaskGuard == [guard : {"mask"}, prev : Masks]

Generator == [guard : {"none"}, class : Classes, name : Names,
              type : Paths \cup {None}, home : Namespaces]

Push(f) == /\ Len(frames) < MaxFrames
           /\ frames' = Append(frames, f)

Above(k, guard) == { i \in k + 1..Len(frames) : frames[i].guard = guard }

(* The frame that is destroyed last.                                        *)
Lowest(S) == CHOOSE i \in S : \A j \in S : i <= j

(* What is restored, the last one first, when guards are destroyed.         *)
Restored(guards, current) ==
    IF guards = {} THEN current ELSE frames[Lowest(guards)].prev

(* Mutant: the namespace of the guard that is destroyed first.              *)
NamespaceAtHighest(k) ==
    LET guards == Above(k, "namespace")
    IN  IF guards = {} THEN ns
        ELSE frames[CHOOSE i \in guards : \A j \in guards : i >= j].prev

NamespaceAt(k) == Restored(Above(k, "namespace"), ns)

MaskAt(k) == Restored(Above(k, "mask"), mask)

(* All frames but the k lowest are destroyed.                               *)
Unwind(k) == /\ ns' = NamespaceAt(k)
             /\ mask' = MaskAt(k)
             /\ frames' = SubSeq(frames, 1, k)

(* The guards that end with their block.                                    *)
CloseBlock == /\ frames # <<>>
              /\ Unwind(Len(frames) - 1)
              /\ UNCHANGED engine

(* default_fallback throws, and the application catches somewhere.          *)
Throw == /\ \E k \in 0..Len(frames) : Unwind(k)
         /\ UNCHANGED engine

OpenNamespace(q, nested) ==
    /\ IF nested THEN ns' = ns \o q ELSE ns' = q
    /\ Len(ns') <= MaxNesting
    /\ Push([guard |-> "namespace", prev |-> ns])
    /\ UNCHANGED <<mask, engine>>

OpenMask(m) ==
    /\ mask' = m
    /\ Push([guard |-> "mask", prev |-> mask])
    /\ UNCHANGED <<ns, engine>>

-----------------------------------------------------------------------------
(* The engine.                                                              *)

Enclosing(n) ==
    { k \in 0..Len(ns) : types[<<SubSeq(ns, 1, k), n>>] # None }

(* Mutant: the outermost.                                                   *)
ResolveGlobally(n) ==
    IF Enclosing(n) = {} THEN None
    ELSE LET k == CHOOSE i \in Enclosing(n) : \A j \in Enclosing(n) : j >= i
         IN  <<SubSeq(ns, 1, k), n>>

(* The type that a name stands for: the innermost namespace that has one.   *)
Resolve(n) ==
    IF Enclosing(n) = {} THEN None
    ELSE LET k == CHOOSE i \in Enclosing(n) : \A j \in Enclosing(n) : j <= i
         IN  <<SubSeq(ns, 1, k), n>>

Here(n) == <<ns, n>>

Accepts(what, class) ==
    CASE what = "enum value" -> class = "enum"
      [] what = "property" -> class \in {"value", "ref"}
      [] what = "method" -> class # "enum"

RegisteredTypes == { p \in Paths : types[p] # None }

Room == Cardinality(members) + Cardinality(functions) < MaxEntities

-----------------------------------------------------------------------------
(* Generators.                                                              *)

NewGenerator(class, n, type) ==
    /\ Cardinality(Above(0, "none")) < MaxGenerators
    /\ Push([guard |-> "none", class |-> class, name |-> n,
             type |-> type, home |-> ns])
    /\ UNCHANGED <<ns, mask>>

(* The constructors that register their type.                               *)
RegisterType(class, n) ==
    /\ types[Here(n)] = None
    /\ types' = [types EXCEPT ![Here(n)] = class]
    /\ told' = told \cup {<<"type", Here(n)>>}
    /\ NewGenerator(class, n, Here(n))
    /\ UNCHANGED <<members, functions>>

(* A listener that does not throw leaves a generator without a type.        *)
RegisterTypeFails(class, n) ==
    /\ types[Here(n)] # None
    /\ \/ Throw
       \/ NewGenerator(class, n, None) /\ UNCHANGED engine

(* Mutant: the flags are compared when they are those of values.            *)
CompatibleIfValue(class, existing) == class = "value" => existing = class

(* The consistency check: value_class gives no flags to compare, ref_class  *)
(* none but its own, interface refuses values.                              *)
Compatible(class, existing) ==
    CASE class = "value" -> TRUE
      [] class = "interface" -> existing # "value"
      [] OTHER -> existing = class

(* appending and try_appending find a type.                                 *)
AppendType(class, n) ==
    /\ Resolve(n) # None
    /\ Compatible(class, types[Resolve(n)])
    /\ NewGenerator(class, n, Resolve(n))
    /\ UNCHANGED engine

(* appending finds none, and nobody is told.                                *)
AppendNothing(class, n) ==
    /\ Resolve(n) = None
    /\ NewGenerator(class, n, None)
    /\ UNCHANGED engine

(* Mutant: nobody is told of a new type.                                    *)
AppendNewTypeQuietly(class, n) ==
    /\ class # "value"
    /\ Resolve(n) = None
    /\ types' = [types EXCEPT ![Here(n)] = class]
    /\ NewGenerator(class, n, Here(n))
    /\ UNCHANGED <<members, functions, told>>

(* try_appending finds none.  enum_ and interface go the way of a new type; *)
(* ref_class ignores what append_type returns, and its listener with it.    *)
AppendNewType(class, n) ==
    /\ class # "value"
    /\ Resolve(n) = None
    /\ types' = [types EXCEPT ![Here(n)] = class]
    /\ told' = IF class = "ref" THEN told ELSE told \cup {<<"type", Here(n)>>}
    /\ NewGenerator(class, n, Here(n))
    /\ UNCHANGED <<members, functions>>

(* What each generator can register in its type.                            *)
Offers(class, what) ==
    CASE class = "enum" -> what = "enum value"
      [] class = "interface" -> what = "method"
      [] OTHER -> what \in {"method", "property"}

Registered(what, p) == \E m \in members : m.what = what /\ m.of = p

(* Mutant: of any name.                                                     *)
TakenOfAny(what, p) == ~Registered(what, p)

(* The engine takes a member of the type that it finds, if any.             *)
Taken(what, p) == p # None /\ Accepts(what, types[p]) /\ ~Registered(what, p)

Uses(g, what) == g.guard = "none" /\ Offers(g.class, what)

(* A member of the type that the generator's name stands for now.           *)
NewMember(g, what) ==
    /\ Room
    /\ Taken(what, Resolve(g.name))
    /\ members' = members \cup
          {[what |-> what, of |-> Resolve(g.name),
            by |-> IF ns = g.home THEN g.type ELSE None]}
    /\ UNCHANGED <<ns, mask, frames, types, functions>>

(* method, operators, conversions and member funcdefs, enum values.         *)
Member(i, what) ==
    /\ Uses(frames[i], what)
    /\ what # "property"
    /\ NewMember(frames[i], what)
    /\ told' = told \cup {<<what, Resolve(frames[i].name)>>}

MemberFails(i, what) ==
    /\ Uses(frames[i], what)
    /\ what # "property"
    /\ ~Taken(what, Resolve(frames[i].name))
    /\ Throw

(* property and the behaviours: no listener, and a failure leaves no trace. *)
QuietMember(i) ==
    /\ Uses(frames[i], "property")
    /\ NewMember(frames[i], "property")
    /\ UNCHANGED told

(* global: functions, properties, funcdefs and typedefs.                    *)
GlobalFunction ==
    /\ Room
    /\ ns \notin functions
    /\ functions' = functions \cup {ns}
    /\ told' = told \cup {<<"function", ns>>}
    /\ UNCHANGED <<ns, mask, frames, types, members>>

GlobalFunctionFails == ns \in functions /\ Throw

-----------------------------------------------------------------------------
Guards == \/ CloseBlock
          \/ \E q \in Namespaces, nested \in BOOLEAN : OpenNamespace(q, nested)
          \/ \E m \in Masks : OpenMask(m)

Constructs(n) ==
    \E c \in Classes : \/ RegisterType(c, n) \/ RegisterTypeFails(c, n)
                       \/ AppendType(c, n) \/ AppendNothing(c, n)
                       \/ AppendNewType(c, n)

Registers == \/ \E i \in DOMAIN frames, what \in Kinds :
                   Member(i, what) \/ MemberFails(i, what)
             \/ \E i \in DOMAIN frames : QuietMember(i)
             \/ GlobalFunction
             \/ GlobalFunctionFails

Next == Guards \/ Registers \/ \E n \in Names : Constructs(n)

Spec == Init /\ [][Next]_vars

-----------------------------------------------------------------------------
(* Properties.                                                              *)

TypeOK == /\ ns \in Namespaces
          /\ mask \in Masks
          /\ frames \in Seq(NamespaceGuard \cup MaskGuard \cup Generator)
          /\ Len(frames) <= MaxFrames
          /\ types \in [Paths -> Classes \cup {None}]
          /\ members \subseteq [what : Kinds, of : Paths, by : Paths \cup {None}]
          /\ functions \subseteq Namespaces

(***************************************************************************)
(* Guards, generators and exceptions nest as blocks do: whichever frames   *)
(* an exception destroys, the engine has the namespace and the mask it had *)
(* when the innermost frame that is left was created or, since, those its  *)
(* guard set.  About namespace_, access_mask and their destructors.        *)
(***************************************************************************)
Env(k) == [ns |-> NamespaceAt(k), mask |-> MaskAt(k)]

Lexical == INSTANCE Scopes
               WITH envs <- [k \in 1..Len(frames) + 1 |-> Env(k - 1)]

ImplementsScopes == Lexical!Spec

(***************************************************************************)
(* A member belongs to the type its generator registered or found, if the  *)
(* generator is used in the namespace it was made in and no nearer type    *)
(* has taken the name since.  About the names that class.hpp, bind.hpp and *)
(* enum.hpp give to the engine for each member.                            *)
(***************************************************************************)
Shadows(p, q) == Len(p[1]) > Len(q[1])

MembersFollowTheirGenerator ==
    \A m \in members :
       m.by # None => m.of = m.by \/ Shadows(m.of, m.by)

(***************************************************************************)
(* Listeners are told of everything that was registered and has a          *)
(* callback, and of nothing that was not, whatever failed in between; the  *)
(* types that try_appending of ref_class registers aside.                  *)
(***************************************************************************)
ListenersKnow ==
    LET news == { <<"type", p>> : p \in RegisteredTypes }
                \cup { <<m.what, m.of>> : m \in members }
                \cup { <<"function", q>> : q \in functions }
        quiet == { <<"type", p>> : p \in { q \in RegisteredTypes : types[q] = "ref" } }
                 \cup { <<m.what, m.of>> : m \in { x \in members : x.what = "property" } }
    IN  told \subseteq news /\ news \subseteq told \cup quiet

(***************************************************************************)
(* A generator of a ref_class or an enum_ has found a type of its class,   *)
(* however the namespaces and the types changed meanwhile.  About the      *)
(* checks of appending, which value_class and interface do not have.       *)
(***************************************************************************)
AppendedTypesFit ==
    \A i \in DOMAIN frames :
       frames[i].guard = "none" /\ frames[i].type # None
          /\ frames[i].class \in {"ref", "enum"} =>
             types[frames[i].type] = frames[i].class

(***************************************************************************)
(* "If the type is not found, it is registered as if you used the normal   *)
(* constructor." (doc/aux_interface.rst:205): the listener is told of it.  *)
(* Broken by try_appending of ref_class.                                   *)
(***************************************************************************)
NewTypesAreTold == \A p \in RegisteredTypes : <<"type", p>> \in told
=============================================================================
