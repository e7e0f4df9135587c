---------------------------- MODULE ScriptHandles ----------------------------
(***************************************************************************)
(* The smart pointers of asbind20: script_object, script_context,          *)
(* script_engine, lockable_shared_bool and script_typeinfo (memory.hpp)    *)
(* and script_function (invoke.hpp).                                       *)
(*                                                                         *)
(* All six keep one raw handle to a reference-counted AngelScript object   *)
(* and differ in the operations they offer and in whether an operation     *)
(* adopts a reference or adds one.  A behaviour is about one class, chosen *)
(* in the initial state.  The counters belong to the engine and change     *)
(* only through AddRef and Release (ShutDownAndRelease for an engine).     *)
(***************************************************************************)
EXTENDS Integers, FiniteSets

CONSTANTS
    Classes,    \* the classes to choose from, a subset of ClassNames
    Slots,      \* storage a helper can be constructed in
    Objects,    \* identities (addresses) of the counted objects
    Null,       \* the null handle
    Absent,     \* a slot in which no helper is alive
    MaxExt,     \* bound: references per object the application holds itself
    MaxCount    \* bound: a counter that move assignment may still raise

ClassNames ==
    {"object", "context", "engine", "bool", "typeinfo", "function"}

ASSUME SlotsAssumption == IsFiniteSet(Slots)
ASSUME HandleAssumption == /\ Null \notin Objects
                           /\ Absent \notin Objects
                           /\ Null # Absent
ASSUME ClassesAssumption == Classes \subseteq ClassNames
ASSUME BoundsAssumption == MaxExt \in Nat \ {0} /\ MaxCount \in Nat

VARIABLES
    cls,        \* the class the helpers of this behaviour belong to
    h,          \* the raw handle member of the helper in each slot
    rc,         \* the counter of each object; 0: not created or destroyed
    ext,        \* references owned by the application, outside any helper
    flawed      \* history: a move that miscounts has run (script_engine's
                \* constructor, script_typeinfo's assignment of a handle)

vars == <<cls, h, rc, ext, flawed>>

(***************************************************************************)
(* The counters.  A call through a handle to an object that is no longer   *)
(* there leaves Corrupt behind, for good.                                  *)
(***************************************************************************)
Corrupt == -1

AddRef(counts, o) ==
    IF o = Null THEN counts
    ELSE [counts EXCEPT ![o] = IF @ > 0 THEN @ + 1 ELSE Corrupt]

Release(counts, o) ==
    IF o = Null THEN counts
    ELSE [counts EXCEPT ![o] = IF @ > 0 THEN @ - 1 ELSE Corrupt]

(***************************************************************************)
(* Which operations a class declares.                                      *)
(***************************************************************************)
Offers(op) ==
    CASE op = "ctor_handle"    -> {"object", "bool", "typeinfo", "function"}
      [] op = "ctor_adopt"     -> {"engine", "bool", "typeinfo"}
      [] op = "ctor_create"    -> {"context", "engine", "bool"}
      [] op = "copy"           -> {"context", "bool", "typeinfo", "function"}
      [] op = "move_assign"    -> ClassNames \ {"object"}
      [] op = "release"        -> {"object", "context", "engine", "typeinfo"}
      [] op = "reset_handle"   -> ClassNames \ {"engine"}
      [] op = "reset_adopt"    -> {"context", "engine", "bool", "typeinfo"}
      [] op = "connect_object" -> {"bool"}
      [] op = "swap"           -> {"context", "bool", "function"}

Has(op) == cls \in Offers(op)

Live(s) == h[s] # Absent

(***************************************************************************)
(* The caller of an operation that takes a raw handle for slot s: somebody *)
(* other than s keeps the object alive during the call, or it is null.     *)
(***************************************************************************)
Kept(o, s) == o # Null => ext[o] > 0 \/ \E t \in Slots \ {s} : h[t] = o

(***************************************************************************)
(* An adopting operation takes over one reference of the application; a    *)
(* handle handed out by release() becomes the application's.               *)
(***************************************************************************)
Owned(o) == o # Null => ext[o] > 0

TakeOver(o) == IF o = Null THEN ext ELSE [ext EXCEPT ![o] = @ - 1]

HandOut(o) == IF o = Null THEN ext ELSE [ext EXCEPT ![o] = @ + 1]

Room(o) == o # Null => ext[o] < MaxExt

Init == /\ cls \in Classes
        /\ h = [s \in Slots |-> Absent]
        /\ rc = [o \in Objects |-> 0]
        /\ ext = [o \in Objects |-> 0]
        /\ flawed = FALSE

-----------------------------------------------------------------------------
(* Construction and destruction.                                            *)

DefaultCtor(s) == /\ ~Live(s)
                  /\ h' = [h EXCEPT ![s] = Null]
                  /\ UNCHANGED <<cls, rc, ext, flawed>>

HandleCtor(s, o) == /\ Has("ctor_handle")
                    /\ ~Live(s)
                    /\ Kept(o, s)
                    /\ h' = [h EXCEPT ![s] = o]
                    /\ rc' = AddRef(rc, o)
                    /\ UNCHANGED <<cls, ext, flawed>>

AdoptCtor(s, o) == /\ Has("ctor_adopt")
                   /\ ~Live(s)
                   /\ Owned(o)
                   /\ h' = [h EXCEPT ![s] = o]
                   /\ ext' = TakeOver(o)
                   /\ UNCHANGED <<cls, rc, flawed>>

(* The new object is born with one reference, which the helper adopts.      *)
CreateCtor(s, o) == /\ Has("ctor_create")
                    /\ ~Live(s)
                    /\ rc[o] = 0
                    /\ h' = [h EXCEPT ![s] = o]
                    /\ rc' = [rc EXCEPT ![o] = 1]
                    /\ UNCHANGED <<cls, ext, flawed>>

(* Mutant: the copy is not counted.                                         *)
CopyCtorUncounted(s, t) == /\ Has("copy")
                           /\ ~Live(s)
                           /\ Live(t)
                           /\ h' = [h EXCEPT ![s] = h[t]]
                           /\ UNCHANGED <<cls, rc, ext, flawed>>

CopyCtor(s, t) == /\ Has("copy")
                  /\ ~Live(s)
                  /\ Live(t)
                  /\ h' = [h EXCEPT ![s] = h[t]]
                  /\ rc' = AddRef(rc, h[t])
                  /\ UNCHANGED <<cls, ext, flawed>>

MoveCtor(s, t) == /\ cls # "engine"
                  /\ ~Live(s)
                  /\ Live(t)
                  /\ h' = [h EXCEPT ![s] = h[t], ![t] = Null]
                  /\ UNCHANGED <<cls, rc, ext, flawed>>

(* script_engine's move constructor initialises m_engine from m_engine      *)
(* itself and never looks at its argument: the value is indeterminate.      *)
EngineMoveCtor(s, t) == /\ cls = "engine"
                        /\ ~Live(s)
                        /\ Live(t)
                        /\ \E junk \in Objects \cup {Null} :
                              h' = [h EXCEPT ![s] = junk]
                        /\ flawed' = TRUE
                        /\ UNCHANGED <<cls, rc, ext>>

(* Mutant: the destructor forgets the handle.                               *)
DtorForgetting(s) == /\ Live(s)
                     /\ h' = [h EXCEPT ![s] = Absent]
                     /\ UNCHANGED <<cls, rc, ext, flawed>>

Dtor(s) == /\ Live(s)
           /\ rc' = Release(rc, h[s])
           /\ h' = [h EXCEPT ![s] = Absent]
           /\ UNCHANGED <<cls, ext, flawed>>

-----------------------------------------------------------------------------
(* Assignment.                                                              *)

CopyAssign(s, t) ==
    /\ Has("copy")
    /\ Live(s)
    /\ Live(t)
    /\ s # t                            \* self-assignment returns at once
    /\ rc' = AddRef(Release(rc, h[s]), h[t])
    /\ h' = [h EXCEPT ![s] = h[t]]
    /\ UNCHANGED <<cls, ext, flawed>>

(* Mutant: the handle assigned over is not released.                        *)
MoveAssignOver(s, t) ==
    /\ Has("move_assign")
    /\ cls # "typeinfo"
    /\ Live(s)
    /\ Live(t)
    /\ s # t
    /\ h' = [h EXCEPT ![s] = h[t], ![t] = Null]
    /\ UNCHANGED <<cls, rc, ext, flawed>>

(* script_typeinfo resets to other.release() with the overload that counts  *)
(* the handle again; the other classes adopt it.                            *)
MoveAssign(s, t) ==
    /\ Has("move_assign")
    /\ cls # "typeinfo"
    /\ Live(s)
    /\ Live(t)
    /\ s # t                            \* self-move leaves the helper alone
    /\ rc' = Release(rc, h[s])
    /\ h' = [h EXCEPT ![s] = h[t], ![t] = Null]
    /\ UNCHANGED <<cls, ext, flawed>>

TypeinfoMoveAssign(s, t) ==
    /\ cls = "typeinfo"
    /\ Live(s)
    /\ Live(t)
    /\ s # t
    /\ h[t] # Null => rc[h[t]] < MaxCount
    /\ rc' = AddRef(Release(rc, h[s]), h[t])
    /\ h' = [h EXCEPT ![s] = h[t], ![t] = Null]
    /\ flawed' = (flawed \/ h[t] # Null)
    /\ UNCHANGED <<cls, ext>>

-----------------------------------------------------------------------------
(* release, reset and swap.                                                 *)

ReleaseHandle(s) == /\ Has("release")
                    /\ Live(s)
                    /\ Room(h[s])
                    /\ ext' = HandOut(h[s])
                    /\ h' = [h EXCEPT ![s] = Null]
                    /\ UNCHANGED <<cls, rc, flawed>>

ResetNull(s) == /\ Live(s)
                /\ rc' = Release(rc, h[s])
                /\ h' = [h EXCEPT ![s] = Null]
                /\ UNCHANGED <<cls, ext, flawed>>

ResetHandle(s, o) == /\ Has("reset_handle")
                     /\ Live(s)
                     /\ Kept(o, s)
                     /\ rc' = AddRef(Release(rc, h[s]), o)
                     /\ h' = [h EXCEPT ![s] = o]
                     /\ UNCHANGED <<cls, ext, flawed>>

(* Mutant: a handle the application does not own is adopted.                *)
ResetAdoptKept(s, o) == /\ Has("reset_adopt")
                        /\ Live(s)
                        /\ Kept(o, s)
                        /\ rc' = Release(rc, h[s])
                        /\ h' = [h EXCEPT ![s] = o]
                        /\ ext' = TakeOver(o)
                        /\ UNCHANGED <<cls, flawed>>

ResetAdopt(s, o) == /\ Has("reset_adopt")
                    /\ Live(s)
                    /\ Owned(o)
                    /\ rc' = Release(rc, h[s])
                    /\ h' = [h EXCEPT ![s] = o]
                    /\ ext' = TakeOver(o)
                    /\ UNCHANGED <<cls, flawed>>

(* lockable_shared_bool: the flag is kept alive by the object it belongs    *)
(* to; no type information, or no flag, resets the helper.                  *)
ConnectObject(s, o) == /\ Has("connect_object")
                       /\ Live(s)
                       /\ Owned(o)
                       /\ rc' = AddRef(Release(rc, h[s]), o)
                       /\ h' = [h EXCEPT ![s] = o]
                       /\ UNCHANGED <<cls, ext, flawed>>

Swap(s, t) == /\ Has("swap")
              /\ Live(s)
              /\ Live(t)
              /\ h' = [h EXCEPT ![s] = h[t], ![t] = h[s]]
              /\ UNCHANGED <<cls, rc, ext, flawed>>

-----------------------------------------------------------------------------
(* The application, which uses the engine's own interface.                  *)

ExtCreate(o) == /\ rc[o] = 0
                /\ rc' = [rc EXCEPT ![o] = 1]
                /\ ext' = [ext EXCEPT ![o] = 1]
                /\ UNCHANGED <<cls, h, flawed>>

ExtAddRef(o) == /\ ext[o] > 0 \/ \E s \in Slots : h[s] = o
                /\ ext[o] < MaxExt
                /\ rc' = AddRef(rc, o)
                /\ ext' = [ext EXCEPT ![o] = @ + 1]
                /\ UNCHANGED <<cls, h, flawed>>

ExtRelease(o) == /\ ext[o] > 0
                 /\ rc' = Release(rc, o)
                 /\ ext' = [ext EXCEPT ![o] = @ - 1]
                 /\ UNCHANGED <<cls, h, flawed>>

-----------------------------------------------------------------------------
OneSlot(s) == DefaultCtor(s) \/ Dtor(s) \/ ReleaseHandle(s) \/ ResetNull(s)

SlotAndHandle(s, o) ==
    HandleCtor(s, o) \/ AdoptCtor(s, o) \/ ResetHandle(s, o)
        \/ ResetAdopt(s, o) \/ ConnectObject(s, o)

TwoSlots(s, t) ==
    CopyCtor(s, t) \/ MoveCtor(s, t) \/ EngineMoveCtor(s, t)
        \/ CopyAssign(s, t) \/ MoveAssign(s, t)
        \/ TypeinfoMoveAssign(s, t) \/ Swap(s, t)

Application(o) == ExtCreate(o) \/ ExtAddRef(o) \/ ExtRelease(o)

Next == \/ \E s \in Slots : OneSlot(s)
        \/ \E s \in Slots, o \in Objects \cup {Null} : SlotAndHandle(s, o)
        \/ \E s \in Slots, o \in Objects : CreateCtor(s, o)
        \/ \E s, t \in Slots : TwoSlots(s, t)
        \/ \E o \in Objects : Application(o)

Spec == Init /\ [][Next]_vars

-----------------------------------------------------------------------------
(* Properties.                                                              *)

TypeOK == /\ cls \in Classes
          /\ h \in [Slots -> Objects \cup {Null, Absent}]
          /\ rc \in [Objects -> Nat \cup {Corrupt}]
          /\ ext \in [Objects -> 0..MaxExt]
          /\ flawed \in BOOLEAN

OwnersIn(hh, o) == { s \in Slots : hh[s] = o }

(* The references to an object that exist at all.                           *)
References(o) == ext[o] + Cardinality(OwnersIn(h, o))

(***************************************************************************)
(* No use after destruction: an object's counter covers every reference to *)
(* it, so no helper and no reference of the application outlives it and no *)
(* AddRef or Release reaches a destroyed object.  About every operation of *)
(* the six classes but the move constructor of script_engine.              *)
(***************************************************************************)
Covered ==
    (cls = "engine" => ~flawed) => \A o \in Objects : rc[o] >= References(o)

(***************************************************************************)
(* No leak: a counter is never higher than the references that exist, so   *)
(* the object goes when the last of them does.  About every operation but  *)
(* the two flawed moves.                                                   *)
(***************************************************************************)
NoLeak == ~flawed => \A o \in Objects : rc[o] <= References(o)

(***************************************************************************)
(* The helpers implement shared ownership: objects live exactly while they *)
(* are referred to.  About every operation but the two flawed moves,       *)
(* against module Ownership.                                               *)
(***************************************************************************)
Shared == INSTANCE Ownership WITH alive <- { o \in Objects : rc[o] > 0 }

SharedOwnership ==
    Shared!Init /\ [][flawed' \/ Shared!Next]_<<h, ext, rc>>

(***************************************************************************)
(* "RAII helper for asITypeInfo*" (memory.hpp): the type information goes  *)
(* with its last helper.  Broken by move assignment, which counts the      *)
(* handle it takes over once more.                                         *)
(***************************************************************************)
TypeinfoIsRAII ==
    cls = "typeinfo" => \A o \in Objects : References(o) = 0 => rc[o] = 0

(***************************************************************************)
(* "Script engine manager" (memory.hpp): an engine that is managed exists. *)
(* Broken by the move constructor, which takes an indeterminate handle and *)
(* leaves the source as it is.                                             *)
(***************************************************************************)
EngineIsManaged ==
    cls = "engine" => \A s \in Slots : h[s] \in Objects => rc[h[s]] > 0
=============================================================================
