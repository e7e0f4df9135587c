----------------------------- MODULE ObjectVector -----------------------------
(***************************************************************************)
(* container::small_vector for elements that are script objects or         *)
(* handles: class impl_object of container/small_vector.hpp, which owns a  *)
(* reference for each element.                                             *)
(*                                                                         *)
(* The buffer, its growth and the positions out of range are those of      *)
(* impl_storage (module SmallVector).  Here a vector is its sequence of    *)
(* pointers, and the operations are the calls to the engine that create,   *)
(* copy, add and release references, each of which may run a script that   *)
(* raises an exception and give no object.  Scripts that change the vector *)
(* whose operation called them are left out: nothing in the code expects   *)
(* them.                                                                   *)
(***************************************************************************)
EXTENDS Integers, FiniteSets, SequencesExt

CONSTANTS
    Vecs,       \* storage for vectors
    Objects,    \* identities (addresses) of script objects
    Null,       \* the null pointer
    Wild,       \* a pointer that is not to an object
    Absent,     \* no vector is constructed in this storage
    MaxSize,    \* bound: elements per vector
    MaxExt      \* bound: references per object outside vectors

Kinds == {"value", "ref", "handle"}

ASSUME PointersAssumption == /\ Null \notin Objects /\ Wild \notin Objects
                             /\ Null # Wild
ASSUME AbsentAssumption == Absent \notin Seq(Objects \cup {Null, Wild})
ASSUME VecsAssumption == IsFiniteSet(Vecs)
ASSUME BoundsAssumption == MaxSize \in Nat /\ MaxExt \in Nat \ {0}

VARIABLES
    kind,       \* the element type: value or reference type, or a handle
    vec,        \* each vector's elements
    rc,         \* the counter of each object; 0: does not exist
    ext,        \* references that are not elements: variables, other lists
    out,        \* how the last call ended
    flaw        \* history: the first call that miscounted

vars == <<kind, vec, rc, ext, out, flaw>>

IsHandle == kind = "handle"

Live(v) == vec[v] # Absent

Size(v) == Len(vec[v])

(***************************************************************************)
(* References.                                                             *)
(***************************************************************************)
Corrupt == -1

Occurs(s, o) == Cardinality({ i \in DOMAIN s : s[i] = o })

(* AddRefScriptObject for each handle in s; a created object has one.       *)
Acquired(counts, s) ==
    [o \in Objects |->
        LET n == Occurs(s, o)
        IN  IF n = 0 THEN counts[o]
            ELSE IF IsHandle /\ counts[o] <= 0 THEN Corrupt
            ELSE counts[o] + n]

(* ReleaseScriptObject for each object in s that is not null.               *)
Released(counts, s) ==
    [o \in Objects |->
        LET n == Occurs(s, o)
        IN  IF n = 0 THEN counts[o]
            ELSE IF counts[o] < n THEN Corrupt
            ELSE counts[o] - n]

Free == { o \in Objects : rc[o] = 0 }

Distinct(s) == \A i, j \in DOMAIN s : i # j /\ s[i] = s[j] => s[i] = Null

(* n times CreateScriptObject or CreateScriptObjectCopy: the loop ends at   *)
(* the first that gives no object.                                          *)
Created(n) ==
    { s \in UNION { [1..k -> Free] : k \in 0..n } : Distinct(s) }

Repeated(n, a) == { [i \in 1..n |-> a] }

(* copy_obj: a handle is copied with a reference to its object, an object   *)
(* by its copy constructor.                                                 *)
Copies(n, a) == IF IsHandle THEN Repeated(n, a) ELSE Created(n)

Pointers == Objects \cup {Null}

HasElement(v, o) == Live(v) /\ o \in ToSet(vec[v])

(* What a handle that is passed in may hold.  It is passed by its address,  *)
(* which may be that of a slot: operator[] gives it.                        *)
Args == IF IsHandle
        THEN { o \in Objects : ext[o] > 0 \/ \E v \in Vecs : HasElement(v, o) } \cup {Null}
        ELSE {Null}

Init == /\ kind \in Kinds
        /\ vec = [v \in Vecs |-> Absent]
        /\ rc = [o \in Objects |-> 0]
        /\ ext = [o \in Objects |-> 0]
        /\ out = "ok"
        /\ flaw = "none"

Becomes(v, s) == vec' = [vec EXCEPT ![v] = s]

Ends(how) == out' = how

Flawed(what) == flaw' = IF flaw = "none" THEN what ELSE flaw

-----------------------------------------------------------------------------
(* Construction and destruction.                                            *)

Ctor(v) == /\ ~Live(v)
           /\ Becomes(v, <<>>)
           /\ Ends("ok")
           /\ UNCHANGED <<kind, rc, ext, flaw>>

(* from_ilist of values: a copy of each, and nobody looks whether it was    *)
(* made.                                                                    *)
CtorFromValues(v, s) ==
    /\ kind = "value"
    /\ ~Live(v)
    /\ s \in UNION { [1..n -> Free \cup {Null}] : n \in 1..MaxSize }
    /\ Distinct(s)
    /\ Becomes(v, s)
    /\ rc' = Acquired(rc, s)
    /\ Ends(IF Null \in ToSet(s) THEN "null" ELSE "ok")
    /\ UNCHANGED <<kind, ext, flaw>>

(* from_ilist of other elements: they change hands, and the list forgets    *)
(* them.  Objects in a list were made for it.                               *)
CtorAdopting(v, s) ==
    /\ kind # "value"
    /\ ~Live(v)
    /\ s \in UNION { [1..n -> Objects \cup {Null}] : n \in 1..MaxSize }
    /\ \A o \in ToSet(s) \ {Null} : ext[o] >= Occurs(s, o)
    /\ ~IsHandle => /\ Distinct(s) /\ Null \notin ToSet(s)
                    /\ \A o \in ToSet(s) : rc[o] = 1
    /\ Becomes(v, s)
    /\ ext' = [o \in Objects |-> ext[o] - Occurs(s, o)]
    /\ Ends("ok")
    /\ UNCHANGED <<kind, rc, flaw>>

(* copy_from passes value_ref_at of each element: the other vector's object *)
(* itself, or the address of the other vector's slot.                       *)
CopyCtor(v, w) ==
    /\ ~Live(v)
    /\ Live(w)
    /\ Becomes(v, IF IsHandle THEN [i \in DOMAIN vec[w] |-> Wild] ELSE vec[w])
    /\ Ends("ok")
    /\ IF vec[w] = <<>> THEN UNCHANGED flaw ELSE Flawed("copy")
    /\ UNCHANGED <<kind, rc, ext>>

(* Mutant: the elements stay where they were, too.                          *)
MoveCtorKeeping(v, w) ==
    /\ ~Live(v)
    /\ Live(w)
    /\ Becomes(v, vec[w])
    /\ Ends("ok")
    /\ UNCHANGED <<kind, rc, ext, flaw>>

(* take_own leaves the other vector empty, whichever buffer it used.        *)
MoveCtor(v, w) ==
    /\ ~Live(v)
    /\ Live(w)
    /\ vec' = [vec EXCEPT ![v] = vec[w], ![w] = <<>>]
    /\ Ends("ok")
    /\ UNCHANGED <<kind, rc, ext, flaw>>

Dtor(v) == /\ Live(v)
           /\ Becomes(v, Absent)
           /\ rc' = Released(rc, vec[v])
           /\ Ends("ok")
           /\ UNCHANGED <<kind, ext, flaw>>

-----------------------------------------------------------------------------
(* More elements.                                                           *)

(* n elements are appended, or as many as could be made.                    *)
Appends(v, n, made) ==
    /\ Live(v)
    /\ Size(v) + n <= MaxSize
    /\ \E s \in made : /\ Becomes(v, vec[v] \o s)
                       /\ rc' = Acquired(rc, s)
                       /\ Ends(IF Len(s) = n THEN "ok" ELSE "exception")
    /\ UNCHANGED <<kind, ext, flaw>>

(* push_back, also from insert at the end, and push_back_n.                 *)
PushBackN(v, n, a) == Appends(v, n, Copies(n, a))

(* The same with the address of one of v's own slots and too little room:   *)
(* reserve frees the buffer with the slot, which is then read n times and   *)
(* shows anything.  Whether there is room is not in this module's state.    *)
PushBackFreed(v, n) ==
    /\ IsHandle
    /\ Live(v)
    /\ vec[v] # <<>>
    /\ Size(v) + n <= MaxSize
    /\ \E s \in [1..n -> Pointers \cup {Wild}] : /\ Becomes(v, vec[v] \o s)
                                                 /\ rc' = Acquired(rc, s)
    /\ Ends("ok")
    /\ Flawed("freed")
    /\ UNCHANGED <<kind, ext>>

(* Mutant: one element too many.                                            *)
EmplaceBackNPlusOne(v, n) ==
    /\ Live(v)
    /\ Size(v) + n <= MaxSize
    /\ \E s \in IF IsHandle THEN Repeated(n + 1, Null) ELSE Created(n + 1) :
          /\ Becomes(v, vec[v] \o s)
          /\ rc' = Acquired(rc, s)
    /\ Ends("ok")
    /\ UNCHANGED <<kind, ext, flaw>>

(* New handles are null.                                                    *)
EmplaceBackN(v, n) ==
    Appends(v, n, IF IsHandle THEN Repeated(n, Null) ELSE Created(n))

(* Mutant: room is made before the element is copied.                       *)
InsertOneEarly(v, where, a) ==
    /\ Live(v)
    /\ where < Size(v)
    /\ Size(v) < MaxSize
    /\ \E s \in Copies(1, a) :
          IF s = <<>>
          THEN /\ Becomes(v, InsertAt(vec[v], where + 1, Null))
               /\ Ends("exception")
               /\ UNCHANGED rc
          ELSE /\ Becomes(v, InsertAt(vec[v], where + 1, s[1]))
               /\ rc' = Acquired(rc, s)
               /\ Ends("ok")
    /\ UNCHANGED <<kind, ext, flaw>>

(* insert_one before the end; at the end it is push_back.  The argument is  *)
(* read before a new buffer takes the place of the old one.                 *)
InsertOne(v, where, a) ==
    /\ Live(v)
    /\ where < Size(v)
    /\ Size(v) < MaxSize
    /\ \E s \in Copies(1, a) :
          IF s = <<>>
          THEN UNCHANGED <<vec, rc>> /\ Ends("exception")
          ELSE /\ Becomes(v, InsertAt(vec[v], where + 1, s[1]))
               /\ rc' = Acquired(rc, s)
               /\ Ends("ok")
    /\ UNCHANGED <<kind, ext, flaw>>

(* The element is copied before the new buffer is allocated: when allocate  *)
(* throws, nobody has the copy.                                             *)
InsertOneNoMemory(v, where, a) ==
    /\ Live(v)
    /\ where < Size(v)
    /\ \E s \in Copies(1, a) \ {<<>>} : /\ rc' = Acquired(rc, s)
                                        /\ IF s = <<Null>> THEN UNCHANGED flaw
                                           ELSE Flawed("bad_alloc")
    /\ Ends("bad_alloc")
    /\ UNCHANGED <<kind, vec, ext>>

-----------------------------------------------------------------------------
(* Fewer elements.                                                          *)

Clear(v) == /\ Live(v)
            /\ Becomes(v, <<>>)
            /\ rc' = Released(rc, vec[v])
            /\ Ends("ok")
            /\ UNCHANGED <<kind, ext, flaw>>

PopBack(v) ==
    /\ Live(v)
    /\ vec[v] # <<>>
    /\ Becomes(v, Front(vec[v]))
    /\ rc' = Released(rc, <<Last(vec[v])>>)
    /\ Ends("ok")
    /\ UNCHANGED <<kind, ext, flaw>>

(* Mutant: the elements move over those that are erased.                    *)
EraseNForgetting(v, start, n) ==
    /\ Live(v)
    /\ start < Size(v)
    /\ LET k == IF Size(v) - start < n THEN Size(v) - start ELSE n
       IN  Becomes(v, SubSeq(vec[v], 1, start) \o SubSeq(vec[v], start + k + 1, Size(v)))
    /\ Ends("ok")
    /\ UNCHANGED <<kind, rc, ext, flaw>>

EraseN(v, start, n) ==
    /\ Live(v)
    /\ start < Size(v)
    /\ LET k == IF Size(v) - start < n THEN Size(v) - start ELSE n
       IN  /\ Becomes(v, SubSeq(vec[v], 1, start)
                            \o SubSeq(vec[v], start + k + 1, Size(v)))
           /\ rc' = Released(rc, SubSeq(vec[v], start + 1, start + k))
    /\ Ends("ok")
    /\ UNCHANGED <<kind, ext, flaw>>

(* resize is clear, erase_n or a loop that creates elements.                *)
Resize(v, n) ==
    /\ Live(v)
    /\ n # Size(v)
    /\ CASE n = 0 -> Clear(v)
         [] n \in 1..Size(v) -> EraseN(v, n, MaxSize)
         [] n > Size(v) -> EmplaceBackN(v, n - Size(v))

-----------------------------------------------------------------------------
(* Other elements, or another order.                                        *)

(* remove_one and reverse of impl_storage move pointers only.               *)
RemoveOne(v, where) ==
    /\ Live(v)
    /\ where < Size(v)
    /\ Becomes(v, Append(RemoveAt(vec[v], where + 1), vec[v][where + 1]))
    /\ Ends("ok")
    /\ UNCHANGED <<kind, rc, ext, flaw>>

ReverseN(v, start, n) ==
    /\ Live(v)
    /\ start < Size(v)
    /\ LET k == IF Size(v) - start < n THEN Size(v) - start ELSE n
       IN  Becomes(v, SubSeq(vec[v], 1, start)
                        \o Reverse(SubSeq(vec[v], start + 1, start + k))
                        \o SubSeq(vec[v], start + k + 1, Size(v)))
    /\ Ends("ok")
    /\ UNCHANGED <<kind, rc, ext, flaw>>

(* assign_obj of a handle: the old object is released first, and may have   *)
(* been the one that is assigned.                                           *)
AssignHandle(v, where, a) ==
    /\ IsHandle
    /\ Live(v)
    /\ where < Size(v)
    /\ LET old == vec[v][where + 1]
       IN  /\ rc' = Acquired(Released(rc, <<old>>), <<a>>)
           /\ IF a = old /\ a \in Objects /\ rc[a] = 1 THEN Flawed("assign")
                                                       ELSE UNCHANGED flaw
    /\ Becomes(v, ReplaceAt(vec[v], where + 1, a))
    /\ Ends("ok")
    /\ UNCHANGED <<kind, ext>>

(* assign_obj of an object: it is assigned to, which may raise an           *)
(* exception, or created where none is.                                     *)
AssignObject(v, where) ==
    /\ ~IsHandle
    /\ Live(v)
    /\ where < Size(v)
    /\ IF vec[v][where + 1] # Null
       THEN UNCHANGED <<vec, rc>> /\ out' \in {"ok", "exception"}
       ELSE \E s \in Created(1) :
               IF s = <<>> THEN UNCHANGED <<vec, rc>> /\ Ends("exception")
               ELSE /\ Becomes(v, ReplaceAt(vec[v], where + 1, s[1]))
                    /\ rc' = Acquired(rc, s)
                    /\ Ends("ok")
    /\ UNCHANGED <<kind, ext, flaw>>

-----------------------------------------------------------------------------
(* References outside the vectors.                                          *)

ExtCreate(o) == /\ rc[o] = 0
                /\ rc' = [rc EXCEPT ![o] = 1]
                /\ ext' = [ext EXCEPT ![o] = 1]
                /\ UNCHANGED <<kind, vec, out, flaw>>

(* A script takes a handle to an element or to another object.              *)
ExtAddRef(o) == /\ kind # "value"
                /\ rc[o] > 0
                /\ ext[o] < MaxExt
                /\ rc' = [rc EXCEPT ![o] = @ + 1]
                /\ ext' = [ext EXCEPT ![o] = @ + 1]
                /\ UNCHANGED <<kind, vec, out, flaw>>

ExtRelease(o) == /\ ext[o] > 0
                 /\ rc' = Released(rc, <<o>>)
                 /\ ext' = [ext EXCEPT ![o] = @ - 1]
                 /\ UNCHANGED <<kind, vec, out, flaw>>

-----------------------------------------------------------------------------
Positions == 0..MaxSize - 1

Lists == UNION { [1..n -> Pointers] : n \in 1..MaxSize }

Constructs(v) == \/ Ctor(v)
                 \/ \E s \in Lists : CtorFromValues(v, s) \/ CtorAdopting(v, s)
                 \/ \E w \in Vecs : CopyCtor(v, w) \/ MoveCtor(v, w)

Grows(v) == \/ \E n \in 1..MaxSize, a \in Args : PushBackN(v, n, a)
            \/ \E n \in 1..MaxSize : PushBackFreed(v, n)
            \/ \E n \in 1..MaxSize : EmplaceBackN(v, n)
            \/ \E where \in Positions, a \in Args :
                  InsertOne(v, where, a) \/ InsertOneNoMemory(v, where, a)

Shrinks(v) == \/ Dtor(v) \/ Clear(v) \/ PopBack(v)
              \/ \E where, n \in Positions : EraseN(v, where, n + 1)
              \/ \E n \in 0..MaxSize : Resize(v, n)

Edits(v) == \E where \in Positions :
               \/ RemoveOne(v, where)
               \/ \E n \in Positions : ReverseN(v, where, n + 1)
               \/ AssignObject(v, where)
               \/ \E a \in Args : AssignHandle(v, where, a)

Outside(o) == ExtCreate(o) \/ ExtAddRef(o) \/ ExtRelease(o)

Next == \/ \E v \in Vecs : Constructs(v) \/ Grows(v) \/ Shrinks(v) \/ Edits(v)
        \/ \E o \in Objects : Outside(o)

Spec == Init /\ [][Next]_vars

-----------------------------------------------------------------------------
(* Properties.                                                              *)

TypeOK == /\ kind \in Kinds
          /\ \A v \in Vecs : Live(v) => /\ Size(v) <= MaxSize
                                        /\ ToSet(vec[v]) \subseteq Pointers \cup {Wild}
          /\ rc \in [Objects -> Nat \cup {Corrupt}]
          /\ ext \in [Objects -> 0..MaxExt]
          /\ flaw \in {"none", "copy", "assign", "bad_alloc", "freed"}

(* Where the vectors have o.                                                *)
Places(o) ==
    UNION { {v} \X { i \in DOMAIN vec[v] : vec[v][i] = o } : v \in { x \in Vecs : Live(x) } }

Elements(o) == Cardinality(Places(o))

(* Every element is an object with a reference of its own, and there are no *)
(* other references.                                                        *)
OwnsElements ==
    \A o \in Objects : rc[o] = ext[o] + Elements(o)

(***************************************************************************)
(* Vectors own a reference for each element, exactly, whichever creation   *)
(* or copy a script exception stopped: no element is used or released      *)
(* after its object is gone, none is forgotten.  About every operation but *)
(* four: the copy of a vector, the assignment of a handle to itself,       *)
(* insert_one without memory, and push_back of an own slot when it frees   *)
(* the buffer with the slot.                                               *)
(***************************************************************************)
Counted == flaw = "none" => OwnsElements

(***************************************************************************)
(* Elements that are not handles have an object each: it is an element     *)
(* once and of one vector, however vectors were filled and moved.          *)
(***************************************************************************)
Separate ==
    ~IsHandle /\ flaw = "none" =>
       \A o \in Objects : Elements(o) <= 1

(***************************************************************************)
(* A script exception costs no element: what the vectors had is a prefix   *)
(* of what they have, and what was added is objects, not null pointers.    *)
(* About the early ends of push_back, emplace_back, insert, resize and     *)
(* their loops.                                                            *)
(***************************************************************************)
ExceptionsKeepElements ==
    [][ out' = "exception" /\ flaw' = "none" => \A v \in Vecs :
          Live(v) => /\ IsPrefix(vec[v], vec'[v])
                     /\ \A i \in Size(v) + 1..Len(vec'[v]) : vec'[v][i] # Null ]_vars

(***************************************************************************)
(* "Most members have the same meaning as member functions of the same     *)
(* name in std::vector" (small_vector.hpp:98): a copy has elements of its  *)
(* own.  Broken by copy_from.                                              *)
(***************************************************************************)
CopiesOwnElements == flaw \in {"none", "copy"} => OwnsElements

(***************************************************************************)
(* By the same line, an element may be assigned to itself.  Broken by      *)
(* assign_obj when the element is the last reference to its object.        *)
(***************************************************************************)
SelfAssignmentIsHarmless == flaw \in {"none", "assign"} => OwnsElements

(***************************************************************************)
(* By the same line, an element may be pushed back again.  Broken by       *)
(* push_back, which calls reserve before it looks at its argument.         *)
(***************************************************************************)
OwnHandleMayBePushed == flaw \in {"none", "freed"} => OwnsElements
=============================================================================
