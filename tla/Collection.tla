------------------------------ MODULE Collection ------------------------------
(***************************************************************************)
(* Objects from their creation by a generated function to their            *)
(* destruction, by counting or by AngelScript's collector.  Containers are *)
(* collected objects that store a handle in a container::single, as those  *)
(* of test/test_gc do; Scripts are objects of a script class with a member *)
(* that is a handle; Values are objects of a value type.  A handle in a    *)
(* container refers to a script object, and the other way round, so there  *)
(* are cycles.                                                             *)
(*                                                                         *)
(* The collector is AngelScript's, and works step by step between the      *)
(* steps of scripts: what it asks of objects (set and get the flag, the    *)
(* counter, enumerate and release references) is what doc/advanced/gc.rst  *)
(* says; the rest of it is external.                                       *)
(***************************************************************************)
EXTENDS Construction, Integers, FiniteSets

CONSTANTS Containers, Scripts, Values,  \* objects that may be created
          Vars,                         \* handles in script variables
          Null

ASSUME CollectionAssumption ==
  /\ IsFiniteSet(Containers \cup Scripts) /\ IsFiniteSet(Vars)
  /\ Containers \cap Scripts = {} /\ Values \cap (Containers \cup Scripts) = {}
  /\ Null \notin Containers \cup Scripts \cup Values

Handled == Containers \cup Scripts
Objects == Handled \cup Values

VARIABLES
  life,   \* "unborn", "live", "dead", or "twice" when destroyed again
  rc,     \* counters
  flag,   \* the flag of the collector
  data,   \* the handle stored in an object
  gcType, \* has the type of the container the flag asOBJ_GC?
  var,    \* handles in script variables
  owned,  \* values that AngelScript will destroy
  call,   \* the generated function that runs
  lost,   \* kinds of functions whose object was left alone
  known,  \* objects the collector knows, each with a reference of its own
  gc      \* the collector's work

heap == [life |-> life, rc |-> rc, flag |-> flag, data |-> data]
vars == <<life, rc, flag, data, gcType, var, owned, call, lost, known, gc>>

NoCall == [obj |-> Null, g |-> Null, ti |-> "null", rest |-> <<>>, ex |-> FALSE]
Idle == [phase |-> "idle", todo |-> {}, suspects |-> {}, count |-> [o \in Handled |-> 0]]

Init ==
  /\ life = [o \in Objects |-> "unborn"]
  /\ rc = [o \in Handled |-> 0]
  /\ flag = [o \in Handled |-> FALSE]
  /\ data = [o \in Handled |-> Null]
  /\ gcType = [c \in Containers |-> FALSE]
  /\ var = [x \in Vars |-> Null]
  /\ owned = {} /\ lost = {} /\ known = {}
  /\ call = NoCall
  /\ gc = Idle

SetHeap(h) == life' = h.life /\ rc' = h.rc /\ flag' = h.flag /\ data' = h.data

(***************************************************************************)
(* Counting.                                                               *)
(***************************************************************************)
\* Mutant: the flag stays.
addrefMutant(h, o) == [h EXCEPT !.rc[o] = @ + 1]

addref(h, o) == [h EXCEPT !.rc[o] = @ + 1, !.flag[o] = FALSE]

Dying(l) == IF l = "live" THEN "dead" ELSE "twice"

\* D holds o if it loses its last reference, and each object that loses it when
\* the destructor of another one in D releases a handle.
Settled(h, o, D) ==
  /\ h.rc[o] = 1 => o \in D
  /\ \A q \in D : h.data[q] # Null /\ h.rc[h.data[q]] = 1 => h.data[q] \in D

\* The objects that go when a reference to o is released: no more than those.
Doomed(h, o) ==
  {p \in Handled : \A D \in SUBSET Handled : Settled(h, o, D) => p \in D}

\* release: atomic_counter::dec_and_try_delete, the destructor, and the
\* release of the handle it stores, from one object to the next
release(h, o) ==
  LET doomed == Doomed(h, o)
  IN  [life |-> [p \in Objects |-> IF p \in doomed THEN Dying(h.life[p]) ELSE h.life[p]],
       rc |-> [p \in Handled |-> h.rc[p] - Cardinality({q \in doomed : h.data[q] = p})
                                         - (IF p = o THEN 1 ELSE 0)],
       flag |-> h.flag,
       data |-> [p \in Handled |-> IF p \in doomed THEN Null ELSE h.data[p]]]

AddRefScriptObject(h, o) == IF o = Null THEN h ELSE addref(h, o)
ReleaseScriptObject(h, o) == IF o = Null THEN h ELSE release(h, o)

(***************************************************************************)
(* container::single with handles.                                         *)
(***************************************************************************)
copy_construct(h, c, handle) == AddRefScriptObject([h EXCEPT !.data[c] = handle], handle)

\* Mutant: the handle that is overwritten keeps its reference.
copy_assign_fromMutant(h, c, handle) ==
  AddRefScriptObject([h EXCEPT !.data[c] = handle], handle)

\* the old object is released first
copy_assign_from(h, c, handle) ==
  LET released == ReleaseScriptObject(h, h.data[c])
  IN  AddRefScriptObject([released EXCEPT !.data[c] = handle], handle)

\* out is the handle in a variable
copy_assign_to(h, c, out) ==
  AddRefScriptObject(ReleaseScriptObject(h, out), h.data[c])

\* Mutant: the handle is released and kept.
destroyMutant(h, c) == IF h.data[c] = Null THEN h ELSE release(h, h.data[c])

destroy(h, c) ==
  IF h.data[c] = Null THEN h ELSE [release(h, h.data[c]) EXCEPT !.data[c] = Null]

\* Mutant: nothing is enumerated
enum_refsMutant(c) == {}

\* what a container tells the collector; null is told, too, and ignored there
enum_refs(c) == {data[c]} \ {Null}

(***************************************************************************)
(* A generated function creates an object.                                 *)
(***************************************************************************)
\* (A handle needs a variable to be returned to.  A behaviour is about values
\* or about handles, which have nothing to do with each other.)
Begin(g, o) ==
  /\ call = NoCall /\ life[o] = "unborn"
  /\ o \in Containers => /\ \E x \in Vars : var[x] = Null
                        /\ \A v \in Values : life[v] = "unborn"
  /\ o \in Values => \A p \in Handled : life[p] = "unborn"
  /\ (o \in Values) = (g.kind \in ValueKinds)
  /\ o \in Containers =>
       \E collected \in BOOLEAN :
         /\ ~g.notify => ~collected
         /\ g.notify /\ ~g.template => collected
         /\ gcType' = [gcType EXCEPT ![o] = collected]
  /\ o \in Values => UNCHANGED gcType
  /\ \E generic \in BOOLEAN :
       call' = [obj |-> o, g |-> g, rest |-> Steps(g), ex |-> FALSE,
                ti |-> TypeInfoOf(g, generic)]
  /\ UNCHANGED <<life, rc, flag, data, var, owned, lost, known, gc>>

NextStep(step) == call.rest # <<>> /\ Head(call.rest) = step
Done == call' = [call EXCEPT !.rest = Tail(@)]

\* The constructor runs, and may leave a script exception behind.
New ==
  /\ NextStep("new")
  /\ \E ex \in BOOLEAN : call' = [call EXCEPT !.rest = Tail(@), !.ex = ex]
  /\ life' = [life EXCEPT ![call.obj] = "live"]
  /\ rc' = [o \in Handled |-> IF o = call.obj THEN 1 ELSE rc[o]]
  /\ UNCHANGED <<flag, data, gcType, var, owned, lost, known, gc>>

\* ctor_ex_guard
destroy_if_ex ==
  /\ NextStep("destroy_if_ex")
  /\ life' = IF call.ex THEN [life EXCEPT ![call.obj] = Dying(@)] ELSE life
  /\ Done
  /\ UNCHANGED <<rc, flag, data, gcType, var, owned, lost, known, gc>>

\* the factory deletes the object and returns null
delete_if_ex ==
  /\ NextStep("delete_if_ex")
  /\ IF call.ex
     THEN /\ SetHeap([heap EXCEPT !.life[call.obj] = Dying(@), !.rc[call.obj] = 0])
          /\ call' = NoCall
     ELSE Done /\ UNCHANGED <<life, rc, flag, data>>
  /\ UNCHANGED <<gcType, var, owned, lost, known, gc>>

NotifyGarbageCollectorOfNewObject(o) ==
  known' = known \cup {o} /\ SetHeap(addref(heap, o))

Notify ==
  /\ \/ NextStep("notify_gc")
     \/ NextStep("notify_gc_if_necessary")
  /\ LET told == IF NextStep("notify_gc")
                 THEN notify_gc(call.g, call.ti, gcType[call.obj])
                 ELSE notify_gc_if_necessary(call.g, call.ti, gcType[call.obj])
     IN  IF told THEN NotifyGarbageCollectorOfNewObject(call.obj)
                 ELSE UNCHANGED <<known, life, rc, flag, data>>
  /\ Done
  /\ UNCHANGED <<gcType, var, owned, lost, gc>>

\* AngelScript never destroys a value whose constructor raised an exception,
\* and drops a handle that a factory returned with one (external).
Return ==
  /\ call # NoCall /\ call.rest = <<>>
  /\ LET o == call.obj
     IN  \/ /\ o \in Values
            /\ owned' = IF call.ex THEN owned ELSE owned \cup {o}
            /\ lost' = IF call.ex /\ life[o] = "live" THEN lost \cup {call.g.kind} ELSE lost
            /\ UNCHANGED <<life, rc, flag, data, var>>
         \/ /\ o \in Handled /\ call.ex
            /\ SetHeap(release(heap, o))
            /\ UNCHANGED <<var, owned, lost>>
         \/ /\ o \in Handled /\ ~call.ex
            /\ \E x \in Vars : var[x] = Null /\ var' = [var EXCEPT ![x] = o]
            /\ UNCHANGED <<life, rc, flag, data, owned, lost>>
  /\ call' = NoCall
  /\ UNCHANGED <<gcType, known, gc>>

(***************************************************************************)
(* Scripts.  Between the steps of a generated function no script runs but  *)
(* those of constructors, which do not touch what is modelled here.        *)
(***************************************************************************)

\* an object of a script class; the collector knows it from the start
CreateScriptObject(o) ==
  /\ call = NoCall /\ life[o] = "unborn"
  /\ \A v \in Values : life[v] = "unborn"
  /\ \E x \in Vars : var[x] = Null /\ var' = [var EXCEPT ![x] = o]
  /\ known' = known \cup {o}
  /\ life' = [life EXCEPT ![o] = "live"]
  /\ rc' = [rc EXCEPT ![o] = 2]
  /\ UNCHANGED <<flag, data, gcType, owned, call, lost, gc>>

\* @x = @y; or, when y holds nothing, @x = null;
AssignVariable(x, y) ==
  /\ call = NoCall /\ x # y
  /\ SetHeap(ReleaseScriptObject(AddRefScriptObject(heap, var[y]), var[x]))
  /\ var' = [var EXCEPT ![x] = var[y]]
  /\ UNCHANGED <<gcType, owned, call, lost, known, gc>>

LeaveScope(x) ==
  /\ call = NoCall /\ var[x] # Null
  /\ SetHeap(ReleaseScriptObject(heap, var[x]))
  /\ var' = [var EXCEPT ![x] = Null]
  /\ UNCHANGED <<gcType, owned, call, lost, known, gc>>

LeaveValue(v) ==
  /\ call = NoCall /\ v \in owned
  /\ life' = [life EXCEPT ![v] = Dying(@)]
  /\ owned' = owned \ {v}
  /\ UNCHANGED <<rc, flag, data, gcType, var, call, lost, known, gc>>

\* copy(), which stores the handle of y in the container of x, or assigns the
\* member of a script object
Store(x, y) ==
  /\ call = NoCall
  /\ \/ /\ var[x] \in Containers /\ gcType[var[x]] /\ var[y] \in Scripts \cup {Null}
        /\ SetHeap(IF data[var[x]] = Null THEN copy_construct(heap, var[x], var[y])
                                          ELSE copy_assign_from(heap, var[x], var[y]))
     \/ /\ var[x] \in Scripts /\ var[y] \in Containers \cup {Null}
        /\ SetHeap([ReleaseScriptObject(AddRefScriptObject(heap, var[y]), data[var[x]])
                      EXCEPT !.data[var[x]] = var[y]])
  /\ UNCHANGED <<gcType, var, owned, call, lost, known, gc>>

\* get_var(), or reading the member
Load(x, y) ==
  /\ call = NoCall /\ x # y /\ var[x] \in Handled /\ data[var[x]] # Null
  /\ SetHeap(copy_assign_to(heap, var[x], var[y]))
  /\ var' = [var EXCEPT ![y] = data[var[x]]]
  /\ UNCHANGED <<gcType, owned, call, lost, known, gc>>

Script ==
  \/ \E g \in Creations, o \in Containers \cup Values : Begin(g, o)
  \/ New \/ destroy_if_ex \/ delete_if_ex \/ Notify \/ Return
  \/ \E o \in Scripts : CreateScriptObject(o)
  \/ \E x, y \in Vars : AssignVariable(x, y) \/ Store(x, y) \/ Load(x, y)
  \/ \E x \in Vars : LeaveScope(x)
  \/ \E v \in Values : LeaveValue(v)

(***************************************************************************)
(* The collector (external).                                               *)
(***************************************************************************)
StartCycle ==
  /\ gc.phase = "idle" /\ known # {}
  /\ gc' = [Idle EXCEPT !.phase = "flag", !.todo = known]
  /\ UNCHANGED <<life, rc, flag, data, known>>

\* get_refcount and set_gc_flag; the collector's own reference does not count
SetFlag(o) ==
  /\ gc.phase = "flag" /\ o \in gc.todo
  /\ gc' = [gc EXCEPT !.todo = @ \ {o}, !.suspects = @ \cup {o}, !.count[o] = rc[o] - 1]
  /\ flag' = [flag EXCEPT ![o] = TRUE]
  /\ UNCHANGED <<life, rc, data, known>>

\* the references of objects that nobody touched are subtracted
CountReferences(o) ==
  /\ gc.phase = "count" /\ o \in gc.todo
  /\ gc' = [gc EXCEPT !.todo = @ \ {o},
                      !.count = [p \in Handled |->
                        IF flag[o] /\ p \in gc.suspects \cap enum_refs(o)
                        THEN gc.count[p] - 1 ELSE gc.count[p]]]
  /\ UNCHANGED <<life, rc, flag, data, known>>

\* a reference from elsewhere, or touched since it was flagged
SurelyLive(o) == gc.count[o] > 0 \/ ~flag[o]

FindLive(o) ==
  /\ gc.phase = "trace" /\ o \in gc.suspects /\ SurelyLive(o)
  /\ gc' = [gc EXCEPT !.suspects = @ \ {o}, !.todo = @ \cup {o}]
  /\ UNCHANGED <<life, rc, flag, data, known>>

TraceLive(o) ==
  /\ gc.phase = "trace" /\ o \in gc.todo
  /\ LET found == enum_refs(o) \cap gc.suspects
     IN  gc' = [gc EXCEPT !.suspects = @ \ found, !.todo = (@ \ {o}) \cup found]
  /\ UNCHANGED <<life, rc, flag, data, known>>

\* release_refs forces the destruction
BreakCycle(o) ==
  /\ gc.phase = "break" /\ o \in gc.suspects
  /\ gc' = [gc EXCEPT !.suspects = @ \ {o}]
  /\ SetHeap(destroy(heap, o))
  /\ UNCHANGED known

\* what only the collector refers to
DestroyGarbage(o) ==
  /\ gc.phase = "destroy" /\ o \in gc.todo
  /\ gc' = [gc EXCEPT !.todo = @ \ {o}]
  /\ IF rc[o] = 1 THEN known' = known \ {o} /\ SetHeap(release(heap, o))
                  ELSE UNCHANGED <<life, rc, flag, data, known>>

\* (Flags are set before they are read again: clearing them once they have been
\* read only identifies states.)
NextPhase ==
  /\ \/ /\ gc.phase = "flag" /\ gc.todo = {}
        /\ gc' = [gc EXCEPT !.phase = "count", !.todo = gc.suspects]
     \/ /\ gc.phase = "count" /\ gc.todo = {}
        /\ gc' = [gc EXCEPT !.phase = "trace"]
     \/ /\ gc.phase = "trace" /\ gc.todo = {} /\ \A o \in gc.suspects : ~SurelyLive(o)
        /\ gc' = [gc EXCEPT !.phase = "break", !.count = Idle.count]
     \/ /\ gc.phase = "break" /\ gc.suspects = {}
        /\ gc' = [gc EXCEPT !.phase = "destroy", !.todo = known]
     \/ /\ gc.phase = "destroy" /\ gc.todo = {}
        /\ gc' = Idle
  /\ flag' = IF gc'.phase = "break" THEN [o \in Handled |-> FALSE] ELSE flag
  /\ UNCHANGED <<life, rc, data, known>>

Collector ==
  /\ \/ StartCycle \/ NextPhase
     \/ \E o \in Handled : \/ SetFlag(o) \/ CountReferences(o) \/ FindLive(o)
                           \/ TraceLive(o) \/ BreakCycle(o) \/ DestroyGarbage(o)
  /\ UNCHANGED <<gcType, var, owned, call, lost>>

Next == Script \/ Collector

Spec == Init /\ [][Next]_vars

\* AngelScript collects as it goes (automatically, or GarbageCollect is called
\* again and again, as test/test_gc does); scripts need not do anything.
FairSpec == Spec /\ WF_vars(Collector)

(***************************************************************************)
(* Properties.                                                             *)
(***************************************************************************)
Frame == IF call # NoCall /\ life[call.obj] = "live" /\ call.obj \in Handled
         THEN {call.obj} ELSE {}

Roots == ({var[x] : x \in Vars} \ {Null}) \cup Frame

\* What scripts can reach: the roots, and what is stored in a reachable object.
Reachable ==
  {o \in Handled : \A S \in SUBSET Handled :
     Roots \subseteq S /\ (\A p \in S : data[p] \in S \cup {Null}) => o \in S}

TypeOK ==
  /\ life \in [Objects -> {"unborn", "live", "dead"}]
  /\ rc \in [Handled -> 0..(Cardinality(Vars) + Cardinality(Handled) + 2)]
  /\ flag \in [Handled -> BOOLEAN]
  /\ \A c \in Containers : data[c] \in Scripts \cup {Null}
  /\ \A o \in Scripts : data[o] \in Containers \cup {Null}
  /\ gcType \in [Containers -> BOOLEAN]
  /\ var \in [Vars -> Handled \cup {Null}]
  /\ owned \subseteq Values /\ known \subseteq Handled
  /\ call.obj \in Objects \cup {Null}
  /\ gc.todo \cup gc.suspects \subseteq Handled

\* The counter of an object is the number of its references, whether they are
\* in variables, containers, the collector or a factory that has not returned
\* (memory.hpp:1002-1180, class.hpp:484-1060).
Counted ==
  \A o \in Handled :
    life[o] = "live" =>
      rc[o] = Cardinality({x \in Vars : var[x] = o})
            + Cardinality({p \in Handled : data[p] = o})
            + Cardinality({o} \cap known) + Cardinality({o} \cap Frame)

\* Nobody refers to an object that was destroyed or does not exist yet: above
\* all not the collector, to an object whose factory failed (class.hpp:579).
OnlyLiveAreKnown ==
  \A o \in Reachable \cup known \cup owned : life[o] = "live"

\* The collector hears of every object of a collected type, and of no other,
\* before a script gets it (class.hpp:694, 4800, 5165).  This rests on the
\* application, which asks for notify_gc where it gives a type asOBJ_GC: a type
\* registered without that policy is taken to be one without the flag.
CollectorIsTold ==
  \A c \in Containers :
    life[c] = "live" /\ c \notin Frame => (c \in known <=> gcType[c])

\* Objects whose references the collector forces to be released are out of the
\* reach of every script, although scripts ran while it searched
\* (doc/advanced/gc.rst:88-104).
OnlyGarbageIsBroken ==
  gc.phase = "break" => gc.suspects \cap Reachable = {}

\* An object that was constructed with a script exception is destroyed by the
\* generated function (class.hpp:37), but for the list constructors and for the
\* functions whose result is the new object.
FailedAreDestroyed == lost \subseteq {"list_constructor", "ctor_fn"}

\* Whatever no script can reach any more is destroyed sooner or later, cycles
\* of containers and script objects included (doc/advanced/gc.rst).
GarbageGoes ==
  \A o \in Handled :
    (life[o] = "live" /\ o \notin Reachable) ~> life[o] = "dead"

\* doc/changelog.rst:287: "Fix memory leaks if any exception occurs in
\* generated constructors / factories"
NothingLeaks == lost = {}

=============================================================================
