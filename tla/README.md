# asbind20: a verification development

asbind20 is a header-only C++20 library (`include/asbind20`, about 20 000
lines) between an application and the AngelScript engine.  It registers C++
types and functions with the engine, calls script functions, and owns script
objects and contexts on the application's behalf.  This directory holds TLA+
models of its stateful parts, the TLC configurations that check small instances
of them, and TLAPS proofs of what holds for every instance.

AngelScript itself is not part of the repository.  Where the library calls it,
the models say what the library's code, comments and tests rely on; those
definitions are marked `external` in the map of `PROJECT.json`.

## 1. The system

### Components and their state

| component | source | state | operations | hard behaviour |
|---|---|---|---|---|
| smart pointers | `memory.hpp`, `invoke.hpp` (`script_function`) | one raw handle each; a counter in every engine object | construct, copy, move, assign, reset, swap, release, connect | which operation adds a reference, which adopts one, which hands one out; helpers that alias |
| contexts and calls | `memory.hpp` (`request_context`, `reuse_active_context`), `invoke.hpp` | a raw context and two flags per helper; the engine's pool; the context's state and its saved states | request, nest, prepare, execute, read the result, propagate an error, return | native code and scripts call each other; results are read lazily; `PopState` overwrites the state that has to be propagated |
| `small_vector`, primitive elements | `container/small_vector.hpp` (`impl_storage`) | pointers to begin, end and capacity into static storage or a heap block | `std::vector`'s modifiers | reallocation, moved-from vectors, arguments inside the vector, clamped ranges, `bad_alloc` |
| `small_vector`, objects and handles | same (`impl_object`) | the same buffer, holding pointers that own a reference each | the same | any creation or copy runs a script that may raise an exception and give no object |
| `container::single` | `memory.hpp` | one object or handle in a union | construct, copy, assign, destroy, enumerate | ownership between the hooks of a script object |
| registration scopes, listeners | `bind.hpp`, `bind/listener.hpp` | previous namespace or mask in each guard; the defaults in the engine | open, close, fall back | a failure throws through any number of guards |
| binding generators | `bind/class.hpp`, `bind/enum.hpp`, `bind/global.hpp`, `bind/common.hpp` | engine, name and type of the generator; the types, members and functions of the engine | register or append a type, its members, global entities | the type is looked up by name again for each member; some results are dropped |
| overloads and generic wrappers | `bind/class.hpp`, `bind/global.hpp`, `bind/common.hpp`, `bind/genfunc.hpp`, `bind/function_tools.hpp`, `generic.hpp` | none but what is registered with the engine | a hundred overloads that hand a function on, deduction of conventions, wrappers that fetch arguments | the same registration compiled natively and with `ForceGeneric`; hidden arguments shift positions |
| generated functions | `bind/class.hpp` 36-1100, `policies.hpp` | an object under construction; the active context's exception | constructors, factories, list forms, garbage collector notification | a constructor that returns with a script exception set |
| garbage collection hooks | `memory.hpp` (`container::single`), the behaviours | a handle in a container, a flag, a counter | count, flag, enumerate, release references | scripts run between the steps of the collector |
| `atomic_counter`, weak reference flag, threading | `utility.hpp`, `memory.hpp`, `concurrent/` | counters, a flag, the engine's lock | increment, decrement, fetch, lock | threads |
| streams and sections | `io/` | the position in a stream or a buffer | read, write, load | short reads |
| ranges, `foreach`, tokenizer | `ranges/`, `foreach.hpp` | an index or a position | step, compare, dereference | the container changes during a loop |
| operators, meta, validators, formatting, debugging | the rest | none at run time, or read only | | |

`PROJECT.json` lists all of them with what is modelled.

### How they interact

* The generators of `bind/` own nothing but a name: they call the engine, which
  keeps the types.  They share the engine's default namespace and mask with the
  guards of `bind.hpp`, and report to a listener, which may throw through both.
* Script calls: native code owns a context helper, `script_invoke` prepares and
  executes a function in it, the script calls native code again, which may nest
  another call in the same context.  Errors go back through the destructor of
  the nested helper.
* Containers own script objects through the engine's create, copy, add and
  release calls.  Each of these may run a script, which may raise an exception.
* The smart pointers and the containers share the engine's reference counters
  with the application and with scripts.
* A registration chooses an overload, a convention and a wrapper; when a script
  calls, the wrapper fetches the arguments that the engine passes.
* A generated factory runs a constructor, looks for a script exception, tells
  the collector and returns; the collector calls the behaviours of the objects
  it knows, one at a time, while scripts go on.
* Threads share an engine, its pool of contexts and objects that count their
  references.

### What makes each part correct

* Smart pointers: an object exists exactly while something refers to it.
* Contexts: a context is lent once and comes back; saved states balance; a
  result shows how its own call ended; an error that is propagated stops the
  function around.
* `small_vector`: its elements are what `std::vector` would hold; its blocks are
  neither leaked, shared nor freed twice; it reallocates only to grow.
* Object elements: a reference for each element, exactly, whichever exception
  occurs; nothing lost by a failed call.
* Registration: lexical environments; members land in the type of their
  generator; listeners know all and only what was registered; appended types
  are of the class that was checked.
* Overloads and wrappers: each parameter receives what it declares, through
  every chain of overloads, in both builds, and nothing the application says is
  dropped on the way.
* Generated functions and the collector: what was constructed is destroyed once,
  the collector hears of every object of a collected type and breaks only what
  no script reaches, and what is out of reach goes.
* Threads: an object lives while it is held, and goes once; whoever is notified
  may end what the others used.

## 2. The modules

`ScriptHandles` (with `Ownership`, `ScriptHandlesProofs`, `MCScriptHandles`).
A behaviour is about one of the six classes, `cls`, chosen initially.  `h` is
the raw handle of the helper in each slot, `rc` the engine's counters, `ext`
what the application holds itself.  Each C++ operation that changes a handle or
a counter is an action, guarded by the classes that offer it; two slots may be
the same helper (self assignment, self swap).  `flawed` is a history variable,
set by the two moves that miscount, so that the properties can say "but for
these".  A counter that is released or counted at 0 becomes `Corrupt`.
`Ownership` is the abstract specification: handles, application references and
a set `alive`, no counters.

`SmallVector` (with `VectorSpec`, `SmallVectorProofs`, `MCSmallVector`).  A vector is a record of
buffer, size, capacity and cells; `heap` is the set of allocated blocks.
Cells hold values or `Junk`, what nobody may read.  Element arguments are
values or positions of the vector's own elements, dereferenced when the code
does it; a read of freed memory gives anything, a value or `Junk`.  Each call that
allocates is given a free block or `NoBlock`, for which `allocate` throws
`bad_alloc`: it then ends where the code does, with what it has changed by then.
`call` records the last call for `VectorSpec`, which says in terms of sequences
what each call of `std::vector` does, and that one without memory does nothing.

`ScriptContexts` (with `ScriptContextsProofs`, `MCScriptContexts`).  Each thread has a stack of frames:
helpers, executing functions, native functions.  `state`, `saved`, `abort`,
`pool` are the contexts as AngelScript keeps them.  `last` and `told` in the
frames are history: how the last call through a helper ended, and which error
was reported to a function.  A report is `"lost"` when it was an abort and the
next `Prepare` in the same context takes it back: `ErrorsReach` excepts that,
`ReportedAbortsReach` shows it.

`ObjectVector` (with `ObjectVectorProofs`, `MCObjectVector`).  The buffer of `SmallVector` reduced to
a sequence of pointers, and the engine's counters.  Each creation or copy may
stop with a script exception; loops stop at the first one, as in the code.
A handle is passed by the address where it is stored, outside the vectors or in
a slot of one.  When that slot is in a buffer that `reserve` replaces, any pointer
is read (`PushBackFreed`); whether there is room is a matter of `SmallVector`, so
that a push of an own slot may always be one of these.  `flaw` names the first
call that miscounted.

`Registration` (with `Scopes`, `RegistrationProofs`, `MCRegistration`).
`frames` is the C++ stack of guards and generators; `ns` and `mask` the engine's
defaults; `types`, `members`, `functions` what is registered, and `told` what
listeners heard.  `Throw` destroys any number of frames at once.  `Scopes`, the
abstract specification, is a stack of environments that open and are left.
A generator whose listener does not throw lives on without a type, and appending
does not tell anyone; both are states of the model.

`Binding` (with `CallConventions`, `GenericWrappers`, `BindingProofs`, `MCBinding`).  A state is
one registration (`want`: family of overloads, form of the function, tags, place
of the object, positions of `?`) and where each of two builds has got with it:
the overload being called (`at`), what the engine was given (`reg`), what the
C++ function received from a script (`got`).  `Builds` are a generator that may
use native conventions and one with `ForceGeneric`.  `Forward` is an overload
that calls another, `Register` one that registers, `Refuse` a call for which no
overload compiles, `Call` a call by a script.  An argument is `<<"arg", i>>`,
the object, the auxiliary, the component or a type id: enough to tell which
parameter received what.  `CallConventions` holds the deductions of
`bind/common.hpp`, `GenericWrappers` what each wrapper fetches.

`Collection` (with `Construction`, `CollectionProofs`, `MCCollection`).  `Construction` gives, for
each generated function, how it is registered and its steps as a sequence: new,
guard, notification.  `Collection` runs these steps on a heap of containers,
script objects and values, with variables of scripts, handles stored through
`container::single`, and the collector.  The collector's phases follow
`doc/advanced/gc.rst`; what it does with the answers is external.  `release` is
one step with all that its destructors release in turn: the objects that go are
the least set that holds the one that lost its last reference and, for each in
it, what that one was the last to store (`Doomed`).

`Threads` (with `ThreadsProofs`, `MCThreads`).  The program of
`test_threading.cpp` and `doc/advanced/threading.rst`: a main thread and a
detached helper with a mutex and a condition variable that may wake for no
reason, the thread-local data of AngelScript, and one object whose
`atomic_counter` all threads share.  `Release` is the atomic decrement,
`try_delete` the look at its result: other threads run in between.

How they compose: `Binding` composes `GenericWrappers` and `CallConventions`;
`Collection` composes the generated functions of `Construction` with scripts and
the collector.  `ObjectVector` stands on the buffer that `SmallVector` checks;
`SmallVector` implements `VectorSpec`, `ScriptHandles` implements `Ownership`,
and `Registration` implements `Scopes`, each by a refinement mapping that is a
PROPERTY of its run.

## 3. The runs

Deadlock is checked in every run but `calls`, where a registration
is over once both builds are called or refused.  `Threads` has an explicit
`Terminated` step for a process that has ended.

| run | what it shows | instance | distinct states |
|---|---|---|---|
| `handles` | counters match references for all six classes, and ownership is shared ownership, but for the two flawed moves | 3 helpers, 2 objects, 2 application references per object | 3 243 |
| `typeinfo_leak` | finding: move assignment of `script_typeinfo` leaks a reference | 2 helpers | |
| `vector` | blocks are owned, nothing is stored that nobody gave, reallocation doubles, modifiers are those of `std::vector`, with and without memory, but for the lapses named in the module | 2 vectors, 3 blocks, static capacity 1, 4 elements | 5 307 |
| `own_argument` | finding: `push_back` and `insert` of an own element | 1 vector | |
| `contexts` | contexts are lent once, states balance, results stay, errors reach unless a later call takes an abort back | 2 threads, 2 contexts, 7 frames together | 208 125 |
| `abort_lost` | finding: a propagated abort is forgotten by the next nested call | 1 thread, 1 context, 6 frames | |
| `objects` | a reference per element but for the four calls that miscount, an object per element, exceptions cost no element | 2 vectors, 3 objects, 3 elements, 2 other references | 18 103 |
| `objects_copy` | finding: the copy of a vector shares the other's objects | 2 vectors | |
| `registration` | environments are lexical, members follow their generator, listeners know, appended types fit | 1 part, 1 name, 2 masks, 3 frames, 2 generators, 1 member or function | 310 337 |
| `calls` | arguments arrive, both builds agree, nothing is dropped, every registration ends | all families and forms, functions of up to 2 script arguments | 28 870 |
| `collection` | counters match, the collector is told and breaks only garbage, failed objects are destroyed, garbage goes | 1 container, 1 script object, 1 value, 3 variables | 119 468 |
| `threads` | the shared object lives while held and goes, notification is enough, the wait ends | 3 threads, 2 handles each | 64 605 |

Why the bounds are enough for what is asked:

* `MaxExt`, `MaxCount` bound references of the application and a counter that a
  flawed move raises.  Three helpers give each binary operation a bystander,
  two objects give it an old and a new handle.  The proofs need no bounds.
* `StaticCap` 1 with 4 elements passes through static storage, the first block
  and two doublings; 3 blocks let both vectors hold one and reallocate.
  Positions go one past the longest vector's end.
* Seven frames hold two threads with helpers, or one thread with two nested
  calls around which errors propagate.
* Three elements of two vectors and three objects make a loop that stops
  half-way, with elements before and after, and a bystander.
* Three frames hold a guard around a guard around a generator, or a generator
  made and used in different namespaces.  One namespace part and one name are
  enough for a type in the global and a nearer type of the same name; a single
  member shows where members go, and the one of a second generator is that of
  the first after renaming.  More names multiply states without new relations,
  as types of different names are never compared.
* Two arguments of a script put a `?`, a value and the hidden type information
  before, after and between the others; three add no new neighbour.
* A cycle needs a container and a script object; with three variables a script
  can hold both and load one while the collector is between two steps.  Larger
  instances were checked once: 2 script objects and 2 variables with liveness
  (642 113 states), 2 containers and 2 variables for the invariants
  (1 544 035 states).
* Three threads are the main thread, the helper and one that only counts; two
  handles each let a thread count while it drops one.  Proved for any number.

Symmetry permutes helpers, objects, vectors, blocks, threads, contexts, and
masks, which no definition tells apart.  It is used with invariants and action
properties only, never with liveness.

`MCSmallVector` and `MCObjectVector` have a VIEW.  The first drops `call`, which
no guard reads; TLC still evaluates the action properties on every step it
generates, with the `call'` of that step.  It also folds the vectors with an
element that was read from freed memory to their shape: what they hold changes
no guard.  The second drops `out`, for the same reason, and identifies the
states after a counter went wrong, of which no property says anything.

Fairness.  The library has no scheduler: in `ScriptHandles`, `SmallVector`,
`ScriptContexts`, `ObjectVector` and `Registration` each action is a call the
application may make, nothing must happen, and none is assumed.  It is where
something runs by itself:

* `Binding`: weak fairness of `Next`; a compiler and a program that are started
  go on.
* `Collection`: weak fairness of the collector only, which AngelScript runs as
  objects are made, or which `GarbageCollect` runs, as the tests do again and
  again.  Scripts need not do anything, so garbage goes even if they stop.
* `Threads`: strong fairness of the main thread's and of the helper's program,
  because each is disabled now and then by the other's mutex and while the
  thread counts, and weak fairness of a thread that has decremented.  No thread
  has to drop its handles, a spurious wakeup may never come, and the process may
  go on for ever.  `Timeout` is a step of the main thread: the deadline comes.

### Mutants

Each property of a passing run has a mutated definition next to the original,
marked `Mutant` in the modules, that a plausible mistake would give (a missing
`AddRef`, a moved-from vector that keeps its pointer, `PopState` in the wrong
order, the namespace of the wrong guard).  TLC finds each property violated by
its mutant.

## 4. Findings

TLC ends the runs of these four with a counterexample.

* `memory.hpp:798` `script_typeinfo::operator=(script_typeinfo&&)` resets to
  `other.release()` with the overload that adds a reference: one reference leaks
  per move (`typeinfo_leak`).
* `container/small_vector.hpp:715` `impl_object::copy_from` stores the
  addresses of the other vector's elements (`objects_copy`).
* `container/small_vector.hpp:457` `push_back(ref)` reserves before it reads
  the argument, `insert_one` moves the elements first: an argument inside the
  vector is read from freed memory or from the wrong place (`own_argument`).
* `memory.hpp:306` `pop_state_impl` propagates an abort with a request that the
  `Prepare` of the next `script_invoke` in the same context clears.  Native code
  that makes a second nested call after one that was aborted returns to a script
  function that runs on (`abort_lost`).  An exception is not lost that way: its
  context is not active any more, so that `PushState` fails and the next call
  takes another context.

Seven more are stated in a module by a property and have a configuration with
which TLC refutes it in seconds; they are not among the runs of `PROJECT.json`.

| place | what happens | property | configuration |
|---|---|---|---|
| `memory.hpp:492` | `script_engine(script_engine&&)` exchanges its own uninitialised member instead of the argument's | `EngineIsManaged` | `MCEngineMove.cfg` (`MCScriptHandles`) |
| `container/small_vector.hpp:1818` | `visit` clamps the count by the count, in unsigned arithmetic | `VisitShowsAll` | `MCVisit.cfg` (`MCSmallVector`) |
| `container/small_vector.hpp:1069` | `assign_obj` releases the old handle before it adds a reference to the new one | `SelfAssignmentIsHarmless` | `MCSelfAssignment.cfg` (`MCObjectVector`) |
| `container/small_vector.hpp:798` | `push_back` of a handle's slot, which `operator[]` gives, reads it after `reserve` freed it | `OwnHandleMayBePushed` | `MCOwnHandle.cfg` (`MCObjectVector`) |
| `bind/class.hpp:4214` | `ref_class` ignores what `append_type` returns | `NewTypesAreTold` | `MCNewTypes.cfg` (`MCRegistration`) |
| `bind/class.hpp:3296` | `constructor_function(params, use_explicit, fp<&f>)` calls itself when generic conventions are not forced; the only test that uses it forces them | `ExplicitConstructors` | `MCExplicitCtor.cfg` (`MCBinding`) |
| `bind/class.hpp:263` | list constructors, and functions registered with `fn_tools::as_ctor_fn`, leave a constructed object behind when the constructor raises a script exception | `NothingLeaks` | `MCListConstructor.cfg` (`MCCollection`) |

Where a property of a passing run is about one of these eleven calls, it excepts
the call by name.

Other observations:

* `bind/genfunc.hpp:78` adds one to each position of `var_type` for its type id,
  but not for the type ids before it: `var_type<0, 2>`, which
  `doc/advanced/generic.rst:100` shows, does not compile (`DocumentedVarTypes`).
* `doc/advanced/threading.rst:78` waits without a condition and without a
  deadline: when the helper notifies first, the main thread waits for ever.  TLC
  finds it with `HasDeadline = FALSE` (`MainEnds`); the test has a deadline.
* `container/small_vector.hpp:921` `insert_one` of `impl_object` has copied its
  element when `allocate` throws, and the copy is lost (the flaw `bad_alloc` of
  `ObjectVector`, which `Counted` excepts).
* `erase(const_iterator, const_iterator)` of the empty range at the end throws
  `out_of_range`; `std::vector` accepts it (one of the `Lapses` of
  `SmallVector`).
* `pop_back` of a null handle fails an assertion in builds with assertions,
  though `emplace_back` and `resize` make null handles.
* Appending with `ref_class` to a type that is registered with more flags than
  the generator's, a collected one for example, fails an assertion;
  `value_class` and `interface` compare less than "Type consistency check"
  (`doc/aux_interface.rst:275-278`) says.
* Results of `property` and of the behaviours are dropped: a member that the
  engine refuses is lost without a word.
* `fn_tools::map_ret` of a free function, registered as a generic method, fetches
  its object as the first argument (`MappedMethod`).
* The generic wrapper of list constructor functions does not handle templates
  (`genfunc.hpp:879`, a FIXME), and its form for an object behind the list names
  a function that does not exist (`ListConstructor`).
* `(void* mem, const T& other)` is deduced as a function with its object last:
  a reference to the class is tried before `void*` at both ends (`Misleading`).
* A lambda registered as a method with `objfirst` or `objlast` becomes a generic
  wrapper in native builds too (`class.hpp:2114`).
* There is no `list_factory_function(fp<&f>)` without an auxiliary object.
* `container::single::copy_assign_from` releases the old handle before it counts
  the new one, like `assign_obj`; scripts hold both, so nothing goes wrong.
* `release` of `my_gc_object` in `doc/utility.rst:167` does not clear the
  collector's flag, while `addref` above it does.

## 5. The proofs

All assumptions are on constants: model values differ, bounds are naturals,
sets are finite where a cardinality is taken.  They are named ASSUMEs of the
modules and TLC evaluates them in every run.

### `ScriptHandlesProofs`

`TypeCorrect`, `NeverDangling` (`Covered`), `NeverLeaking` (`NoLeak`),
`ImplementsOwnership` (`SharedOwnership`), for any number of helpers, objects
and references.

`Covered` and `NoLeak` are not inductive alone: a step that keeps `rc` at least
the references needs their difference, not the inequality, and a step that
releases needs to know that the counter is positive, which is `Covered`.  The
inductive invariant `Counted` is `TypeOK`, `Covered` and `NoLeak` together.  The
argument is a balance: the slack of an object is its counter minus the
references to it, `StoreKeepsSlack` and its companions say what storing a
handle, `AddRef` and `Release` do to it, and each operation is a composition of
these with slack unchanged (`...IsEven`).  Only `script_typeinfo`'s move raises
slack and only `script_engine`'s breaks it, and both set `flawed`.

For `ImplementsOwnership`, a step that creates an object maps to `Create`, every
other to `Share`: by `Counted`, `rc > 0` is the same as being referred to, and
no counter rises from 0 except by creation (`OnlyCreationRevives`).

### `SmallVectorProofs`

`TypeCorrect`, `EveryBlockHasOneOwner` (`BuffersAreOwned`), `NoElementIsJunk`
(`ElementsAreValues`) and `GrowthIsGeometric` (`MovesOnlyToGrow`), for any
vectors, blocks, values, static capacity and bound on the size.

The two invariants need each other: that the capacity is one of those that
doubling gives is what the next doubling rests on, and a block can be freed
because nobody else has it.  The inductive invariant is their conjunction, with
the type of one vector as `IsVector`.  `ElementsAreValues` is about a step: a
vector that was not spoilt is spoilt only by a read of its own freed element or
as the copy of a spoilt one, since every other cell comes from an argument that is
a value or from a vector that was not spoilt (`StaysUnspoilt`, `MovingSpoils`,
`OnlyLapsesDangle`).  A call whose allocation fails leaves the vector
(`RefusingKeeps`), or abandons one whose static storage was not enough
(`AbandoningIsNothing`).  The proof has two layers: what each helper
(`Rebuffered`, `Reserved`, `Edited`, ...) makes of a vector is one
(`...IsVector`), and what an operation changes is one vector and at most one block
(`...Changes`); `ChangeIsRight` then says once that such a change keeps the
invariant and reallocates only to grow.

The refinement is `ImplementsVectorSpec` (`StdModifiers`): each step of `SmallVector` is, on the
sequences of elements, what `VectorSpec` says of the call, or one of the lapses
that the module names.  The mapping takes a vector to the sequence in its first
`size` cells (`Contents`), storage without a vector to `Absent`, which is no
sequence of values (`AbsentAssumption`).  Of each helper it is shown which
sequence it leaves: sequences equal in length and in each element are equal
(`SameElements`), so that the copies, moves and reversals between cells become
concatenations of parts (`TwoParts`, `ThreeParts`).

### `ScriptContextsProofs`

`TypeCorrect`, `ContextsAreLentOnce` (`LentOnce`), `EveryStateIsPopped`
(`StatesBalance`), `ResultsAreKept` (`ResultsStay`) and `ErrorsReachCallers`
(`ErrorsReach`), for any threads and contexts and any bound on the frames.

None of the four is inductive, because each is about frames that a step does not
touch.  The invariant `Inv` describes the stacks first (`ShapeInv`): functions
call native code, a function is executed by a helper in the native code below it,
a nested helper is in the context of the function around it, whoever uses a
context is above the helper that borrowed it.  From this shape follow the parts
that relate stacks to contexts: a context is in the pool or borrowed by one
helper of one thread (`LendingInv`); the states saved in a context are as many as
the nested helpers in it (`BalanceInv`); the last user of a context, when it is a
helper, knows the state of the context (`ResultInv`); a function that was told of
an error still has it set on its context, or lost it to a later call
(`ToldInv`); only contexts of executing
functions are told to abort (`AbortInv`), and those in the pool are clean
(`IdleInv`).  A context is used by one thread only (`UsersAreOnOneThread`), so a
step of a thread is a step of one stack: it pushes a frame (`PushFocus`) or cuts
some (`CutFocus`), and each action is one of the two.

### `ObjectVectorProofs`

`TypeCorrect`, `ElementsAreOwned` (`Counted`), `ElementsAreNeverShared`
(`Separate`) and `ExceptionsLoseNothing` (`ExceptionsKeepElements`), for any
finite set of vectors (`VecsAssumption`: the elements are counted), any objects
and any bounds.

`Counted` with the types is inductive; `Separate` needs it, because an object
that was just created is no element of any vector only if its counter of 0 says
so.  Counting is additive: how often an object occurs in a concatenation, a
reversed or a replaced part is a lemma each (`OccursCat`, `OccursReversed`,
`OccursReplaced`), and what the operations make of a sequence follows (`Inserted`,
`Erased`, `Turned`, `Rotated`).  The elements of an object are places, pairs of a
vector and a position, so that a call that changes one vector leaves the places of
the others (`OthersStay`, `ElementsChange`).  Then three lemmas say when a call
keeps the invariant: it adds elements and as many references (`GainsIsRight`),
drops them together (`LosesIsRight`), or rearranges (`SameIsRight`), and each
operation is shown to be one of the three.  The four calls that miscount set
`flaw`, of which nothing is claimed but the types; that any other push or
assignment takes a handle that somebody holds, outside or in a slot, is
`ArgIsHeld`.  What a loop that stopped early has
added are objects, since only created elements can be fewer than asked for
(`EarlyEnds`).

### `RegistrationProofs`

`TypeCorrect` and `ImplementsLexicalScopes` (`ImplementsScopes`), for any parts,
names, masks, and any number of frames and generators; `GeneratorsAlwaysKnow`,
`MembersFollow` (`MembersFollowTheirGenerator`), `AppendingChecksHold`
(`AppendedTypesFit`) and `ListenersAreTold` (`ListenersKnow`).

The refinement maps the stack to the environments that destroying all but its
`k` lowest frames would restore, for each `k`.  `At(fr, k, guard, current)` is
that for any stack: what the lowest guard above `k` remembers, or the current
value.  Three lemmas carry the proof: a frame that restores something else does
not change it (`PushOther`); a guard that remembers the current value does not,
whatever it sets (`PushGuard`); destroying the frames above `m` first and then
those above `k` restores what destroying all at once does (`DestroyInTurn`).
Every action pushes one frame, destroys a suffix, or leaves the stack alone
(`StepsOfTheStack`).  `TypeOK` is inductive: it is proved for the stack and for
the engine apart, since the steps of the engine need the types of the stack.
`Lowest` is a CHOOSE; that it exists follows from the well-foundedness of finite
subsets (`LowestExists`).

What members and listeners do rests on what a generator knows
(`GeneratorsKnow`): its type is registered, of the class that was compared, and
has the generator's name in the namespace where the generator was made or in one
around it.  That is an invariant because no step takes a registered type back
(`TypesStay`), exceptions included, and `Resolve` finds the innermost of the
types with a name (`ResolveIs`).  `ListenersKnow` is inductive with the types:
what a step registers it tells, or it is of a kind that nobody is told of.

### `ThreadsProofs`

`TypeCorrect`, `HeldObjectsLive` (`SharedIsAlive`), `NotificationIsEnough`
(`NotifiedIsSafe`), for any number of other threads and handles, with or without
a deadline.

`SharedIsAlive` is not inductive: a thread may have decremented to 0 and not
looked yet.  The inductive invariant says that the counter is the number of
handles, and that at most one thread has such a 0 in its hands, which then has
the object for itself: `count` is 0, so nobody can make or drop another handle.
Handles are counted as a set of pairs of a thread and a number, so that one more
or one less is an element added or removed (`OneMore`, `OneLess`), and a handle
for each other thread is a product (`OneForEach`).  For `NotifiedIsSafe` the
invariant says that a helper that notifies has stored its result and left its
block; `After` is the order of its steps.

### `CollectionProofs`

`TypeCorrect`, `CountersAreRight` (`Counted`), `ReferencesAreLive`
(`OnlyLiveAreKnown`), `CollectorHears` (`CollectorIsTold`), `CyclesAreGarbage`
(`OnlyGarbageIsBroken`) and `GuardsDestroy` (`FailedAreDestroyed`), for any
finite sets of containers, script objects and variables, and any values.

The argument has two parts.  The first is about the heap: `HeapOK(h, e)` says
that a heap is consistent with `e` references from outside of it, that is, that
each counter is the sum of those and of the slots that hold the object, and that
only live objects are referred to.  What `container::single` does is made of a
few changes that trade one kind of reference for another: a reference is taken
(`TakeGood`), released (`ReleaseGood`), a slot is overwritten (`PutGood`).  The
cascade of destructors needs no induction, since what goes is a least set: if a
smaller set were settled, it would be that one; so each object that goes had one
reference left, from the call or from another that goes
(`DoomedHaveNoOthers`).  `copy_assign_from` and `destroy` release a handle before
they overwrite it; that this is as good as overwriting it first, because the
destructors it runs do not come back to the container, is `ReleaseAfterClear`.

The second is about the collector, which looks at one object at a time while
scripts go on.  `OnlyGarbageIsBroken` is far from inductive: the counts are never
exact.  `GcInv` says that they are bounds.  While references are subtracted, the
count of a suspect whose flag is still set is at least the references of scripts
and of the objects that are not yet done (`Over`); so a count of 0 at the end
means that only suspects refer to it, and tracing keeps that for suspects and
those to be traced (`Cut`).  A step of a script is `Tame`: it adds a reference only to an
object that scripts touched already, and clears its flag.  Suspects in the last
phase have no flags any more, but no script touches them, as only suspects refer
to them.  What is reachable is the least set closed under the slots, so it is
contained in any closed set that holds the roots: in the live objects, and in
those that are no suspects.

`CallInv` says how far a generated function has come: nobody but the function
refers to the object, and the collector knows it at the end exactly if the flag
of its type says so.

### `BindingProofs`

`TypeCorrect`, `ArgumentsGetThrough` (`ArgumentsArrive`), `PortsMeanTheSame`
(`PortsAgree`), `NothingGetsLost` (`NothingIsDropped`) and `ChainsAreShort`
(`GivenOnOnce`), for functions of any number of arguments (any `MaxArgs`), with
`?` at any positions.  No run checks `GivenOnOnce`; it is what makes the
registrations of the run end (`CallsReturn`), said of every state.

For `NothingGetsLost` the invariant `Inv` says that the overload which a build
calls was given at least what the application wants (`Keeps`), and that what
AngelScript was given says what the application wants (`Says`).  It is inductive
because every outcome of every overload is `Faithful` to the call that reached it
(`OverloadsAreFaithful`): except for composites, an overload does one of a few
things (`Usual`), and each is faithful once and for all.  That nothing else is
taken for a composite rests on what `common.hpp` deduces: never
`THISCALL_COMP` (`ByEnds`, `MethodConv`, `BehaviourIsDeduced`).

The other four rest on `IInv`.  `ArgumentsArrive` and `PortsAgree` speak of what
was received at the end; to get there one must know what was registered, and so
which overloads the chain may be at.  `IInv` says that both builds are on the way
of the same request: the call is the application's, the same with `use_generic`,
or the same with a pointer (`OnTheWay`); AngelScript was given one of only two
things, the function with the one convention of the request or the one wrapper
generated for it (`IsGiven`); and a request that was refused could not be
compiled by any build (`Unfit`).  That each overload keeps to this is
`OutcomesAre`.  The convention (`Convention`) and the wrapper (`WantedWrapper`) are
functions of the request alone, so what remains is said without steps:

* The deduction is sound (`DeductionSound`): when it gives a convention, it fits
  the function, and unless the ends mislead, the object is at the end that was
  deduced (`RankedIsRight`).  So natively each argument arrives (`NativeRight`).
* Every wrapper that compiles gives the function what AngelScript would pass by
  the convention (`WrapperRight`, a lemma for each kind of wrapper), so whatever
  holds natively holds through it, and both builds agree.
* With more than one `?` the wrapper does not compile (`TwoRefused`): this is why
  `ArgumentsArrive` needs no exception for them while `PortsAgree` does.

The positions need induction: a `?` takes two places, and `FlattenSeq` puts the
sequence together by a recursive function.  The library's induction theorems
take operators, so `Induction` is stated for sets instead: a set of numbers that
has 0, and `n + 1` with each `n`, has them all, because the initial segments
`1..i` of a number that it lacks would have no least one (`WFMin` with the
well-foundedness of finite subsets).  From it follow that the function exists and
is the only one (`FlattenExists`, `FlattenParts`), and where each element
comes to lie: as many places further as there are `?` before it (`Place`,
`Doubled`, `FlattenSpread`).

`Intended` and the conventions of `Registrations` were made exact for the proofs:
a CASE with two arms that hold is not determined, which TLC, taking the first, did
not show.

### Only model-checked

All liveness.  Liveness under fairness and ENABLED are out of the prover's reach:
`GarbageGoes` of `Collection`, `CallsReturn` of `Binding`, `ObjectGoes` and
`MainEnds` of `Threads`.  `ChainsAreShort` is the safety half of `CallsReturn`: no
chain of overloads has more than two members, but that of `CallsItself`.

## 6. What is not modelled, and why

* Conversions at compile time (`meta.hpp`, `operators.hpp`, validators): no
  state.
* Declarations as strings, the conversion of one argument or returned value by
  its type: the models keep which argument goes where, not its representation.
* Failed assertions: the models are of builds with assertions, where they end
  the program; an action whose assertion would fail is not enabled.
* Scripts that change the container whose operation called them: the code
  neither supports nor detects it.
* The lookup of names outward from the default namespace, the pool of contexts,
  the states of a context, how native conventions pass arguments, and the
  collector's search belong to AngelScript and are external.
* `container::single` with objects held by value, and its primitive values.
* The weak reference flag across threads: no code of the repository fetches it
  in one thread while another drops the object.
* `foreach`, byte code streams, tokenizer, views of type information: each call
  forwards to AngelScript or steps an index; the loop, the byte code and the
  tokens are AngelScript's.  A container that changes during a `foreach` loop
  and a stream that gives fewer bytes than asked for are therefore not checked.
* Output only: formatting, debugging tools, sections.

## 7. Plan

Done, in this order: `ScriptHandles`, `SmallVector`, `ScriptContexts`,
`ObjectVector`, `Registration`, `Binding`, `Construction` and `Collection`,
`Threads`.

Proofs: `ScriptHandles`, `Registration`, `Threads`, `SmallVector` and its
refinement, `ScriptContexts`, `ObjectVector`, `Collection`, `Binding`.  Every
invariant and action property that a run checks is proved.  Next: returned values
and the conversion of an argument by its type in `GenericWrappers`, and
properties and operators of the generators.

Runs are kept few: each module has one passing run, and four of the findings have
a run of their own: a reference that leaks, elements that are shared, an argument
that is stale, an error that is forgotten.  The other seven have a configuration.
