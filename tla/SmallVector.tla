------------------------------ MODULE SmallVector ------------------------------
(***************************************************************************)
(* container::small_vector (container/small_vector.hpp) for an element of  *)
(* a primitive type: class impl_storage and the members of the wrapper     *)
(* that reach it.                                                          *)
(*                                                                         *)
(* A vector keeps its elements in the cells of a buffer, which is its own  *)
(* static storage or a block of the heap.  Growing, shrinking, inserting   *)
(* and erasing are the allocations, copies and moves of cells that the     *)
(* code makes.  Cells outside the elements hold nothing a caller may read. *)
(***************************************************************************)
EXTENDS Integers, FiniteSets, Sequences

CONSTANTS
    Vecs,       \* storage for vectors
    Values,     \* what a cell can hold; disjoint from the integers
    Zero,       \* value_type(), which is also a cell of zero bytes
    Junk,       \* what a cell without an element holds, and memory that was freed
    Absent,     \* no vector is constructed in this storage
    Static,     \* the buffer that lies in the vector itself
    Blocks,     \* blocks of heap memory
    NoBlock,    \* in place of a block: allocate throws bad_alloc
    StaticCap,  \* max_static_size()
    MaxSize     \* bound: elements per vector, positions and counts passed

ASSUME ValuesAssumption == Zero \in Values /\ Junk \notin Values
ASSUME BuffersAssumption == /\ Static \notin Blocks /\ IsFiniteSet(Blocks)
                            /\ NoBlock \notin Blocks \cup {Static}
ASSUME StaticCapAssumption == StaticCap \in Nat \ {0}
ASSUME MaxSizeAssumption == MaxSize \in Nat

Cells == Values \cup {Junk}        \* what a cell holds

Capacities == StaticCap..StaticCap + 2 * MaxSize

(* The buffer's cells are counted from 0; the first size of them are the    *)
(* elements.                                                                *)
Vectors == UNION { [buf : Blocks \cup {Static}, size : 0..c, cap : {c},
                    cells : [0..c - 1 -> Cells]] : c \in Capacities }

ASSUME AbsentAssumption == Absent \notin Vectors /\ Absent \notin Seq(Cells)
ASSUME PointersAssumption == \A n \in 0..MaxSize : n \notin Cells

VARIABLES
    vec,        \* each vector: its buffer, size, capacity and cells
    heap,       \* the blocks that are allocated
    call        \* the last call, with its arguments and how it ended

vars == <<vec, heap, call>>

Live(v) == vec[v] # Absent

(* The call op(arg), op(at, count) or the like on the vector v.             *)
Calls(op, v, at, count, arg, out) ==
    call' = [op |-> op, on |-> v, at |-> at, count |-> count, arg |-> arg,
             out |-> out]

OnVector(op, v) == Calls(op, v, 0, 0, Zero, "ok")

(***************************************************************************)
(* Buffers.                                                                *)
(***************************************************************************)
Fresh == [buf |-> Static, size |-> 0, cap |-> StaticCap,
          cells |-> [i \in 0..StaticCap - 1 |-> Junk]]

(* Cells that are no longer elements are forgotten.                         *)
Resized(r, n) ==
    [r EXCEPT !.size = n,
              !.cells = [i \in DOMAIN r.cells |-> IF i < n THEN r.cells[i]
                                                  ELSE Junk]]

(* memmove of n cells inside a buffer.                                      *)
MoveCells(cells, to, from, n) ==
    [i \in DOMAIN cells |-> IF i \in to..to + n - 1 THEN cells[from + i - to]
                                                    ELSE cells[i]]

FillCells(cells, from, n, x) ==
    [i \in DOMAIN cells |-> IF i \in from..from + n - 1 THEN x ELSE cells[i]]

(* Mutant: capacity grows by what is asked for only.                        *)
AccommodateTightly(newCap, currentCap) == newCap

Accommodate(newCap, currentCap) ==
    IF newCap < currentCap * 2 THEN currentCap * 2 ELSE newCap

(* The elements in a buffer of another capacity.                            *)
Rebuffered(r, buf, cap) ==
    [buf |-> buf, size |-> r.size, cap |-> cap,
     cells |-> [i \in 0..cap - 1 |-> IF i < r.size THEN r.cells[i] ELSE Junk]]

(* Mutant: the old buffer is given up before the new one is there.          *)
ReservedReleasingFirst(r, newCap, b) ==
    IF newCap <= r.cap THEN r
    ELSE IF b = NoBlock THEN Fresh
    ELSE Rebuffered(r, b, Accommodate(newCap, r.cap))

(* The new buffer is allocated first: when that throws, the capacity is     *)
(* still below newCap.                                                      *)
Reserved(r, newCap, b) ==
    IF newCap <= r.cap \/ b = NoBlock THEN r
    ELSE Rebuffered(r, b, Accommodate(newCap, r.cap))

Outcome(enough) == IF enough THEN "ok" ELSE "bad_alloc"

(* emplace_back_impl and std::fill_n at the end.                            *)
Filled(r, n, x) == [r EXCEPT !.size = @ + n,
                             !.cells = FillCells(@, r.size, n, x)]

(* What follows reserve is not reached when it throws.                      *)
Appended(r, n, x) == IF r.size + n <= r.cap THEN Filled(r, n, x) ELSE r

(* deallocate_if_nonstatic of the old buffer, after the new one was         *)
(* allocated.                                                               *)
HeapWith(old, new) == (heap \cup ({new} \ {Static})) \ ({old} \ {new})

Becomes(v, r) == /\ vec' = [vec EXCEPT ![v] = r]
                 /\ heap' = HeapWith(vec[v].buf, r.buf)

(* A new vector, whose static storage may be replaced at once.              *)
Begins(v, r) == /\ vec' = [vec EXCEPT ![v] = r]
                /\ heap' = HeapWith(Static, r.buf)

(* A constructor throws: no destructor runs, and none will give back the    *)
(* buffer.                                                                  *)
Abandons(r) == /\ vec' = vec
               /\ heap' = HeapWith(Static, r.buf)

Unchanged == UNCHANGED <<vec, heap>>

(* What allocate gives.                                                     *)
Allocations == (Blocks \ heap) \cup {NoBlock}

(***************************************************************************)
(* Element arguments are pointers: to a value outside the vector, or to    *)
(* one of the vector's own elements, given by its position.                *)
(***************************************************************************)
Args(r) == Values \cup 0..r.size - 1

Deref(cells, a) == IF a \in Values THEN a ELSE cells[a]

(* The argument of push_back is read after reserve: by then the buffer it   *)
(* points into may have been freed, and anything may be read, a value or    *)
(* not.                                                                     *)
Dangles(old, new, a) ==
    a \notin Values /\ new.buf # old.buf /\ old.buf # Static

ReadAfter(old, new, a) ==
    IF Dangles(old, new, a) THEN Cells ELSE {Deref(old.cells, a)}

Init == /\ vec = [v \in Vecs |-> Absent]
        /\ heap = {}
        /\ call = [op |-> "none"]

-----------------------------------------------------------------------------
(* Construction and destruction.                                            *)

(* From an initialization list, or an empty one: reserve, then copy element *)
(* by element.                                                              *)
Listed(r, list) ==
    [r EXCEPT !.size = Len(list),
              !.cells = [i \in DOMAIN @ |-> IF i < Len(list) THEN list[i + 1]
                                            ELSE Junk]]

Ctor(v, list, b) ==
    /\ ~Live(v)
    /\ LET r == Reserved(Fresh, Len(list), b)
           enough == Len(list) <= r.cap
       IN  /\ IF enough THEN Begins(v, Listed(r, list)) ELSE Abandons(r)
           /\ Calls("ctor", v, 0, 0, list, Outcome(enough))

(* memcpy of another vector's elements into a buffer that is large enough.  *)
(* Mutant: one element too few.                                             *)
CopiedFromButLast(r, other) ==
    [r EXCEPT !.size = other.size,
              !.cells = [i \in DOMAIN @ |->
                           IF i < other.size - 1 THEN other.cells[i] ELSE Junk]]

CopiedFrom(r, other) ==
    [r EXCEPT !.size = other.size,
              !.cells = [i \in DOMAIN @ |->
                           IF i < other.size THEN other.cells[i] ELSE Junk]]

CopyCtor(v, w, b) ==
    /\ ~Live(v)
    /\ Live(w)
    /\ LET r == Reserved(Fresh, vec[w].size, b)
           enough == vec[w].size <= r.cap
       IN  /\ IF enough THEN Begins(v, CopiedFrom(r, vec[w])) ELSE Abandons(r)
           /\ Calls("copy_ctor", v, 0, 0, w, Outcome(enough))

(* Mutant: the other vector keeps its pointers.                             *)
MoveCtorSharing(v, w) ==
    /\ ~Live(v)
    /\ Live(w)
    /\ vec' = IF vec[w].size # 0 /\ vec[w].buf # Static
              THEN [vec EXCEPT ![v] = vec[w]]
              ELSE [vec EXCEPT ![v] = CopiedFrom(Fresh, vec[w])]
    /\ UNCHANGED heap
    /\ Calls("move_ctor", v, 0, 0, w, "ok")

(* take_own: an allocated buffer changes hands; elements in static storage  *)
(* are copied and stay where they were.  An empty vector keeps its buffer.  *)
MoveCtor(v, w) ==
    /\ ~Live(v)
    /\ Live(w)
    /\ vec' = IF vec[w].size # 0 /\ vec[w].buf # Static
              THEN [vec EXCEPT ![v] = vec[w], ![w] = Fresh]
              ELSE [vec EXCEPT ![v] = CopiedFrom(Fresh, vec[w])]
    /\ UNCHANGED heap
    /\ Calls("move_ctor", v, 0, 0, w, "ok")

Dtor(v) == /\ Live(v)
           /\ vec' = [vec EXCEPT ![v] = Absent]
           /\ heap' = HeapWith(vec[v].buf, Static)
           /\ OnVector("dtor", v)

-----------------------------------------------------------------------------
(* Capacity and size.                                                       *)

Reserve(v, n, b) ==
    /\ Live(v)
    /\ LET r == Reserved(vec[v], n, b)
       IN  /\ Becomes(v, r)
           /\ Calls("reserve", v, 0, n, Zero, Outcome(n <= r.cap))

(* Mutant: back to the static storage, whatever the number of elements.     *)
ShrunkToStatic(r, b) == IF r.buf = Static THEN r
                        ELSE Rebuffered(r, Static, StaticCap)

Shrunk(r, b) == IF r.buf = Static THEN r
                ELSE IF r.size <= StaticCap
                     THEN Rebuffered(r, Static, StaticCap)
                     ELSE IF b = NoBlock THEN r
                     ELSE Rebuffered(r, b, r.size)

ShrinkToFit(v, b) ==
    /\ Live(v)
    /\ Becomes(v, Shrunk(vec[v], b))
    /\ LET needsNoBlock == vec[v].buf = Static \/ vec[v].size <= StaticCap
       IN  Calls("shrink_to_fit", v, 0, 0, Zero, Outcome(needsNoBlock \/ b # NoBlock))

Resize(v, n, b) ==
    /\ Live(v)
    /\ IF n <= vec[v].size
       THEN /\ Becomes(v, Resized(vec[v], n))
            /\ Calls("resize", v, 0, n, Zero, "ok")
       ELSE LET r == Reserved(vec[v], n, b)
            IN  /\ Becomes(v, Appended(r, n - r.size, Zero))
                /\ Calls("resize", v, 0, n, Zero, Outcome(n <= r.cap))

Clear(v) == /\ Live(v)
            /\ Becomes(v, Resized(vec[v], 0))
            /\ OnVector("clear", v)

-----------------------------------------------------------------------------
(* Elements at the end: push_back, push_back_n and insert_one at the end.   *)

PushBackN(v, n, a, b) ==
    /\ Live(v)
    /\ a \in Args(vec[v])
    /\ vec[v].size + n <= MaxSize
    /\ LET r == Reserved(vec[v], vec[v].size + n, b)
       IN  /\ \E x \in ReadAfter(vec[v], r, a) : Becomes(v, Appended(r, n, x))
           /\ Calls("insert", v, vec[v].size, n, a, Outcome(vec[v].size + n <= r.cap))

EmplaceBackN(v, n, b) ==
    /\ Live(v)
    /\ vec[v].size + n <= MaxSize
    /\ LET r == Reserved(vec[v], vec[v].size + n, b)
       IN  /\ Becomes(v, Appended(r, n, Zero))
           /\ Calls("insert", v, vec[v].size, n, Zero, Outcome(vec[v].size + n <= r.cap))

PopBack(v) ==
    /\ Live(v)
    /\ LET r == vec[v]
       IN  Becomes(v, IF r.size = 0 THEN r ELSE Resized(r, r.size - 1))
    /\ OnVector("pop_back", v)

-----------------------------------------------------------------------------
(* Elements anywhere.                                                       *)

Throws(op, v, at, n, a) == Unchanged /\ Calls(op, v, at, n, a, "out_of_range")

InsertPastEnd(v, where) == /\ Live(v)
                           /\ where > vec[v].size
                           /\ Throws("insert", v, where, 1, Zero)

(* The elements from where on move up first and the argument is read then:  *)
(* an element behind where has moved away from under the pointer.           *)
InsertInPlace(v, where, a) ==
    /\ Live(v)
    /\ a \in Args(vec[v])
    /\ where < vec[v].size
    /\ vec[v].size < MaxSize
    /\ vec[v].size + 1 <= vec[v].cap
    /\ LET r == vec[v]
           moved == MoveCells(r.cells, where + 1, where, r.size - where)
       IN  Becomes(v, [r EXCEPT !.size = @ + 1,
                                !.cells = [moved EXCEPT ![where] = Deref(moved, a)]])
    /\ Calls("insert", v, where, 1, a, "ok")

(* A new buffer is filled from the old one, if there is one, and the        *)
(* argument is read while the old one is still there.                       *)
InsertedElsewhere(r, where, x, b) ==
    LET cap == Accommodate(r.size + 1, r.cap)
        cell(i) == CASE i < where -> r.cells[i]
                     [] i = where -> x
                     [] i \in where + 1..r.size -> r.cells[i - 1]
                     [] OTHER -> Junk
    IN  IF b = NoBlock THEN r
        ELSE [buf |-> b, size |-> r.size + 1, cap |-> cap,
              cells |-> [i \in 0..cap - 1 |-> cell(i)]]

InsertReallocating(v, where, a, b) ==
    /\ Live(v)
    /\ a \in Args(vec[v])
    /\ where < vec[v].size
    /\ vec[v].size < MaxSize
    /\ vec[v].size + 1 > vec[v].cap
    /\ Becomes(v, InsertedElsewhere(vec[v], where, Deref(vec[v].cells, a), b))
    /\ Calls("insert", v, where, 1, a, Outcome(b # NoBlock))

Clamp(r, start, n) == IF r.size - start < n THEN r.size - start ELSE n

Erased(r, start, n) ==
    LET k == Clamp(r, start, n)
        moved == MoveCells(r.cells, start, start + k, r.size - start - k)
    IN  Resized([r EXCEPT !.cells = moved], r.size - k)

EraseN(op, v, start, n) ==
    IF start >= vec[v].size THEN Throws(op, v, start, n, Zero)
    ELSE Becomes(v, Erased(vec[v], start, n)) /\ Calls(op, v, start, n, Zero, "ok")

Erase(v, start, n) == Live(v) /\ EraseN("erase", v, start, n)

(* The range is turned into a position and a count; erasing nothing at the  *)
(* end is out of range.                                                     *)
EraseRange(v, start, stop) ==
    /\ Live(v)
    /\ start <= vec[v].size
    /\ stop <= vec[v].size
    /\ IF stop < start
       THEN Unchanged /\ Calls("erase_range", v, start, stop - start, Zero, "ok")
       ELSE EraseN("erase_range", v, start, stop - start)

Assign(v, where, a) ==
    /\ Live(v)
    /\ a \in Args(vec[v])
    /\ IF where >= vec[v].size THEN Throws("assign", v, where, 0, a)
       ELSE LET r == vec[v]
            IN  /\ Becomes(v, [r EXCEPT !.cells[where] = Deref(r.cells, a)])
                /\ Calls("assign", v, where, 0, a, "ok")

Removed(r, where) ==
    LET moved == MoveCells(r.cells, where, where + 1, r.size - where - 1)
    IN  [r EXCEPT !.cells = [moved EXCEPT ![r.size - 1] = r.cells[where]]]

Remove(v, where) ==
    /\ Live(v)
    /\ IF where >= vec[v].size THEN Throws("remove", v, where, 0, Zero)
       ELSE /\ Becomes(v, Removed(vec[v], where))
            /\ Calls("remove", v, where, 0, Zero, "ok")

Reversed(r, start, n) ==
    LET last == start + Clamp(r, start, n) - 1
    IN  [r EXCEPT !.cells = [i \in DOMAIN @ |-> IF i \in start..last
                                                THEN @[start + last - i] ELSE @[i]]]

Reverse(v, start, n) ==
    /\ Live(v)
    /\ IF start >= vec[v].size THEN Throws("reverse", v, start, n, Zero)
       ELSE /\ Becomes(v, Reversed(vec[v], start, n))
            /\ Calls("reverse", v, start, n, Zero, "ok")

-----------------------------------------------------------------------------
Counts == 0..MaxSize

Positions == 0..MaxSize + 1         \* one past the longest vector's end

Pointers == Values \cup 0..MaxSize - 1

Lists == UNION { [1..n -> Values] : n \in Counts }

Constructs(v) ==
    \/ \E w \in Vecs : MoveCtor(v, w)
    \/ \E b \in Allocations : \/ \E list \in Lists : Ctor(v, list, b)
                              \/ \E w \in Vecs : CopyCtor(v, w, b)

Grows(v) ==
    \E b \in Allocations :
       \/ ShrinkToFit(v, b)
       \/ \E n \in Counts : \/ Reserve(v, n, b)
                            \/ Resize(v, n, b)
                            \/ EmplaceBackN(v, n, b)
                            \/ \E a \in Pointers : PushBackN(v, n, a, b)
       \/ \E where \in Counts, a \in Pointers : InsertReallocating(v, where, a, b)

Edits(v) ==
    \/ Dtor(v)
    \/ Clear(v)
    \/ PopBack(v)
    \/ \E where \in Positions : InsertPastEnd(v, where) \/ Remove(v, where)
    \/ \E where \in Positions, a \in Pointers :
          InsertInPlace(v, where, a) \/ Assign(v, where, a)
    \/ \E p, n \in Positions : Erase(v, p, n) \/ EraseRange(v, p, n)
                                \/ Reverse(v, p, n)

Next == \E v \in Vecs : Constructs(v) \/ Grows(v) \/ Edits(v)

Spec == Init /\ [][Next]_vars

-----------------------------------------------------------------------------
(* Properties.                                                              *)

(***************************************************************************)
(* A vector's size fits its capacity, its capacity is never below that of  *)
(* its static storage and exactly that when it uses it: the assertions of  *)
(* reserve, copy_from_impl and emplace_back_impl, whatever the calls.      *)
(***************************************************************************)
TypeOK == /\ vec \in [Vecs -> {Absent} \cup Vectors]
          /\ \A v \in Vecs : Live(v) /\ vec[v].buf = Static
                               => vec[v].cap = StaticCap
          /\ heap \subseteq Blocks

(***************************************************************************)
(* No leak, no double free, no sharing: the allocated blocks are exactly   *)
(* the buffers of the vectors outside their static storage, and no two     *)
(* vectors have the same one.  About every allocation, every call of       *)
(* deallocate_if_nonstatic and the exchange of pointers in take_own.       *)
(***************************************************************************)
Allocated(v) == Live(v) /\ vec[v].buf # Static

BuffersAreOwned ==
    /\ heap = { vec[v].buf : v \in { w \in Vecs : Allocated(w) } }
    /\ \A v, w \in Vecs :
          Allocated(v) /\ Allocated(w) /\ vec[v].buf = vec[w].buf => v = w

(***************************************************************************)
(* No call, relocation or move of cells puts into a vector what nobody     *)
(* stored.  The exceptions: push_back and push_back_n of an element of the *)
(* vector itself read it from the old block after reserve has freed it,    *)
(* and a new vector gets the elements of one spoilt that way.              *)
(***************************************************************************)
ReadsFreed(c) ==
    /\ c.op = "insert" /\ c.out = "ok" /\ c.arg \notin Values
    /\ LET r == vec[c.on]
       IN  c.at = r.size /\ r.buf # Static /\ r.size + c.count > r.cap

Spoilt(v) == Live(v) /\ \E i \in 0..vec[v].size - 1 : vec[v].cells[i] \notin Values

ElementsAreValues ==
    [][ \A v \in Vecs : Spoilt(v)' =>
           \/ Spoilt(v)
           \/ call'.on = v /\ ReadsFreed(call')
           \/ /\ call'.on = v /\ call'.op \in {"copy_ctor", "move_ctor"}
              /\ Spoilt(call'.arg) ]_vars

(***************************************************************************)
(* Changing the number of elements moves them to another buffer only when  *)
(* the capacity does not suffice, and then at least doubles it: what       *)
(* reserve is for.  A vector that was moved from starts again.             *)
(***************************************************************************)
MovesOnlyToGrow ==
    [][ \A v \in Vecs :
          /\ Live(v) /\ Live(v)'
          /\ vec'[v].size # vec[v].size
          /\ vec'[v].buf # vec[v].buf
          => \/ /\ vec'[v].size > vec[v].cap
                /\ vec'[v].cap >= 2 * vec[v].cap
             \/ vec'[v] = Fresh ]_vars

Elements(r) == [i \in 1..r.size |-> r.cells[i - 1]]

(***************************************************************************)
(* The calls that do not do what the same call of std::vector does: a      *)
(* growing push_back of one of the vector's own elements from the heap, an *)
(* insert before one of them, and erasing the empty range at the end.      *)
(***************************************************************************)
Lapses(c) ==
    \/ ReadsFreed(c)
    \/ /\ c.op = "insert" /\ c.out = "ok" /\ c.arg \notin Values
       /\ LET r == vec[c.on]
          IN  c.at < r.size /\ r.size < r.cap /\ c.arg > c.at
    \/ c.op = "erase_range" /\ c.count = 0 /\ c.at = vec[c.on].size

(***************************************************************************)
(* small_vector has the modifiers of std::vector (doc/container.rst:73):   *)
(* every call does to the sequence of elements what VectorSpec says, and   *)
(* nothing when memory runs out, the lapses aside.  What a lapse has read  *)
(* is an element like any other from then on.                              *)
(***************************************************************************)
Contents == [v \in Vecs |-> IF Live(v) THEN Elements(vec[v]) ELSE Absent]

Std == INSTANCE VectorSpec WITH seq <- Contents, Values <- Cells

StdModifiers == Std!Init /\ [][~Lapses(call') => Std!Next]_vars

(***************************************************************************)
(* "The container provides standard std::vector-like modifiers: push_back, *)
(* ..., insert" (doc/container.rst:73): the argument may be an element of  *)
(* the vector itself.  Broken when it has moved before it is read.         *)
(***************************************************************************)
ArgumentMayBeAnElement == [][call'.op = "insert" => Std!Next]_vars

(***************************************************************************)
(* visit(vis, 0, vec.size()) shows all elements (doc/container.rst:103).   *)
(* The clamp subtracts the count where the start was meant, in unsigned    *)
(* arithmetic.                                                             *)
(***************************************************************************)
SizeMax == 2 * MaxSize + 3      \* the largest size_type, scaled down

VisitCount(r, start, count) ==
    LET room == (r.size - count) % (SizeMax + 1)
    IN  IF room < count THEN room ELSE count

VisitShowsAll ==
    \A v \in Vecs : Live(v) /\ vec[v].size > 0 =>
       VisitCount(vec[v], 0, vec[v].size) = vec[v].size
=============================================================================
