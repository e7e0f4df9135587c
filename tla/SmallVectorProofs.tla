--------------------------- MODULE SmallVectorProofs ---------------------------
(***************************************************************************)
(* Proofs about SmallVector, for any number of vectors, blocks and values  *)
(* and any bound on the sizes: its invariants, and that it implements      *)
(* VectorSpec.                                                             *)
(***************************************************************************)
EXTENDS SmallVector, SequenceTheorems, FiniteSetTheorems, TLAPS

Buffers == Blocks \cup {Static}

(***************************************************************************)
(* One vector.                                                             *)
(***************************************************************************)
Record(buf, size, cap, cells) ==
  [buf |-> buf, size |-> size, cap |-> cap, cells |-> cells]

IsVector(r) ==
  /\ r = Record(r.buf, r.size, r.cap, r.cells)
  /\ r.buf \in Buffers /\ r.size \in 0..r.cap /\ r.size <= MaxSize
  /\ r.cap \in Capacities
  /\ r.cells \in [0..r.cap - 1 -> Cells]
  /\ r.buf = Static => r.cap = StaticCap

\* All its elements are values that somebody stored.
Pure(r) == \A i \in 0..r.size - 1 : r.cells[i] \in Values

VecInv == vec \in [Vecs -> {Absent} \cup Vectors] /\ \A v \in Vecs : Live(v) => IsVector(vec[v])

Inv == VecInv /\ heap \subseteq Blocks /\ BuffersAreOwned

\* The bounds are numbers.
LEMMA Bounds ==
  /\ StaticCap \in Nat /\ StaticCap >= 1 /\ MaxSize \in Nat
  /\ \A c \in Capacities : c \in Nat /\ c >= 1 /\ c >= StaticCap /\ c <= StaticCap + 2 * MaxSize
  /\ \A c \in Int : StaticCap <= c /\ c <= StaticCap + 2 * MaxSize => c \in Capacities
BY StaticCapAssumption, MaxSizeAssumption DEF Capacities

\* What the code's memory holds of a vector.
LEMMA VectorFacts ==
  ASSUME NEW r, IsVector(r)
  PROVE  /\ r.size \in Nat /\ r.size <= MaxSize /\ r.cap \in Nat /\ r.size <= r.cap
         /\ r.cap >= 1 /\ MaxSize \in Nat
         /\ r.cells \in [0..r.cap - 1 -> Cells]
         /\ DOMAIN r.cells = 0..r.cap - 1
         /\ \A i \in 0..r.size - 1 : r.cells[i] \in Cells
<1>1. /\ r.size \in 0..r.cap /\ r.size <= MaxSize /\ r.cap \in Capacities
      /\ r.cells \in [0..r.cap - 1 -> Cells]
  BY DEF IsVector
<1>2. PICK size, cap : size = r.size /\ cap = r.cap OBVIOUS
<1>3. /\ size \in Nat /\ cap \in Nat /\ size <= cap /\ cap >= 1
      /\ \A i \in 0..size - 1 : i \in 0..cap - 1
  BY <1>1, <1>2, Bounds
<1> QED BY <1>1, <1>2, <1>3, Bounds

\* Values and junk are what cells hold.
LEMMA CellsHold == Values \subseteq Cells /\ Junk \in Cells /\ Zero \in Cells
BY ValuesAssumption DEF Cells

\* Junk is no element, and neither is what allocate gives a block.
LEMMA BlocksAre ==
  /\ Static \notin Blocks /\ NoBlock \notin Blocks /\ NoBlock # Static
  /\ \A b \in Allocations : b = NoBlock \/ (b # NoBlock /\ b \in Blocks /\ b \notin heap)
BY BuffersAssumption DEF Allocations

\* A record of the right parts is a vector.
LEMMA MakeVector ==
  ASSUME NEW buf \in Buffers, NEW cap \in Capacities, NEW size \in 0..cap, size <= MaxSize,
         NEW cells \in [0..cap - 1 -> Cells],
         buf = Static => cap = StaticCap,
         NEW r, r = Record(buf, size, cap, cells)
  PROVE  /\ IsVector(r)
         /\ r.buf = buf /\ r.size = size /\ r.cap = cap /\ r.cells = cells
<1>1. r.buf = buf /\ r.size = size /\ r.cap = cap /\ r.cells = cells BY DEF Record
<1> QED BY <1>1 DEF IsVector

\* What is a vector has a place in the type.
LEMMA VectorsHaveTheirType ==
  ASSUME NEW r, IsVector(r)
  PROVE  r \in Vectors /\ r # Absent
<1>1. r \in [buf : Blocks \cup {Static}, size : 0..r.cap, cap : {r.cap},
             cells : [0..r.cap - 1 -> Cells]]
  BY DEF IsVector, Record, Buffers
<1>2. r \in Vectors BY <1>1 DEF IsVector, Vectors
<1> QED BY <1>2, AbsentAssumption

\* Storage without a vector gets the empty one.
LEMMA FreshIsVector ==
  IsVector(Fresh) /\ Fresh.buf = Static /\ Fresh.size = 0 /\ Pure(Fresh)
<1> DEFINE cells == [i \in 0..StaticCap - 1 |-> Junk]
<1>1. cells \in [0..StaticCap - 1 -> Cells] BY CellsHold
<1>2. StaticCap \in Capacities /\ 0 \in 0..StaticCap /\ 0 <= MaxSize /\ Static \in Buffers
  BY Bounds DEF Buffers
<1>3. Fresh = Record(Static, 0, StaticCap, cells) BY DEF Fresh, Record
<1>4. Pure(Fresh) BY DEF Fresh, Pure
<1> HIDE DEF cells
<1> QED BY <1>1, <1>2, <1>3, <1>4, MakeVector

\* The elements in another buffer.
LEMMA RebufferedIsVector ==
  ASSUME NEW r, IsVector(r), NEW b \in Buffers, NEW cap \in Capacities, r.size <= cap,
         b = Static => cap = StaticCap,
         NEW x, x = Rebuffered(r, b, cap)
  PROVE  /\ IsVector(x) /\ x.buf = b /\ x.size = r.size /\ x.cap = cap
         /\ \A i \in 0..r.size - 1 : x.cells[i] = r.cells[i]
         /\ Pure(r) => Pure(x)
<1> DEFINE cells == [i \in 0..cap - 1 |-> IF i < r.size THEN r.cells[i] ELSE Junk]
<1>1. /\ r.size \in Nat /\ r.size <= MaxSize /\ cap \in Nat
      /\ \A i \in 0..r.size - 1 : r.cells[i] \in Cells
  BY Bounds DEF IsVector
<1>2. \A i \in 0..r.size - 1 : cells[i] = r.cells[i] BY <1>1
<1>3. cells \in [0..cap - 1 -> Cells] BY <1>1, CellsHold
<1>4. x = Record(b, r.size, cap, cells) BY DEF Rebuffered, Record
<1>5. r.size \in 0..cap BY <1>1
<1> HIDE DEF cells
<1>6. /\ IsVector(x) /\ x.buf = b /\ x.size = r.size /\ x.cap = cap
      /\ \A i \in 0..r.size - 1 : x.cells[i] = r.cells[i]
  BY <1>1, <1>2, <1>3, <1>4, <1>5, MakeVector
<1> QED BY <1>6 DEF Pure

\* The capacity that is accommodated is at least doubled, and stays in bounds.
LEMMA AccommodateBounds ==
  ASSUME NEW cap \in Capacities, NEW n \in 0..MaxSize, n > cap
  PROVE  /\ Accommodate(n, cap) \in Capacities
         /\ Accommodate(n, cap) >= n /\ Accommodate(n, cap) >= 2 * cap
         /\ Accommodate(n, cap) \in Nat
<1>1. /\ cap \in Nat /\ cap >= StaticCap /\ StaticCap \in Nat /\ MaxSize \in Nat
      /\ n \in Nat /\ n <= MaxSize
  BY Bounds
<1>2. /\ Accommodate(n, cap) \in Nat /\ Accommodate(n, cap) >= n
      /\ Accommodate(n, cap) >= 2 * cap
      /\ Accommodate(n, cap) >= StaticCap /\ Accommodate(n, cap) <= StaticCap + 2 * MaxSize
  BY <1>1 DEF Accommodate
<1> QED BY <1>2, Bounds

\* reserve keeps the elements, and the buffer if it suffices or allocate throws.
LEMMA ReservedIsVector ==
  ASSUME NEW r, IsVector(r), NEW n \in 0..MaxSize, NEW b \in Blocks \cup {NoBlock},
         NEW x, x = Reserved(r, n, b)
  PROVE  /\ IsVector(x) /\ x.size = r.size /\ (Pure(r) => Pure(x))
         /\ \A i \in 0..r.size - 1 : x.cells[i] = r.cells[i]
         /\ \/ n <= r.cap /\ x = r
            \/ n > r.cap /\ b = NoBlock /\ x = r
            \/ n > r.cap /\ b \in Blocks /\ x.buf = b /\ n <= x.cap /\ x.cap >= 2 * r.cap
<1>1. /\ r.cap \in Capacities /\ r.cap \in Nat /\ n \in Nat /\ r.size \in 0..r.cap
      /\ r.size \in Nat
  BY Bounds DEF IsVector
<1>2. CASE n <= r.cap BY <1>1, <1>2 DEF Reserved
<1>3. CASE n > r.cap /\ b = NoBlock BY <1>1, <1>3 DEF Reserved
<1>4. CASE n > r.cap /\ b # NoBlock
  <2>a. PICK cap : cap = Accommodate(n, r.cap) OBVIOUS
  <2>1. cap \in Capacities /\ cap >= n /\ cap >= 2 * r.cap /\ cap \in Nat
    BY <1>1, <1>4, <2>a, AccommodateBounds
  <2>2. x = Rebuffered(r, b, cap) BY <1>1, <1>4, <2>a DEF Reserved
  <2>3. b \in Blocks /\ b \in Buffers /\ b # Static BY <1>4, BlocksAre DEF Buffers
  <2>4. r.size <= cap BY <1>1, <2>1
  <2>5. /\ IsVector(x) /\ x.buf = b /\ x.size = r.size /\ x.cap = cap
        /\ \A i \in 0..r.size - 1 : x.cells[i] = r.cells[i]
        /\ Pure(r) => Pure(x)
    BY <2>1, <2>2, <2>3, <2>4, RebufferedIsVector
  <2> QED BY <2>1, <2>3, <2>5, <1>4
<1> QED BY <1>1, <1>2, <1>3, <1>4

\* Two fields of a record are replaced.
LEMMA Replaced ==
  ASSUME NEW buf, NEW size, NEW cap, NEW cells, NEW n, NEW f,
         NEW r, r = Record(buf, size, cap, cells),
         NEW x, x = [r EXCEPT !.size = n, !.cells = f]
  PROVE  x = Record(buf, n, cap, f)
<1>1. x = [Record(buf, size, cap, cells) EXCEPT !.size = n, !.cells = f] OBVIOUS
<1> QED BY <1>1 DEF Record

\* cells hold n elements, and fit in a buffer of capacity cap
CellsFit(cells, n, cap) == /\ n \in 0..cap /\ n <= MaxSize
                           /\ cells \in [0..cap - 1 -> Cells]

\* New cells and another size in the same buffer.
LEMMA EditedIsVector ==
  ASSUME NEW r, IsVector(r), NEW n, NEW cells, CellsFit(cells, n, r.cap),
         NEW x, x = Record(r.buf, n, r.cap, cells)
  PROVE  /\ IsVector(x) /\ x.buf = r.buf /\ x.cap = r.cap /\ x.size = n
         /\ x.cells = cells
<1>1. x.buf = r.buf /\ x.size = n /\ x.cap = r.cap /\ x.cells = cells BY DEF Record
<1>2. /\ r.buf \in Buffers /\ r.cap \in Capacities
      /\ r.buf = Static => r.cap = StaticCap
  BY DEF IsVector
<1> QED BY <1>1, <1>2 DEF IsVector, CellsFit

\* Elements at the end are dropped.
LEMMA ResizedIsVector ==
  ASSUME NEW r, IsVector(r), NEW n \in 0..r.size, NEW x, x = Resized(r, n)
  PROVE  /\ IsVector(x) /\ x.buf = r.buf /\ x.cap = r.cap /\ x.size = n
         /\ \A i \in 0..n - 1 : x.cells[i] = r.cells[i]
         /\ Pure(r) => Pure(x)
<1> DEFINE cells == [i \in 0..r.cap - 1 |-> IF i < n THEN r.cells[i] ELSE Junk]
<1>1. /\ r.size \in Nat /\ r.size <= MaxSize /\ r.cap \in Nat /\ r.size <= r.cap
      /\ MaxSize \in Nat /\ n \in Nat
      /\ r.cells \in [0..r.cap - 1 -> Cells]
      /\ \A i \in 0..r.size - 1 : r.cells[i] \in Cells
  BY VectorFacts
<1>2. x = Record(r.buf, n, r.cap, cells)
  <2>1. DOMAIN r.cells = 0..r.cap - 1 BY <1>1
  <2> QED BY <2>1 DEF Resized, Record, IsVector
<1>3. cells \in [0..r.cap - 1 -> Cells] BY <1>1, CellsHold
<1>4. \A i \in 0..n - 1 : cells[i] = r.cells[i] /\ i \in 0..r.size - 1 BY <1>1
<1>5. n \in 0..r.cap /\ n <= MaxSize BY <1>1
<1>6. CellsFit(cells, n, r.cap) BY <1>3, <1>4, <1>5 DEF CellsFit
<1> HIDE DEF cells
<1>7. /\ IsVector(x) /\ x.buf = r.buf /\ x.cap = r.cap /\ x.size = n
      /\ x.cells = cells
  BY <1>2, <1>6, EditedIsVector
<1> QED BY <1>4, <1>7 DEF Pure

\* Elements are put at the end of a buffer that has room.
LEMMA FilledIsVector ==
  ASSUME NEW r, IsVector(r), NEW n \in Nat, r.size + n <= r.cap, r.size + n <= MaxSize,
         NEW y \in Cells, NEW x, x = Filled(r, n, y)
  PROVE  /\ IsVector(x) /\ x.buf = r.buf /\ x.cap = r.cap /\ x.size = r.size + n
         /\ \A i \in 0..r.size - 1 : x.cells[i] = r.cells[i]
         /\ \A i \in r.size..r.size + n - 1 : x.cells[i] = y
         /\ Pure(r) /\ y \in Values => Pure(x)
<1> DEFINE cells == [i \in 0..r.cap - 1 |-> IF i \in r.size..r.size + n - 1 THEN y
                                                                        ELSE r.cells[i]]
           m == r.size + n
<1>1. /\ r.size \in Nat /\ r.size <= MaxSize /\ r.cap \in Nat /\ r.size <= r.cap
      /\ MaxSize \in Nat /\ m \in 0..r.cap
      /\ r.cells \in [0..r.cap - 1 -> Cells]
      /\ \A i \in 0..r.size - 1 : r.cells[i] \in Cells
  BY VectorFacts
<1>2. x = Record(r.buf, m, r.cap, cells)
  <2>1. DOMAIN r.cells = 0..r.cap - 1 BY <1>1
  <2> QED BY <2>1 DEF Filled, FillCells, Record, IsVector
<1>3. cells \in [0..r.cap - 1 -> Cells] BY <1>1
<1>4. /\ \A i \in 0..r.size - 1 : cells[i] = r.cells[i]
      /\ \A i \in r.size..r.size + n - 1 : cells[i] = y
  BY SMTT(20), <1>1
<1>5. \A i \in 0..m - 1 : i \in 0..r.size - 1 \/ i \in r.size..r.size + n - 1 BY <1>1
<1>6. CellsFit(cells, m, r.cap) BY <1>1, <1>3 DEF CellsFit
<1> HIDE DEF cells
<1>7. /\ IsVector(x) /\ x.buf = r.buf /\ x.cap = r.cap /\ x.size = m
      /\ x.cells = cells
  BY <1>2, <1>6, EditedIsVector
<1>8. ASSUME Pure(r), y \in Values PROVE Pure(x) BY <1>4, <1>5, <1>7, <1>8 DEF Pure
<1> QED BY <1>4, <1>7, <1>8

\* The elements of another vector are copied to a buffer that has room.
LEMMA CopiedFromIsVector ==
  ASSUME NEW r, IsVector(r), NEW other, IsVector(other), other.size <= r.cap,
         NEW x, x = CopiedFrom(r, other)
  PROVE  /\ IsVector(x) /\ x.buf = r.buf /\ x.cap = r.cap /\ x.size = other.size
         /\ \A i \in 0..other.size - 1 : x.cells[i] = other.cells[i]
         /\ Pure(other) => Pure(x)
<1> DEFINE cells == [i \in 0..r.cap - 1 |-> IF i < other.size THEN other.cells[i] ELSE Junk]
           n == other.size
<1>1. /\ n \in Nat /\ n <= MaxSize /\ r.cap \in Nat /\ n \in 0..r.cap
      /\ r.cells \in [0..r.cap - 1 -> Cells]
      /\ \A i \in 0..n - 1 : other.cells[i] \in Cells
  BY VectorFacts
<1>2. x = Record(r.buf, n, r.cap, cells)
  <2>1. DOMAIN r.cells = 0..r.cap - 1 BY <1>1
  <2> QED BY <2>1 DEF CopiedFrom, Record, IsVector
<1>3. \A i \in 0..n - 1 : cells[i] = other.cells[i] BY <1>1
<1>4. cells \in [0..r.cap - 1 -> Cells] BY <1>1, CellsHold
<1>5. CellsFit(cells, n, r.cap) BY <1>1, <1>3, <1>4 DEF CellsFit
<1> HIDE DEF cells
<1>6. /\ IsVector(x) /\ x.buf = r.buf /\ x.cap = r.cap /\ x.size = n
      /\ x.cells = cells
  BY <1>2, <1>5, EditedIsVector
<1> QED BY <1>3, <1>6 DEF Pure

\* An initialization list is copied to a buffer that has room: the elements are
\* those of the list.
LEMMA ListedIsVector ==
  ASSUME NEW r, IsVector(r), NEW list \in Seq(Values), Len(list) <= r.cap,
         Len(list) <= MaxSize, NEW x, x = Listed(r, list)
  PROVE  /\ IsVector(x) /\ x.buf = r.buf /\ x.cap = r.cap /\ x.size = Len(list)
         /\ \A i \in 0..Len(list) - 1 : x.cells[i] = list[i + 1]
         /\ Pure(x)
<1> DEFINE n == Len(list)
           cells == [i \in 0..r.cap - 1 |-> IF i < n THEN list[i + 1] ELSE Junk]
<1>1. /\ n \in Nat /\ r.cap \in Nat /\ n \in 0..r.cap
      /\ r.cells \in [0..r.cap - 1 -> Cells]
  BY Bounds, LenProperties DEF IsVector
<1>2. \A i \in 0..n - 1 : list[i + 1] \in Values
  <2> SUFFICES ASSUME NEW i \in 0..n - 1 PROVE list[i + 1] \in Values OBVIOUS
  <2>1. i + 1 \in 1..n BY <1>1
  <2> QED BY <2>1, ElementOfSeq
<1>3. x = Record(r.buf, n, r.cap, cells)
  <2>1. DOMAIN r.cells = 0..r.cap - 1 BY <1>1
  <2> QED BY <2>1 DEF Listed, Record, IsVector
<1>4. \A i \in 0..n - 1 : cells[i] = list[i + 1] /\ cells[i] \in Values BY <1>1, <1>2
<1>5. cells \in [0..r.cap - 1 -> Cells] BY <1>1, <1>2, CellsHold
<1>6. CellsFit(cells, n, r.cap) BY <1>1, <1>4, <1>5 DEF CellsFit
<1> HIDE DEF cells
<1>7. /\ IsVector(x) /\ x.buf = r.buf /\ x.cap = r.cap /\ x.size = n
      /\ x.cells = cells
  BY <1>3, <1>6, EditedIsVector
<1> QED BY <1>4, <1>7 DEF Pure

\* shrink_to_fit keeps the elements, in the static storage, the block or, when
\* allocate throws, where they were.
LEMMA ShrunkIsVector ==
  ASSUME NEW r, IsVector(r), NEW b \in Blocks \cup {NoBlock}, NEW x, x = Shrunk(r, b)
  PROVE  /\ IsVector(x) /\ x.size = r.size /\ (Pure(r) => Pure(x))
         /\ \A i \in 0..r.size - 1 : x.cells[i] = r.cells[i]
         /\ x.buf = r.buf \/ x.buf = Static \/ (x.buf = b /\ b \in Blocks)
<1>1. /\ r.size \in Nat /\ r.size <= r.cap /\ r.cap \in Nat
      /\ r.cap <= StaticCap + 2 * MaxSize /\ StaticCap \in Nat /\ StaticCap \in Capacities
      /\ Static \in Buffers /\ MaxSize \in Nat
  BY Bounds DEF IsVector, Buffers
<1>2. CASE r.buf = Static BY <1>1, <1>2 DEF Shrunk
<1>3. CASE r.buf # Static /\ r.size <= StaticCap
  <2>1. x = Rebuffered(r, Static, StaticCap) BY <1>3 DEF Shrunk
  <2> QED BY <2>1, <1>1, <1>3, RebufferedIsVector
<1>4. CASE r.buf # Static /\ ~(r.size <= StaticCap) /\ b = NoBlock
  BY <1>4 DEF Shrunk
<1>5. CASE r.buf # Static /\ ~(r.size <= StaticCap) /\ b # NoBlock
  <2>a. PICK cap : cap = r.size OBVIOUS
  <2>1. x = Rebuffered(r, b, cap) BY <1>5, <2>a DEF Shrunk
  <2>2. cap \in Capacities /\ r.size <= cap BY <1>1, <1>5, <2>a, Bounds
  <2>3. b \in Blocks /\ b \in Buffers /\ b # Static BY <1>5, BlocksAre DEF Buffers
  <2> QED BY <2>1, <2>2, <2>3, <1>1, <1>5, RebufferedIsVector
<1> QED BY <1>2, <1>3, <1>4, <1>5

\* One field of a record is replaced.
LEMMA ReplacedCells ==
  ASSUME NEW r, IsVector(r), NEW f, NEW x, x = [r EXCEPT !.cells = f]
  PROVE  x = Record(r.buf, r.size, r.cap, f)
BY DEF Record, IsVector

\* One element more in the buffer: those from where on have moved up.
InsertedIn(r, where, a) ==
  LET moved == MoveCells(r.cells, where + 1, where, r.size - where)
  IN  [r EXCEPT !.size = @ + 1, !.cells = [moved EXCEPT ![where] = Deref(moved, a)]]

\* The argument is read after that: one from behind where has moved.
LEMMA InsertedIsVector ==
  ASSUME NEW r, IsVector(r), NEW where \in 0..r.size - 1, r.size < MaxSize,
         r.size + 1 <= r.cap, NEW a \in Args(r), NEW x, x = InsertedIn(r, where, a)
  PROVE  /\ IsVector(x) /\ x.buf = r.buf /\ x.cap = r.cap /\ x.size = r.size + 1
         /\ \A i \in 0..where - 1 : x.cells[i] = r.cells[i]
         /\ \A i \in where + 1..r.size : x.cells[i] = r.cells[i - 1]
         /\ x.cells[where] = IF a \in Values THEN a
                             ELSE IF a <= where THEN r.cells[a] ELSE r.cells[a - 1]
         /\ Pure(r) => Pure(x)
<1>a. PICK sz, cap, old :
         /\ sz = r.size /\ cap = r.cap /\ old = r.cells
         /\ sz \in Nat /\ cap \in Nat /\ old \in [0..cap - 1 -> Cells]
  BY VectorFacts
<1> DEFINE moved == MoveCells(old, where + 1, where, sz - where)
           y == Deref(moved, a)
           cells == [moved EXCEPT ![where] = y]
           n == sz + 1
<1>1. /\ sz \in Nat /\ cap \in Nat /\ sz < MaxSize /\ sz + 1 <= cap /\ MaxSize \in Nat
      /\ where \in Nat /\ where < sz
      /\ \A i \in 0..sz - 1 : old[i] \in Cells
  BY <1>a, VectorFacts
<1>2. moved = [i \in 0..cap - 1 |-> IF i \in where + 1..where + 1 + (sz - where) - 1
                                    THEN old[where + i - (where + 1)] ELSE old[i]]
  BY <1>a DEF MoveCells
<1> HIDE DEF moved
<1>3. /\ moved \in [0..cap - 1 -> Cells]
      /\ \A i \in 0..where : moved[i] = old[i]
      /\ \A i \in where + 1..sz : moved[i] = old[i - 1]
      /\ \A i \in 0..sz : moved[i] \in Cells
  <2>1. \A i \in 0..where : moved[i] = old[i] BY <1>1, <1>2
  <2>2. ASSUME NEW i \in where + 1..sz PROVE moved[i] = old[i - 1]
    <3>1. /\ where + i - (where + 1) = i - 1 /\ i \in 0..cap - 1
          /\ i \in where + 1..where + 1 + (sz - where) - 1
      BY <1>1
    <3> QED BY <3>1, <1>2
  <2>3. ASSUME NEW i \in 0..sz PROVE moved[i] \in Cells
    <3>1. CASE i <= where BY <3>1, <2>1, <1>1
    <3>2. CASE ~(i <= where)
      <4>1. i \in where + 1..sz /\ i - 1 \in 0..sz - 1 BY <3>2, <1>1
      <4> QED BY <4>1, <2>2, <1>1
    <3> QED BY <3>1, <3>2
  <2>4. ASSUME NEW i \in 0..cap - 1 PROVE moved[i] \in Cells
    <3>1. CASE i \in 0..sz BY <3>1, <2>3
    <3>2. CASE i \notin 0..sz
      <4>1. i \notin where + 1..where + 1 + (sz - where) - 1 BY <3>2, <1>1
      <4> QED BY <4>1, <1>2, <1>a
    <3> QED BY <3>1, <3>2
  <2> QED BY <1>2, <2>1, <2>2, <2>3, <2>4
<1>4. /\ y \in Cells
      /\ y = IF a \in Values THEN a ELSE IF a <= where THEN old[a] ELSE old[a - 1]
  <2>1. CASE a \in Values BY <2>1, CellsHold DEF Deref
  <2>2. CASE a \notin Values
    <3>1. a \in 0..sz - 1 /\ y = moved[a] BY <2>2, <1>a DEF Args, Deref
    <3>2. y \in Cells BY <3>1, <1>1, <1>3
    <3>3. a <= where => y = old[a] BY <3>1, <1>1, <1>3
    <3>4. ~(a <= where) => y = old[a - 1] BY <3>1, <1>1, <1>3
    <3> QED BY <2>2, <3>2, <3>3, <3>4
  <2> QED BY <2>1, <2>2
<1>5. x = Record(r.buf, n, cap, cells)
  <2>1. x = [r EXCEPT !.size = n, !.cells = cells] BY <1>a DEF InsertedIn, moved
  <2>2. r = Record(r.buf, sz, cap, old) BY <1>a DEF IsVector
  <2> HIDE DEF cells, n
  <2>3. x = [Record(r.buf, sz, cap, old) EXCEPT !.size = n, !.cells = cells]
    BY <2>1, <2>2
  <2> QED BY <2>3 DEF Record
<1> HIDE DEF y
<1>6. /\ cells \in [0..cap - 1 -> Cells]
      /\ \A i \in 0..where - 1 : cells[i] = old[i]
      /\ \A i \in where + 1..sz : cells[i] = old[i - 1]
      /\ cells[where] = y
      /\ \A i \in 0..n - 1 : cells[i] \in Cells
  BY <1>1, <1>3, <1>4
<1>7. CellsFit(cells, n, cap) BY <1>a, <1>1, <1>6 DEF CellsFit
<1> HIDE DEF cells
<1>8. /\ IsVector(x) /\ x.buf = r.buf /\ x.cap = cap /\ x.size = n
      /\ x.cells = cells
  <2>1. IsVector(r) /\ CellsFit(cells, n, r.cap) /\ x = Record(r.buf, n, r.cap, cells)
    BY <1>a, <1>5, <1>7
  <2>2. /\ IsVector(x) /\ x.buf = r.buf /\ x.cap = r.cap /\ x.size = n /\ x.cells = cells
    BY <2>1, EditedIsVector
  <2> QED BY <2>2, <1>a
<1>9. ASSUME Pure(r) PROVE Pure(x)
  <2>1. \A i \in 0..sz - 1 : old[i] \in Values BY <1>9, <1>a DEF Pure
  <2>2. y \in Values
    <3>1. a \in Values \/ a \in 0..sz - 1 BY <1>a DEF Args
    <3>2. a \in 0..sz - 1 /\ ~(a <= where) => a - 1 \in 0..sz - 1 BY <1>1
    <3> QED BY <3>1, <3>2, <2>1, <1>4
  <2>3. ASSUME NEW i \in 0..n - 1 PROVE cells[i] \in Values
    <3>1. \/ i = where
          \/ i \in 0..where - 1 /\ i \in 0..sz - 1
          \/ i \in where + 1..sz /\ i - 1 \in 0..sz - 1
      BY <1>1
    <3> QED BY <3>1, <2>1, <2>2, <1>6
  <2> QED BY <2>3, <1>8 DEF Pure
<1> QED BY <1>a, <1>4, <1>6, <1>8, <1>9

\* One element more in a new buffer.
InsertedAt(r, where, y, b, cap) ==
  LET cell(i) == CASE i < where -> r.cells[i]
                   [] i = where -> y
                   [] i \in where + 1..r.size -> r.cells[i - 1]
                   [] OTHER -> Junk
  IN  [buf |-> b, size |-> r.size + 1, cap |-> cap, cells |-> [i \in 0..cap - 1 |-> cell(i)]]

\* The elements are those of the old buffer, around the new one.
LEMMA InsertedAtIsVector ==
  ASSUME NEW r, IsVector(r), NEW where \in 0..r.size - 1, r.size < MaxSize,
         r.size + 1 > r.cap, NEW y \in Cells, NEW b \in Blocks,
         NEW x, x = InsertedAt(r, where, y, b, Accommodate(r.size + 1, r.cap))
  PROVE  /\ IsVector(x) /\ x.buf = b /\ x.cap >= 2 * r.cap /\ x.size = r.size + 1
         /\ \A i \in 0..where - 1 : x.cells[i] = r.cells[i]
         /\ \A i \in where + 1..r.size : x.cells[i] = r.cells[i - 1]
         /\ x.cells[where] = y
         /\ Pure(r) /\ y \in Values => Pure(x)
<1>a. PICK cap : cap = Accommodate(r.size + 1, r.cap) OBVIOUS
<1> DEFINE cells == [i \in 0..cap - 1 |->
                       IF i < where THEN r.cells[i]
                       ELSE IF i = where THEN y
                       ELSE IF i \in where + 1..r.size THEN r.cells[i - 1] ELSE Junk]
           n == r.size + 1
<1>1. /\ r.size \in Nat /\ r.size <= MaxSize /\ r.cap \in Nat /\ r.size <= r.cap
      /\ r.cap >= 1 /\ MaxSize \in Nat
      /\ \A i \in 0..r.size - 1 : r.cells[i] \in Cells
  BY VectorFacts
<1>2. cap \in Capacities /\ cap >= n /\ cap >= 2 * r.cap /\ cap \in Nat
  <2>1. r.cap \in Capacities /\ n \in 0..MaxSize BY <1>1 DEF IsVector
  <2> QED BY <2>1, <1>a, AccommodateBounds
<1>3. \A i \in 0..r.size : /\ i < where => cells[i] = r.cells[i]
                           /\ i = where => cells[i] = y
                           /\ i > where => cells[i] = r.cells[i - 1]
  BY <1>1, <1>2
<1>4. /\ \A i \in 0..r.size : cells[i] \in Cells
      /\ cells \in [0..cap - 1 -> Cells]
  <2>1. ASSUME NEW i \in 0..r.size PROVE cells[i] \in Cells
    <3>1. i > where => i - 1 \in 0..r.size - 1 BY <1>1
    <3>2. i < where => i \in 0..r.size - 1 BY <1>1
    <3>3. i < where \/ i = where \/ i > where OBVIOUS
    <3> HIDE DEF cells
    <3> QED BY <3>1, <3>2, <3>3, <1>1, <1>3
  <2>2. ASSUME NEW i \in 0..cap - 1 PROVE cells[i] \in Cells
    <3>1. CASE i \in 0..r.size BY <3>1, <2>1
    <3>2. CASE i \notin 0..r.size BY <3>2, <1>1, CellsHold
    <3> QED BY <3>1, <3>2
  <2> QED BY <2>1, <2>2
<1>5. x = Record(b, n, cap, cells)
  <2>1. ASSUME NEW i \in 0..cap - 1
        PROVE  cells[i] = CASE i < where -> r.cells[i]
                            [] i = where -> y
                            [] i \in where + 1..r.size -> r.cells[i - 1]
                            [] OTHER -> Junk
    BY <1>1, <1>2
  <2> QED BY <1>a, <2>1 DEF InsertedAt, Record
<1>6. b \in Buffers /\ b # Static BY BuffersAssumption DEF Buffers
<1> HIDE DEF cells
<1>7. n \in 0..cap /\ n <= MaxSize BY <1>1, <1>2
<1>8. IsVector(x) /\ x.buf = b /\ x.size = n /\ x.cap = cap /\ x.cells = cells
  <2>1. x.buf = b /\ x.size = n /\ x.cap = cap /\ x.cells = cells BY <1>5 DEF Record
  <2> QED BY SMTT(20), <2>1, <1>2, <1>4, <1>5, <1>6, <1>7 DEF IsVector
<1>9. ASSUME Pure(r), y \in Values PROVE Pure(x)
  <2>1. ASSUME NEW i \in 0..n - 1 PROVE cells[i] \in Values
    <3>1. /\ i \in 0..r.size
          /\ i = where \/ (i < where /\ i \in 0..r.size - 1)
                       \/ (i > where /\ i - 1 \in 0..r.size - 1)
      BY <1>1
    <3>2. \A j \in 0..r.size - 1 : r.cells[j] \in Values BY <1>9 DEF Pure
    <3> QED BY <3>1, <3>2, <1>3, <1>9
  <2> HIDE DEF n
  <2> QED BY <2>1, <1>8 DEF Pure
<1> QED BY <1>1, <1>2, <1>3, <1>8, <1>9

\* Fewer elements: those behind the erased ones have moved down.
LEMMA ErasedIsVector ==
  ASSUME NEW r, IsVector(r), NEW start \in 0..r.size - 1, NEW n \in Nat,
         NEW x, x = Erased(r, start, n),
         NEW k, k = Clamp(r, start, n)
  PROVE  /\ IsVector(x) /\ x.buf = r.buf /\ x.cap = r.cap /\ x.size = r.size - k
         /\ k \in 0..r.size - start /\ k = IF r.size - start < n THEN r.size - start ELSE n
         /\ \A i \in 0..start - 1 : x.cells[i] = r.cells[i]
         /\ \A i \in start..r.size - k - 1 : x.cells[i] = r.cells[i + k]
         /\ Pure(r) => Pure(x)
<1>a. PICK sz, cap, old :
         /\ sz = r.size /\ cap = r.cap /\ old = r.cells
         /\ sz \in Nat /\ cap \in Nat /\ old \in [0..cap - 1 -> Cells]
  BY VectorFacts
<1> DEFINE moved == MoveCells(old, start, start + k, sz - start - k)
           m == sz - k
<1>1. /\ sz \in Nat /\ cap \in Nat /\ sz <= MaxSize /\ sz <= cap /\ cap >= 1 /\ MaxSize \in Nat
      /\ start \in Nat /\ start < sz
      /\ \A i \in 0..sz - 1 : old[i] \in Cells
  <2>1. /\ sz <= MaxSize /\ sz <= cap /\ cap >= 1 /\ MaxSize \in Nat
        /\ \A i \in 0..sz - 1 : old[i] \in Cells
    BY <1>a, VectorFacts
  <2>2. start \in 0..sz - 1 BY <1>a
  <2> QED BY <1>a, <2>1, <2>2
<1>2. /\ k = IF sz - start < n THEN sz - start ELSE n
      /\ k \in Nat /\ k <= sz - start /\ m \in Nat /\ m <= sz
  <2>1. k = IF sz - start < n THEN sz - start ELSE n BY <1>a DEF Clamp
  <2>2. sz - start \in Nat BY <1>1
  <2>3. k \in Nat /\ k <= sz - start
    <3>1. CASE sz - start < n BY <3>1, <2>1, <2>2
    <3>2. CASE ~(sz - start < n) BY <3>2, <2>1, <2>2
    <3> QED BY <3>1, <3>2
  <2>4. sz - k \in Nat /\ sz - k <= sz BY <2>3, <1>1
  <2> QED BY <2>1, <2>3, <2>4
<1>3. moved = [i \in 0..cap - 1 |-> IF i \in start..start + (sz - start - k) - 1
                                    THEN old[start + k + i - start] ELSE old[i]]
  BY <1>a DEF MoveCells
<1> HIDE DEF moved
<1>4. /\ moved \in [0..cap - 1 -> Cells]
      /\ \A i \in 0..start - 1 : moved[i] = old[i]
      /\ \A i \in start..m - 1 : moved[i] = old[i + k]
      /\ \A i \in 0..m - 1 : moved[i] \in Cells
  <2>1. \A i \in 0..start - 1 : moved[i] = old[i] BY <1>1, <1>3
  <2>2. ASSUME NEW i \in start..m - 1 PROVE moved[i] = old[i + k]
    <3>1. /\ start + k + i - start = i + k /\ i \in 0..cap - 1
          /\ i \in start..start + (sz - start - k) - 1
      BY <1>1, <1>2
    <3> QED BY <3>1, <1>3
  <2>3. ASSUME NEW i \in 0..m - 1 PROVE moved[i] \in Cells
    <3>1. CASE i < start BY <3>1, <2>1, <1>1
    <3>2. CASE ~(i < start)
      <4>1. i \in start..m - 1 /\ i + k \in 0..sz - 1 BY <3>2, <1>1, <1>2
      <4> QED BY <4>1, <2>2, <1>1
    <3> QED BY <3>1, <3>2
  <2>4. ASSUME NEW i \in 0..cap - 1 PROVE moved[i] \in Cells
    <3>1. CASE i \in start..start + (sz - start - k) - 1
      <4>1. start + k + i - start \in 0..cap - 1 BY <3>1, <1>1, <1>2
      <4> QED BY <4>1, <3>1, <1>3, <1>a
    <3>2. CASE i \notin start..start + (sz - start - k) - 1 BY <3>2, <1>3, <1>a
    <3> QED BY <3>1, <3>2
  <2> QED BY <1>3, <2>1, <2>2, <2>3, <2>4
<1> DEFINE cells == [i \in 0..cap - 1 |-> IF i < m THEN moved[i] ELSE Junk]
<1>5. x = Record(r.buf, m, cap, cells)
  <2>a. PICK z : z = [r EXCEPT !.cells = moved] OBVIOUS
  <2>1. x = Resized(z, m) BY <2>a, <1>a DEF Erased, moved
  <2>2. z = Record(r.buf, sz, cap, moved) BY <2>a, <1>a, ReplacedCells
  <2>3. z.cells = moved /\ DOMAIN moved = 0..cap - 1 BY <2>2, <1>4 DEF Record
  <2>4. x = [z EXCEPT !.size = m, !.cells = cells] BY <2>1, <2>3 DEF Resized
  <2> HIDE DEF cells, m
  <2>5. x = [Record(r.buf, sz, cap, moved) EXCEPT !.size = m, !.cells = cells]
    BY <2>2, <2>4
  <2> QED BY <2>5 DEF Record
<1>6. /\ cells \in [0..cap - 1 -> Cells]
      /\ \A i \in 0..start - 1 : cells[i] = old[i]
      /\ \A i \in start..m - 1 : cells[i] = old[i + k]
      /\ \A i \in 0..m - 1 : cells[i] \in Cells
  <2>1. \A i \in 0..m - 1 : cells[i] = moved[i] BY <1>1, <1>2
  <2>2. cells \in [0..cap - 1 -> Cells] BY <1>4, CellsHold
  <2>3. \A i \in 0..start - 1 : i \in 0..m - 1 BY <1>1, <1>2
  <2>4. \A i \in start..m - 1 : i \in 0..m - 1 BY <1>1, <1>2
  <2> HIDE DEF cells, m
  <2> QED BY <2>1, <2>2, <2>3, <2>4, <1>4
<1> HIDE DEF cells
<1>7. CellsFit(cells, m, cap)
  <2>1. m \in 0..cap /\ m <= MaxSize BY <1>1, <1>2
  <2> HIDE DEF m
  <2> QED BY <2>1, <1>6 DEF CellsFit
<1>8. /\ IsVector(x) /\ x.buf = r.buf /\ x.cap = cap /\ x.size = m
      /\ x.cells = cells
  <2> HIDE DEF m
  <2>1. CellsFit(cells, m, r.cap) /\ x = Record(r.buf, m, r.cap, cells)
    BY <1>a, <1>5, <1>7
  <2>2. /\ IsVector(x) /\ x.buf = r.buf /\ x.cap = r.cap /\ x.size = m
        /\ x.cells = cells
    BY <2>1, EditedIsVector
  <2> QED BY <1>a, <2>2
<1>9. /\ x.size = r.size - k /\ k \in 0..r.size - start
      /\ k = IF r.size - start < n THEN r.size - start ELSE n
  BY <1>a, <1>1, <1>2, <1>8
<1>10. x.cap = r.cap /\ \A i \in 0..start - 1 : x.cells[i] = r.cells[i]
  BY <1>a, <1>6, <1>8
<1>11. \A i \in start..r.size - k - 1 : x.cells[i] = r.cells[i + k]
  BY <1>a, <1>6, <1>8
<1>12. ASSUME Pure(r) PROVE Pure(x)
  <2> SUFFICES ASSUME NEW i \in 0..m - 1 PROVE cells[i] \in Values BY <1>8 DEF Pure
  <2>1. \/ i \in 0..start - 1 /\ i \in 0..sz - 1
        \/ i \in start..m - 1 /\ i + k \in 0..sz - 1
    BY <1>1, <1>2
  <2> QED BY <2>1, <1>6, <1>12, <1>a DEF Pure
<1> QED BY <1>8, <1>9, <1>10, <1>11, <1>12

\* One element is replaced.
AssignedIn(r, where, y) == [r EXCEPT !.cells[where] = y]

\* The other elements stay.
LEMMA AssignedIsVector ==
  ASSUME NEW r, IsVector(r), NEW where \in 0..r.size - 1, NEW y \in Cells,
         NEW x, x = AssignedIn(r, where, y)
  PROVE  /\ IsVector(x) /\ x.buf = r.buf /\ x.cap = r.cap /\ x.size = r.size
         /\ \A i \in 0..r.size - 1 : x.cells[i] = IF i = where THEN y ELSE r.cells[i]
         /\ Pure(r) /\ y \in Values => Pure(x)
<1> DEFINE cells == [r.cells EXCEPT ![where] = y]
<1>1. /\ r.size \in Nat /\ r.size <= MaxSize /\ r.cap \in Nat /\ r.size <= r.cap
      /\ r.cells \in [0..r.cap - 1 -> Cells]
      /\ \A i \in 0..r.size - 1 : r.cells[i] \in Cells
  BY VectorFacts
<1>2. x = Record(r.buf, r.size, r.cap, cells) BY DEF AssignedIn, Record, IsVector
<1>3. /\ cells \in [0..r.cap - 1 -> Cells]
      /\ \A i \in 0..r.size - 1 : cells[i] = IF i = where THEN y ELSE r.cells[i]
  BY <1>1
<1> HIDE DEF cells
<1>a. PICK n : n = r.size OBVIOUS
<1>4. CellsFit(cells, n, r.cap) BY <1>a, <1>1, <1>3 DEF CellsFit
<1>5. /\ IsVector(x) /\ x.buf = r.buf /\ x.cap = r.cap /\ x.size = n
      /\ x.cells = cells
  <2>1. x = Record(r.buf, n, r.cap, cells) BY <1>a, <1>2
  <2> QED BY <2>1, <1>4, EditedIsVector
<1> QED BY <1>a, <1>3, <1>5 DEF Pure

\* One element is moved behind the others.
LEMMA RemovedIsVector ==
  ASSUME NEW r, IsVector(r), NEW where \in 0..r.size - 1, NEW x, x = Removed(r, where)
  PROVE  /\ IsVector(x) /\ x.buf = r.buf /\ x.cap = r.cap /\ x.size = r.size
         /\ \A i \in 0..where - 1 : x.cells[i] = r.cells[i]
         /\ \A i \in where..r.size - 2 : x.cells[i] = r.cells[i + 1]
         /\ x.cells[r.size - 1] = r.cells[where]
         /\ Pure(r) => Pure(x)
<1>a. PICK sz, cap, old :
         /\ sz = r.size /\ cap = r.cap /\ old = r.cells
         /\ sz \in Nat /\ cap \in Nat /\ old \in [0..cap - 1 -> Cells]
  BY VectorFacts
<1> DEFINE moved == MoveCells(old, where, where + 1, sz - where - 1)
           y == old[where]
           cells == [moved EXCEPT ![sz - 1] = y]
<1>1. /\ sz \in Nat /\ cap \in Nat /\ sz <= MaxSize /\ sz <= cap /\ MaxSize \in Nat
      /\ where \in Nat /\ where < sz /\ y \in Cells
      /\ \A i \in 0..sz - 1 : old[i] \in Cells
  BY <1>a, VectorFacts
<1>2. moved = [i \in 0..cap - 1 |-> IF i \in where..where + (sz - where - 1) - 1
                                    THEN old[where + 1 + i - where] ELSE old[i]]
  BY <1>a DEF MoveCells
<1>5. x = Record(r.buf, sz, cap, cells)
  <2>1. x = [r EXCEPT !.cells = cells] BY <1>a DEF Removed
  <2> HIDE DEF cells
  <2> QED BY <2>1, <1>a, ReplacedCells
<1> HIDE DEF moved, y
<1>3. /\ \A i \in 0..where - 1 : moved[i] = old[i]
      /\ \A i \in where..sz - 2 : moved[i] = old[i + 1] /\ moved[i] \in Cells
      /\ moved \in [0..cap - 1 -> Cells]
  <2>1. \A i \in 0..where - 1 : moved[i] = old[i] BY <1>1, <1>2
  <2>2. ASSUME NEW i \in where..sz - 2 PROVE moved[i] = old[i + 1] /\ moved[i] \in Cells
    <3>1. /\ where + 1 + i - where = i + 1 /\ i \in 0..cap - 1 /\ i + 1 \in 0..sz - 1
          /\ i \in where..where + (sz - where - 1) - 1
      BY <1>1
    <3> QED BY <3>1, <1>1, <1>2
  <2>3. ASSUME NEW i \in 0..cap - 1 PROVE moved[i] \in Cells
    <3>1. CASE i \in where..sz - 2 BY <3>1, <2>2
    <3>2. CASE i \notin where..sz - 2
      <4>1. i \notin where..where + (sz - where - 1) - 1 BY <3>2, <1>1
      <4> QED BY <4>1, <1>2, <1>a
    <3> QED BY <3>1, <3>2
  <2> QED BY <1>2, <2>1, <2>2, <2>3
<1>4. /\ cells \in [0..cap - 1 -> Cells]
      /\ \A i \in 0..where - 1 : cells[i] = old[i]
      /\ \A i \in where..sz - 2 : cells[i] = old[i + 1]
      /\ cells[sz - 1] = y
      /\ \A i \in 0..sz - 1 : cells[i] \in Cells
  <2>1. sz - 1 \in 0..cap - 1 /\ y \in Cells BY <1>1
  <2>2. /\ cells \in [0..cap - 1 -> Cells]
        /\ cells[sz - 1] = y
        /\ \A i \in 0..cap - 1 : i # sz - 1 => cells[i] = moved[i]
    BY <2>1, <1>3
  <2> HIDE DEF cells
  <2>3. \A i \in 0..where - 1 : cells[i] = old[i] BY <2>2, <1>1, <1>3
  <2>4. \A i \in where..sz - 2 : cells[i] = old[i + 1] BY <2>2, <1>1, <1>3
  <2>5. ASSUME NEW i \in 0..sz - 1 PROVE cells[i] \in Cells
    <3>1. CASE i \in 0..where - 1 BY <3>1, <2>3, <1>1
    <3>2. CASE i \in where..sz - 2 BY <3>2, <2>2, <1>1, <1>3
    <3>3. CASE i = sz - 1 BY <3>3, <2>2, <1>1
    <3> QED BY <3>1, <3>2, <3>3, <1>1
  <2> QED BY <2>2, <2>3, <2>4, <2>5
<1> HIDE DEF cells
<1>7. CellsFit(cells, sz, cap) BY <1>a, <1>1, <1>4 DEF CellsFit
<1>8. /\ IsVector(x) /\ x.buf = r.buf /\ x.cap = cap /\ x.size = sz
      /\ x.cells = cells
  <2>1. x = Record(r.buf, sz, r.cap, cells) BY <1>a, <1>5
  <2>2. CellsFit(cells, sz, r.cap) BY <1>a, <1>7
  <2>3. x.cap = r.cap /\ IsVector(x) /\ x.buf = r.buf /\ x.size = sz /\ x.cells = cells
    BY <2>1, <2>2, EditedIsVector
  <2> QED BY <2>3, <1>a
<1>9. y = r.cells[where] BY <1>a DEF y
<1>10. ASSUME Pure(r) PROVE Pure(x)
  <2> SUFFICES ASSUME NEW i \in 0..sz - 1 PROVE cells[i] \in Values BY <1>8 DEF Pure
  <2>1. \/ i \in 0..where - 1
        \/ i \in where..sz - 2 /\ i + 1 \in 0..sz - 1
        \/ i = sz - 1 /\ where \in 0..sz - 1
    BY <1>1
  <2> QED BY <2>1, <1>4, <1>9, <1>10, <1>a DEF Pure
<1> QED BY <1>a, <1>4, <1>8, <1>9, <1>10

\* A part of the elements is reversed.
Turned(x, r, start, n) ==
  \E k \in 0..r.size - start :
     /\ x.size = r.size
     /\ k = IF r.size - start < n THEN r.size - start ELSE n
     /\ \A i \in 0..r.size - 1 : i < start \/ i >= start + k => x.cells[i] = r.cells[i]
     /\ \A i \in start..start + k - 1 : x.cells[i] = r.cells[start + start + k - 1 - i]

\* The rest stays.
LEMMA ReversedIsVector ==
  ASSUME NEW r, IsVector(r), NEW start \in 0..r.size - 1, NEW n \in Nat,
         NEW x, x = Reversed(r, start, n)
  PROVE  /\ IsVector(x) /\ x.buf = r.buf /\ x.cap = r.cap /\ Turned(x, r, start, n)
         /\ Pure(r) => Pure(x)
<1>k. PICK k : k = Clamp(r, start, n) OBVIOUS
<1>a. PICK sz, cap, old :
         /\ sz = r.size /\ cap = r.cap /\ old = r.cells
         /\ sz \in Nat /\ cap \in Nat /\ old \in [0..cap - 1 -> Cells]
  BY VectorFacts
<1>b. PICK last : last = start + k - 1 OBVIOUS
<1> DEFINE cells == [i \in 0..cap - 1 |-> IF i \in start..last THEN old[start + last - i]
                                                             ELSE old[i]]
<1>1. /\ sz \in Nat /\ cap \in Nat /\ sz <= MaxSize /\ sz <= cap /\ cap >= 1 /\ MaxSize \in Nat
      /\ start \in Nat /\ start < sz
      /\ \A i \in 0..sz - 1 : old[i] \in Cells
  BY <1>a, VectorFacts
<1>2. /\ k = IF sz - start < n THEN sz - start ELSE n
      /\ k \in Nat /\ k <= sz - start /\ last \in Int /\ last < sz
  <2>1. k = IF sz - start < n THEN sz - start ELSE n BY <1>a, <1>k DEF Clamp
  <2> QED BY <2>1, <1>1, <1>b
<1>3. x = Record(r.buf, sz, cap, cells)
  <2>1. x = [r EXCEPT !.cells = cells] BY <1>a, <1>b, <1>k DEF Reversed
  <2> HIDE DEF cells
  <2> QED BY <2>1, <1>a, ReplacedCells
<1>4. /\ \A i \in 0..sz - 1 : i \notin start..last => cells[i] = old[i]
      /\ \A i \in start..last : cells[i] = old[start + last - i]
      /\ \A i \in 0..cap - 1 : i \notin 0..sz - 1 => cells[i] = old[i]
  BY <1>1, <1>2
<1>5. \A i \in 0..sz - 1 : cells[i] \in Cells
  <2> SUFFICES ASSUME NEW i \in 0..sz - 1 PROVE cells[i] \in Cells OBVIOUS
  <2> HIDE DEF cells
  <2>1. CASE i \in start..last
    <3>1. start + last - i \in 0..sz - 1 BY <2>1, <1>1, <1>2
    <3> QED BY <3>1, <2>1, <1>1, <1>4
  <2> QED BY <2>1, <1>1, <1>4
<1>6. cells \in [0..cap - 1 -> Cells]
  <2>1. ASSUME NEW i \in 0..cap - 1 PROVE cells[i] \in Cells
    <3> HIDE DEF cells
    <3> QED BY <1>a, <1>4, <1>5
  <2> QED BY <2>1
<1> HIDE DEF cells
<1>7. CellsFit(cells, sz, cap) BY <1>a, <1>1, <1>5, <1>6 DEF CellsFit
<1>8. /\ IsVector(x) /\ x.buf = r.buf /\ x.cap = cap /\ x.size = sz
      /\ x.cells = cells
  BY <1>a, <1>3, <1>7, EditedIsVector
<1>9. \A i \in 0..r.size - 1 : i < start \/ i >= start + k => x.cells[i] = r.cells[i]
  <2> SUFFICES ASSUME NEW i \in 0..sz - 1, i < start \/ i >= start + k
               PROVE  cells[i] = old[i]
    BY <1>a, <1>8
  <2>1. i \notin start..last BY <1>1, <1>2, <1>b
  <2> QED BY <2>1, <1>4
<1>10. \A i \in start..start + k - 1 : x.cells[i] = r.cells[start + start + k - 1 - i]
  <2> SUFFICES ASSUME NEW i \in start..start + k - 1
               PROVE  cells[i] = old[start + start + k - 1 - i]
    BY <1>a, <1>8
  <2>1. i \in start..last /\ start + last - i = start + start + k - 1 - i
    BY <1>1, <1>2, <1>b
  <2> QED BY <2>1, <1>4
<1>11. k \in 0..r.size - start /\ k = IF r.size - start < n THEN r.size - start ELSE n
  BY <1>a, <1>1, <1>2
<1>12. x.size = r.size /\ x.cap = r.cap BY <1>a, <1>8
<1>13. Turned(x, r, start, n) BY <1>9, <1>10, <1>11, <1>12 DEF Turned
<1>14. ASSUME Pure(r) PROVE Pure(x)
  <2> SUFFICES ASSUME NEW i \in 0..sz - 1 PROVE cells[i] \in Values BY <1>8 DEF Pure
  <2>1. i \in start..last => start + last - i \in 0..sz - 1 BY <1>1, <1>2
  <2> QED BY <2>1, <1>4, <1>14, <1>a DEF Pure
<1> QED BY <1>8, <1>12, <1>13, <1>14

(***************************************************************************)
(* Steps.                                                                  *)
(***************************************************************************)
\* A block is allocated when it is the buffer of a vector.
LEMMA HeapIsOwned ==
  ASSUME Inv
  PROVE  /\ \A b : b \in heap <=> \E w \in Vecs : Allocated(w) /\ vec[w].buf = b
         /\ \A u, w \in Vecs : Allocated(u) /\ Allocated(w) /\ vec[u].buf = vec[w].buf => u = w
BY DEF Inv, BuffersAreOwned

\* A vector that is constructed or changed, in a buffer that it owns alone.
LEMMA Placing ==
  ASSUME Inv, NEW v \in Vecs, NEW r, IsVector(r),
         NEW old, old = IF Live(v) THEN vec[v].buf ELSE Static,
         r.buf = old \/ r.buf = Static \/ r.buf \in Blocks \ heap,
         vec' = [vec EXCEPT ![v] = r], heap' = HeapWith(old, r.buf)
  PROVE  Inv'
<1>1. r \in Vectors /\ r # Absent /\ r.buf \in Buffers
  BY VectorsHaveTheirType DEF IsVector
<1>2. /\ \A w \in Vecs : vec'[w] = IF w = v THEN r ELSE vec[w]
      /\ vec' \in [Vecs -> {Absent} \cup Vectors]
  BY <1>1 DEF Inv, VecInv
<1>3. VecInv' BY <1>1, <1>2 DEF Inv, VecInv, Live
<1>4. heap' \subseteq Blocks BY <1>1 DEF Inv, HeapWith, Buffers
<1>5. /\ Allocated(v)' <=> r.buf # Static
      /\ \A w \in Vecs : w # v => (Allocated(w)' <=> Allocated(w)) /\ vec'[w] = vec[w]
  BY <1>1, <1>2 DEF Allocated, Live
<1>6. ASSUME NEW w \in Vecs, w # v, Allocated(w)
      PROVE  vec[w].buf # old /\ vec[w].buf # r.buf /\ vec[w].buf \in heap
  <2>1. vec[w].buf \in heap /\ vec[w].buf # Static BY <1>6, HeapIsOwned DEF Allocated
  <2>2. vec[w].buf # old
    <3>1. CASE Allocated(v) BY <3>1, <1>6, HeapIsOwned DEF Allocated
    <3>2. CASE ~Allocated(v) BY <3>2, <2>1 DEF Allocated
    <3> QED BY <3>1, <3>2
  <2> QED BY <2>1, <2>2
<1>7. \A b \in heap : b = old \/ \E w \in Vecs : w # v /\ Allocated(w) /\ vec[w].buf = b
  BY HeapIsOwned DEF Allocated
<1>8. \A b : b \in heap' <=> \E w \in Vecs : (Allocated(w))' /\ (vec[w].buf)' = b
  <2>1. ASSUME NEW b \in heap' PROVE \E w \in Vecs : (Allocated(w))' /\ (vec[w].buf)' = b
    <3>1. CASE b = r.buf
      <4>1. b # Static BY BuffersAssumption, <1>4
      <4> QED BY <3>1, <4>1, <1>2, <1>5
    <3>2. CASE b # r.buf
      <4>1. b \in heap /\ b # old BY <3>2 DEF HeapWith
      <4> QED BY <4>1, <1>5, <1>7
    <3> QED BY <3>1, <3>2
  <2>2. ASSUME NEW w \in Vecs, (Allocated(w))' PROVE (vec[w].buf)' \in heap'
    <3>1. CASE w = v BY <3>1, <2>2, <1>2, <1>5 DEF HeapWith
    <3>2. CASE w # v
      <4>1. Allocated(w) /\ vec'[w] = vec[w] BY <3>2, <2>2, <1>5
      <4> QED BY <4>1, <3>2, <1>6 DEF HeapWith
    <3> QED BY <3>1, <3>2
  <2> QED BY <2>1, <2>2
<1>9. \A u, w \in Vecs : (Allocated(u))' /\ (Allocated(w))' /\ (vec[u].buf)' = (vec[w].buf)'
                          => u = w
  <2> SUFFICES ASSUME NEW u \in Vecs, NEW w \in Vecs, (Allocated(u))', (Allocated(w))',
                      (vec[u].buf)' = (vec[w].buf)', u # w
               PROVE  FALSE
    OBVIOUS
  <2>1. CASE u = v
    <3>1. Allocated(w) /\ vec'[w] = vec[w] BY <2>1, <1>5
    <3> QED BY <3>1, <2>1, <1>2, <1>6
  <2>2. CASE w = v
    <3>1. Allocated(u) /\ vec'[u] = vec[u] BY <2>2, <1>5
    <3> QED BY <3>1, <2>2, <1>2, <1>6
  <2>3. CASE u # v /\ w # v
    <3>1. Allocated(u) /\ vec'[u] = vec[u] /\ Allocated(w) /\ vec'[w] = vec[w]
      BY <2>3, <1>5
    <3> QED BY <3>1, HeapIsOwned
  <2> QED BY <2>1, <2>2, <2>3
<1>10. (BuffersAreOwned)'
  <2>1. heap' = { vec'[w].buf : w \in { u \in Vecs : (Allocated(u))' } } BY <1>8
  <2> QED BY <2>1, <1>9 DEF BuffersAreOwned
<1> QED BY <1>3, <1>4, <1>10 DEF Inv

\* What MovesOnlyToGrow says of a step, and of one vector in it.
Grown(old, r) ==
  r.size # old.size /\ r.buf # old.buf => r.size > old.cap /\ r.cap >= 2 * old.cap

OnlyGrows ==
  \A v \in Vecs : /\ Live(v) /\ Live(v)'
                  /\ vec'[v].size # vec[v].size
                  /\ vec'[v].buf # vec[v].buf
                  => \/ /\ vec'[v].size > vec[v].cap
                        /\ vec'[v].cap >= 2 * vec[v].cap
                     \/ vec'[v] = Fresh

\* What ElementsAreValues says of a step.
Lapsed(v) == call'.on = v /\ ReadsFreed(call')

Copied(v) == /\ call'.on = v /\ call'.op \in {"copy_ctor", "move_ctor"}
             /\ Spoilt(call'.arg)

NoneSpoilt ==
  \A v \in Vecs : Spoilt(v)' =>
     \/ Spoilt(v)
     \/ call'.on = v /\ ReadsFreed(call')
     \/ /\ call'.on = v /\ call'.op \in {"copy_ctor", "move_ctor"}
        /\ Spoilt(call'.arg)

Good == OnlyGrows /\ NoneSpoilt

\* One vector changes, in its own buffer, its static storage or a new block.
Changes(v, r) == /\ IsVector(r)
                 /\ r.buf = vec[v].buf \/ r.buf = Static \/ r.buf \in Blocks \ heap
                 /\ Grown(vec[v], r)
                 /\ Pure(vec[v]) => Pure(r) \/ Lapsed(v)
                 /\ Becomes(v, r)

\* A vector is spoilt when some element is not a value, ...
LEMMA SpoiltIs ==
  ASSUME NEW v \in Vecs
  PROVE  /\ Spoilt(v) <=> Live(v) /\ ~Pure(vec[v])
         /\ (Spoilt(v))' <=> (Live(v))' /\ ~Pure(vec'[v])
<1>1. Spoilt(v) <=> Live(v) /\ ~Pure(vec[v]) BY DEF Spoilt, Pure
<1>2. (Spoilt(v))' <=> (Live(v))' /\ ~Pure(vec'[v]) BY DEF Spoilt, Pure
<1> QED BY <1>1, <1>2

\* ... and not by a step that leaves it alone.
LEMMA StaysUnspoilt ==
  ASSUME NEW v \in Vecs, vec'[v] = vec[v]
  PROVE  (Spoilt(v))' => Spoilt(v)
BY SpoiltIs DEF Live

\* Such a change keeps the invariant and moves only to grow.
LEMMA ChangeIsRight ==
  ASSUME Inv, NEW v \in Vecs, Live(v), NEW r, Changes(v, r)
  PROVE  Inv' /\ Good
<1>1. Inv'
  <2>1. vec[v].buf = IF Live(v) THEN vec[v].buf ELSE Static OBVIOUS
  <2> QED BY <2>1, Placing DEF Changes, Becomes
<1>2. OnlyGrows
  <2>1. \A w \in Vecs : vec'[w] = IF w = v THEN r ELSE vec[w]
    BY DEF Changes, Becomes, Inv, VecInv
  <2> QED BY <2>1 DEF Changes, Grown, OnlyGrows
<1>3. NoneSpoilt
  <2>1. \A w \in Vecs : vec'[w] = IF w = v THEN r ELSE vec[w]
    BY DEF Changes, Becomes, Inv, VecInv
  <2>2. \A w \in Vecs : w # v => ((Spoilt(w))' => Spoilt(w)) BY <2>1, StaysUnspoilt
  <2>3. (Spoilt(v))' => Spoilt(v) \/ Lapsed(v) BY <2>1, SpoiltIs DEF Changes
  <2> QED BY <2>2, <2>3 DEF NoneSpoilt, Lapsed, Copied
<1> QED BY <1>1, <1>2, <1>3 DEF Good

\* A new vector leaves the others alone.
LEMMA BeginningIsRight ==
  ASSUME Inv, NEW v \in Vecs, ~Live(v), NEW r, IsVector(r),
         r.buf = Static \/ r.buf \in Blocks \ heap, Pure(r) \/ Copied(v), Begins(v, r)
  PROVE  Inv' /\ Good
<1>1. Inv'
  <2>1. Static = IF Live(v) THEN vec[v].buf ELSE Static OBVIOUS
  <2> QED BY <2>1, Placing DEF Begins
<1>2. OnlyGrows
  <2>1. \A w \in Vecs : vec'[w] = IF w = v THEN r ELSE vec[w]
    BY DEF Begins, Inv, VecInv
  <2> QED BY <2>1 DEF OnlyGrows
<1>3. NoneSpoilt
  <2>1. \A w \in Vecs : vec'[w] = IF w = v THEN r ELSE vec[w]
    BY DEF Begins, Inv, VecInv
  <2>2. \A w \in Vecs : w # v => ((Spoilt(w))' => Spoilt(w)) BY <2>1, StaysUnspoilt
  <2>3. (Spoilt(v))' => Copied(v) BY <2>1, SpoiltIs
  <2> QED BY <2>2, <2>3 DEF NoneSpoilt, Lapsed, Copied
<1> QED BY <1>1, <1>2, <1>3 DEF Good

\* Nothing changes.
LEMMA NothingIsRight == ASSUME Inv, Unchanged PROVE Inv' /\ Good
<1>1. vec' = vec /\ heap' = heap BY DEF Unchanged
<1>2. Inv' BY <1>1 DEF Inv, VecInv, BuffersAreOwned, Live, Allocated
<1>3. NoneSpoilt BY <1>1, StaysUnspoilt DEF NoneSpoilt
<1> QED BY <1>1, <1>2, <1>3 DEF OnlyGrows, Good

\* A constructor that gets no memory leaves nothing behind.
LEMMA AbandoningIsNothing ==
  ASSUME NEW r, r.buf = Static, Abandons(r)
  PROVE  Unchanged
BY DEF Abandons, HeapWith, Unchanged

\* An initialization list is a sequence of values.
LEMMA ListsAre ==
  ASSUME NEW list \in Lists
  PROVE  /\ list \in Seq(Values) /\ list \in Seq(Cells)
         /\ Len(list) \in 0..MaxSize /\ Len(list) <= MaxSize
<1>1. PICK n \in Counts : list \in [1..n -> Values] BY DEF Lists
<1>2. n \in Nat /\ n \in 0..MaxSize /\ n <= MaxSize BY Bounds DEF Counts
<1>3. list \in Seq(Values) /\ Len(list) = n BY <1>1, <1>2
<1>4. list \in [1..n -> Cells] BY <1>1, CellsHold
<1>5. list \in Seq(Cells) BY <1>2, <1>4
<1> QED BY <1>2, <1>3, <1>5

\* The constructors.
LEMMA CtorIsRight ==
  ASSUME Inv, NEW v \in Vecs, NEW list \in Lists, NEW b \in Allocations, Ctor(v, list, b)
  PROVE  Inv' /\ Good
<1>1. list \in Seq(Values) /\ Len(list) \in 0..MaxSize /\ Len(list) <= MaxSize
  BY ListsAre
<1>a. PICK n : n = Len(list) OBVIOUS
<1>b. PICK r : r = Reserved(Fresh, n, b) OBVIOUS
<1>2. /\ IsVector(r)
      /\ \/ n <= r.cap /\ (r.buf = Static \/ r.buf \in Blocks \ heap)
         \/ ~(n <= r.cap) /\ r.buf = Static
  <2>1. b = NoBlock \/ (b # NoBlock /\ b \in Blocks /\ b \notin heap) BY BlocksAre
  <2>2. Fresh.cap \in Nat /\ n \in Nat BY <1>1, <1>a, FreshIsVector, VectorFacts
  <2>3. /\ IsVector(r)
        /\ \/ n <= Fresh.cap /\ r = Fresh
           \/ n > Fresh.cap /\ b = NoBlock /\ r = Fresh
           \/ n > Fresh.cap /\ b \in Blocks /\ r.buf = b /\ n <= r.cap
    BY <2>1, <1>1, <1>a, <1>b, FreshIsVector, ReservedIsVector
  <2> QED BY <2>1, <2>2, <2>3, FreshIsVector, BlocksAre
<1>3. CASE n <= r.cap
  <2>1. PICK x : x = Listed(r, list) OBVIOUS
  <2>2. IsVector(x) /\ x.buf = r.buf /\ Pure(x)
    BY <1>1, <1>2, <1>3, <1>a, <2>1, ListedIsVector
  <2>3. ~Live(v) /\ Begins(v, x) BY <1>3, <1>a, <1>b, <2>1 DEF Ctor
  <2> QED BY <1>2, <1>3, <2>2, <2>3, BeginningIsRight
<1>4. CASE ~(n <= r.cap)
  <2>1. Abandons(r) BY <1>4, <1>a, <1>b DEF Ctor
  <2> QED BY <2>1, <1>2, <1>4, AbandoningIsNothing, NothingIsRight
<1> QED BY <1>3, <1>4

\* The copy constructor allocates a buffer of its own.
LEMMA CopyCtorIsRight ==
  ASSUME Inv, NEW v \in Vecs, NEW w \in Vecs, NEW b \in Allocations, CopyCtor(v, w, b)
  PROVE  Inv' /\ Good
<1>a. PICK other, n : other = vec[w] /\ n = other.size OBVIOUS
<1>b. PICK r : r = Reserved(Fresh, n, b) OBVIOUS
<1>1. IsVector(other) /\ n \in 0..MaxSize /\ n \in Nat
  <2>1. IsVector(other) BY <1>a DEF CopyCtor, Inv, VecInv
  <2> QED BY <2>1, <1>a, VectorFacts
<1>2. /\ IsVector(r)
      /\ \/ n <= r.cap /\ (r.buf = Static \/ r.buf \in Blocks \ heap)
         \/ ~(n <= r.cap) /\ r.buf = Static
  <2>1. b = NoBlock \/ (b # NoBlock /\ b \in Blocks /\ b \notin heap) BY BlocksAre
  <2>2. Fresh.cap \in Nat BY FreshIsVector, VectorFacts
  <2>3. /\ IsVector(r)
        /\ \/ n <= Fresh.cap /\ r = Fresh
           \/ n > Fresh.cap /\ b = NoBlock /\ r = Fresh
           \/ n > Fresh.cap /\ b \in Blocks /\ r.buf = b /\ n <= r.cap
    BY <2>1, <1>1, <1>b, FreshIsVector, ReservedIsVector
  <2> QED BY <2>1, <2>2, <2>3, <1>1, FreshIsVector, BlocksAre
<1>3. CASE n <= r.cap
  <2>1. PICK x : x = CopiedFrom(r, other) OBVIOUS
  <2>2. IsVector(x) /\ x.buf = r.buf /\ (Pure(other) => Pure(x))
    BY <1>a, <1>1, <1>2, <1>3, <2>1, CopiedFromIsVector
  <2>3. ~Live(v) /\ Live(w) /\ Begins(v, x) BY <1>3, <1>a, <1>b, <2>1 DEF CopyCtor
  <2>4. Pure(x) \/ Copied(v)
    <3>1. call'.on = v /\ call'.op = "copy_ctor" /\ call'.arg = w BY DEF CopyCtor, Calls
    <3> QED BY <3>1, <2>2, <2>3, <1>a, SpoiltIs DEF Copied
  <2> QED BY <1>2, <1>3, <2>2, <2>3, <2>4, BeginningIsRight
<1>4. CASE ~(n <= r.cap)
  <2>1. Abandons(r) BY <1>4, <1>a, <1>b DEF CopyCtor
  <2> QED BY <2>1, <1>2, <1>4, AbandoningIsNothing, NothingIsRight
<1> QED BY <1>3, <1>4

\* A vector that takes over spoilt elements is spoilt, and no other.
LEMMA MovingSpoils ==
  ASSUME NEW v \in Vecs, NEW w \in Vecs, Live(w), MoveCtor(v, w)
  PROVE  Pure(vec[w]) \/ Copied(v)
<1>1. call'.on = v /\ call'.op = "move_ctor" /\ call'.arg = w BY DEF MoveCtor, Calls
<1> QED BY <1>1, SpoiltIs DEF Copied

\* take_own: the elements that lie in static storage are copied ...
LEMMA StaticMoveIsRight ==
  ASSUME Inv, NEW v \in Vecs, NEW w \in Vecs, ~Live(v), Live(w),
         ~(vec[w].size # 0 /\ vec[w].buf # Static), MoveCtor(v, w)
  PROVE  Inv' /\ Good
<1>a. PICK other, x : other = vec[w] /\ x = CopiedFrom(Fresh, other) OBVIOUS
<1>1. IsVector(other) BY <1>a DEF Inv, VecInv
<1>2. other.size <= StaticCap /\ IsVector(Fresh) /\ Fresh.cap = StaticCap
  <2>1. other.size = 0 \/ other.cap = StaticCap BY <1>a, <1>1 DEF IsVector
  <2>2. other.size <= StaticCap BY <2>1, <1>1, VectorFacts, Bounds
  <2> QED BY <2>2, FreshIsVector DEF Fresh
<1>3. IsVector(x) /\ x.buf = Static /\ (Pure(other) => Pure(x))
  BY <1>a, <1>1, <1>2, FreshIsVector, CopiedFromIsVector
<1>4. Begins(v, x)
  <2>1. vec' = [vec EXCEPT ![v] = x] /\ heap' = heap BY <1>a DEF MoveCtor
  <2>2. HeapWith(Static, Static) = heap BY DEF HeapWith
  <2> QED BY <2>1, <2>2, <1>3 DEF Begins
<1>5. Pure(x) \/ Copied(v) BY <1>a, <1>3, MovingSpoils
<1> QED BY <1>3, <1>4, <1>5, BeginningIsRight

\* ... and an allocated buffer changes hands.
LEMMA BufferMoveIsRight ==
  ASSUME Inv, NEW v \in Vecs, NEW w \in Vecs, ~Live(v), Live(w),
         vec[w].size # 0 /\ vec[w].buf # Static, MoveCtor(v, w)
  PROVE  Inv' /\ Good
<1>1. vec' = [vec EXCEPT ![v] = vec[w], ![w] = Fresh] /\ heap' = heap BY DEF MoveCtor
<1>2. v # w /\ IsVector(vec[w]) /\ vec[w] \in Vectors /\ Fresh \in Vectors
      /\ IsVector(Fresh) /\ Fresh.buf = Static /\ Fresh # Absent
  BY FreshIsVector, VectorsHaveTheirType DEF Inv, VecInv
<1>3. /\ vec'[v] = vec[w] /\ vec'[w] = Fresh
      /\ \A u \in Vecs \ {v, w} : vec'[u] = vec[u]
      /\ vec' \in [Vecs -> {Absent} \cup Vectors]
  BY <1>1, <1>2 DEF Inv, VecInv
<1>4. VecInv' BY <1>2, <1>3 DEF Inv, VecInv, Live
<1>5. /\ Allocated(w) /\ ~Allocated(v) /\ (Allocated(v))' /\ ~(Allocated(w))'
      /\ \A u \in Vecs \ {v, w} : (Allocated(u))' <=> Allocated(u)
  BY <1>2, <1>3 DEF Allocated, Live
<1>6. \A b : b \in heap' <=> \E u \in Vecs : (Allocated(u))' /\ (vec[u].buf)' = b
  <2>1. ASSUME NEW b \in heap PROVE \E u \in Vecs : (Allocated(u))' /\ (vec[u].buf)' = b
    <3>1. PICK u \in Vecs : Allocated(u) /\ vec[u].buf = b BY HeapIsOwned
    <3>2. CASE u = w BY <3>1, <3>2, <1>3, <1>5
    <3>3. CASE u # w BY <3>1, <3>3, <1>3, <1>5
    <3> QED BY <3>2, <3>3
  <2>2. ASSUME NEW u \in Vecs, (Allocated(u))' PROVE (vec[u].buf)' \in heap
    <3>1. CASE u = v BY <3>1, <1>3, <1>5, HeapIsOwned
    <3>2. CASE u # v BY <3>2, <2>2, <1>3, <1>5, HeapIsOwned
    <3> QED BY <3>1, <3>2
  <2> QED BY <2>1, <2>2, <1>1
<1>7. \A u, z \in Vecs : (Allocated(u))' /\ (Allocated(z))' /\ (vec[u].buf)' = (vec[z].buf)'
                          => u = z
  <2> SUFFICES ASSUME NEW u \in Vecs, NEW z \in Vecs, (Allocated(u))', (Allocated(z))',
                      (vec[u].buf)' = (vec[z].buf)', u # z
               PROVE  FALSE
    OBVIOUS
  <2>1. CASE u = v
    <3>1. Allocated(z) /\ vec'[z] = vec[z] /\ z # w BY <2>1, <1>3, <1>5
    <3> QED BY <3>1, <2>1, <1>3, <1>5, HeapIsOwned
  <2>2. CASE z = v
    <3>1. Allocated(u) /\ vec'[u] = vec[u] /\ u # w BY <2>2, <1>3, <1>5
    <3> QED BY <3>1, <2>2, <1>3, <1>5, HeapIsOwned
  <2>3. CASE u # v /\ z # v
    <3>1. Allocated(u) /\ vec'[u] = vec[u] /\ Allocated(z) /\ vec'[z] = vec[z]
      BY <2>3, <1>3, <1>5
    <3> QED BY <3>1, HeapIsOwned
  <2> QED BY <2>1, <2>2, <2>3
<1>8. (BuffersAreOwned)'
  <2>1. heap' = { vec'[u].buf : u \in { z \in Vecs : (Allocated(z))' } } BY <1>6
  <2> QED BY <2>1, <1>7 DEF BuffersAreOwned
<1>9. Inv' BY <1>1, <1>4, <1>8 DEF Inv
<1>10. OnlyGrows BY <1>3 DEF OnlyGrows
<1>11. NoneSpoilt
  <2>1. \A u \in Vecs \ {v, w} : (Spoilt(u))' => Spoilt(u) BY <1>3, StaysUnspoilt
  <2>2. (Spoilt(v))' => Copied(v) BY <1>3, SpoiltIs, MovingSpoils
  <2>3. ~(Spoilt(w))' BY <1>3, SpoiltIs, FreshIsVector
  <2> QED BY <2>1, <2>2, <2>3 DEF NoneSpoilt, Copied
<1> QED BY <1>9, <1>10, <1>11 DEF Good

\* The destructor frees the vector's own block only.
LEMMA DtorIsRight ==
  ASSUME Inv, NEW v \in Vecs, Dtor(v)
  PROVE  Inv' /\ Good
<1>1. /\ Live(v) /\ vec' = [vec EXCEPT ![v] = Absent]
      /\ heap' = heap \ ({vec[v].buf} \ {Static})
  BY DEF Dtor, HeapWith
<1>2. /\ vec'[v] = Absent /\ vec' \in [Vecs -> {Absent} \cup Vectors]
      /\ \A u \in Vecs \ {v} : vec'[u] = vec[u]
  BY <1>1 DEF Inv, VecInv
<1>3. VecInv' BY <1>2 DEF Inv, VecInv, Live
<1>4. ~(Allocated(v))' /\ \A u \in Vecs \ {v} : (Allocated(u))' <=> Allocated(u)
  BY <1>2 DEF Allocated, Live
<1>5. \A b : b \in heap' <=> \E u \in Vecs : (Allocated(u))' /\ (vec[u].buf)' = b
  <2>1. ASSUME NEW b \in heap' PROVE \E u \in Vecs : (Allocated(u))' /\ (vec[u].buf)' = b
    <3>1. PICK u \in Vecs : Allocated(u) /\ vec[u].buf = b BY <1>1, HeapIsOwned
    <3>2. u # v BY <3>1, <1>1 DEF Allocated
    <3> QED BY <3>1, <3>2, <1>2, <1>4
  <2>2. ASSUME NEW u \in Vecs, (Allocated(u))' PROVE (vec[u].buf)' \in heap'
    <3>1. u # v /\ Allocated(u) /\ vec'[u] = vec[u] BY <2>2, <1>2, <1>4
    <3>2. vec[u].buf \in heap BY <3>1, HeapIsOwned
    <3>3. vec[v].buf # Static => vec[u].buf # vec[v].buf
      BY <3>1, <1>1, HeapIsOwned DEF Allocated
    <3> QED BY <3>1, <3>2, <3>3, <1>1
  <2> QED BY <2>1, <2>2
<1>6. \A u, z \in Vecs : (Allocated(u))' /\ (Allocated(z))' /\ (vec[u].buf)' = (vec[z].buf)'
                          => u = z
  <2> SUFFICES ASSUME NEW u \in Vecs, NEW z \in Vecs, (Allocated(u))', (Allocated(z))',
                      (vec[u].buf)' = (vec[z].buf)'
               PROVE  u = z
    OBVIOUS
  <2>1. u # v /\ z # v BY <1>4
  <2>2. Allocated(u) /\ vec'[u] = vec[u] /\ Allocated(z) /\ vec'[z] = vec[z]
    BY <2>1, <1>2, <1>4
  <2> QED BY <2>2, HeapIsOwned
<1>7. (BuffersAreOwned)'
  <2>1. heap' = { vec'[u].buf : u \in { z \in Vecs : (Allocated(z))' } } BY <1>5
  <2> QED BY <2>1, <1>6 DEF BuffersAreOwned
<1>8. Inv' BY <1>1, <1>3, <1>7 DEF Inv
<1>9. OnlyGrows BY <1>2 DEF OnlyGrows, Live
<1>10. NoneSpoilt
  <2>1. \A u \in Vecs \ {v} : (Spoilt(u))' => Spoilt(u) BY <1>2, StaysUnspoilt
  <2>2. ~(Spoilt(v))' BY <1>2, SpoiltIs DEF Live
  <2> QED BY <2>1, <2>2 DEF NoneSpoilt
<1> QED BY <1>8, <1>9, <1>10 DEF Good

\* A vector of the state.
LEMMA LiveVector ==
  ASSUME Inv, NEW v \in Vecs, Live(v)
  PROVE  IsVector(vec[v])
BY DEF Inv, VecInv

\* reserve and shrink_to_fit change no size.
LEMMA ReserveChanges ==
  ASSUME Inv, NEW v \in Vecs, NEW n \in Counts, NEW b \in Allocations, Reserve(v, n, b)
  PROVE  Live(v) /\ \E r : Changes(v, r)
<1>a. PICK old, r : old = vec[v] /\ r = Reserved(old, n, b) OBVIOUS
<1>1. Live(v) /\ Becomes(v, r) BY <1>a DEF Reserve
<1>2. IsVector(old) BY <1>a, <1>1, LiveVector
<1>3. n \in 0..MaxSize /\ (b = NoBlock \/ (b \in Blocks /\ b \notin heap))
  BY BlocksAre DEF Counts
<1>4. /\ IsVector(r) /\ r.size = old.size /\ (Pure(old) => Pure(r))
      /\ r = old \/ (r.buf = b /\ b \in Blocks)
  BY <1>a, <1>2, <1>3, ReservedIsVector
<1>5. r.buf = old.buf \/ r.buf \in Blocks \ heap BY <1>3, <1>4, BlocksAre
<1>6. Changes(v, r) BY <1>a, <1>1, <1>4, <1>5 DEF Changes, Grown
<1> QED BY <1>1, <1>6

\* shrink_to_fit goes back to the static storage or to a smaller block.
LEMMA ShrinkChanges ==
  ASSUME Inv, NEW v \in Vecs, NEW b \in Allocations, ShrinkToFit(v, b)
  PROVE  Live(v) /\ \E r : Changes(v, r)
<1>a. PICK old, r : old = vec[v] /\ r = Shrunk(old, b) OBVIOUS
<1>1. Live(v) /\ Becomes(v, r) BY <1>a DEF ShrinkToFit
<1>2. IsVector(old) BY <1>a, <1>1, LiveVector
<1>3. b = NoBlock \/ (b \in Blocks /\ b \notin heap) BY BlocksAre
<1>4. /\ IsVector(r) /\ r.size = old.size /\ (Pure(old) => Pure(r))
      /\ r.buf = old.buf \/ r.buf = Static \/ (r.buf = b /\ b \in Blocks)
  BY <1>a, <1>2, <1>3, ShrunkIsVector
<1>5. r.buf = old.buf \/ r.buf = Static \/ r.buf \in Blocks \ heap
  BY <1>3, <1>4, BlocksAre
<1>6. Changes(v, r) BY <1>a, <1>1, <1>4, <1>5 DEF Changes, Grown
<1> QED BY <1>1, <1>6

\* The buffer that reserve leaves for n more elements: the old one, which has room
\* or gets no memory, or a new one.
LEMMA RoomFor ==
  ASSUME Inv, NEW v \in Vecs, Live(v), NEW n \in Nat, vec[v].size + n <= MaxSize,
         NEW b \in Allocations, NEW m, m = vec[v].size + n,
         NEW r, r = Reserved(vec[v], m, b)
  PROVE  /\ IsVector(r) /\ r.size = vec[v].size /\ r.size \in Nat /\ r.cap \in Nat
         /\ (Pure(vec[v]) => Pure(r)) /\ m \in Nat /\ m <= MaxSize /\ vec[v].cap \in Nat
         /\ \A i \in 0..r.size - 1 : r.cells[i] = vec[v].cells[i]
         /\ \/ m <= r.cap /\ m <= vec[v].cap /\ r = vec[v]
            \/ ~(m <= r.cap) /\ r = vec[v]
            \/ /\ m <= r.cap /\ m > vec[v].cap /\ r.cap >= 2 * vec[v].cap
               /\ r.buf \in Blocks \ heap
<1>a. PICK old : old = vec[v] OBVIOUS
<1>1. IsVector(old) BY <1>a, LiveVector
<1>2. old.size \in Nat /\ old.cap \in Nat /\ m \in 0..MaxSize /\ m \in Nat /\ m <= MaxSize
  BY <1>a, <1>1, VectorFacts
<1>3. b = NoBlock \/ (b # NoBlock /\ b \in Blocks /\ b \notin heap) BY BlocksAre
<1>4. /\ IsVector(r) /\ r.size = old.size /\ (Pure(old) => Pure(r))
      /\ \A i \in 0..old.size - 1 : r.cells[i] = old.cells[i]
      /\ \/ m <= old.cap /\ r = old
         \/ m > old.cap /\ b = NoBlock /\ r = old
         \/ m > old.cap /\ b \in Blocks /\ r.buf = b /\ m <= r.cap /\ r.cap >= 2 * old.cap
  BY <1>a, <1>1, <1>2, <1>3, ReservedIsVector
<1>5. r.cap \in Nat BY <1>4, VectorFacts
<1>6. \/ m <= r.cap /\ m <= old.cap /\ r = old
      \/ ~(m <= r.cap) /\ r = old
      \/ m <= r.cap /\ m > old.cap /\ r.cap >= 2 * old.cap /\ r.buf \in Blocks \ heap
  <2>1. CASE m <= old.cap /\ r = old BY <2>1
  <2>2. CASE m > old.cap /\ b = NoBlock /\ r = old BY <2>2, <1>2
  <2>3. CASE m > old.cap /\ b \in Blocks /\ r.buf = b /\ m <= r.cap /\ r.cap >= 2 * old.cap
    BY <2>3, <1>3, BlocksAre
  <2> QED BY <2>1, <2>2, <2>3, <1>4
<1> QED BY <1>a, <1>2, <1>4, <1>5, <1>6

\* Elements are put at the end of a buffer that was made large enough, or the
\* vector stays as it is.
LEMMA FillingChanges ==
  ASSUME Inv, NEW v \in Vecs, Live(v), NEW n \in Nat, vec[v].size + n <= MaxSize,
         NEW b \in Allocations, NEW r, r = Reserved(vec[v], vec[v].size + n, b),
         NEW y \in Cells, Pure(vec[v]) => y \in Values \/ Lapsed(v),
         NEW x, x = Appended(r, n, y), Becomes(v, x)
  PROVE  Changes(v, x)
<1>a. PICK old, m : old = vec[v] /\ m = old.size + n OBVIOUS
<1>1. /\ IsVector(r) /\ r.size = old.size /\ r.size \in Nat /\ r.cap \in Nat
      /\ (Pure(old) => Pure(r)) /\ m \in Nat /\ m <= MaxSize /\ old.cap \in Nat
      /\ \/ m <= r.cap /\ m <= old.cap /\ r = old
         \/ ~(m <= r.cap) /\ r = old
         \/ m <= r.cap /\ m > old.cap /\ r.cap >= 2 * old.cap /\ r.buf \in Blocks \ heap
  BY <1>a, RoomFor
<1>2. CASE m <= r.cap
  <2>1. x = Filled(r, n, y) /\ r.size + n <= r.cap /\ r.size + n <= MaxSize
    BY <1>1, <1>2, <1>a DEF Appended
  <2>2. /\ IsVector(x) /\ x.buf = r.buf /\ x.cap = r.cap /\ x.size = r.size + n
        /\ Pure(r) /\ y \in Values => Pure(x)
    BY <1>1, <2>1, FilledIsVector
  <2>3. Grown(old, x)
    <3>1. x.size = m BY <1>1, <2>2, <1>a
    <3> QED BY <3>1, <1>1, <1>2, <2>2 DEF Grown
  <2>4. x.buf = old.buf \/ x.buf \in Blocks \ heap BY <1>1, <1>2, <2>2
  <2>5. Pure(old) => Pure(x) \/ Lapsed(v) BY <1>1, <2>2, <1>a
  <2> QED BY <2>2, <2>3, <2>4, <2>5, <1>a DEF Changes
<1>3. CASE ~(m <= r.cap)
  <2>1. x = old BY <1>1, <1>3, <1>a DEF Appended
  <2> QED BY <2>1, <1>1, <1>3, <1>a DEF Changes, Grown
<1> QED BY <1>2, <1>3

\* resize fills up with zeros, or drops elements.
LEMMA ResizeChanges ==
  ASSUME Inv, NEW v \in Vecs, NEW n \in Counts, NEW b \in Allocations, Resize(v, n, b)
  PROVE  Live(v) /\ \E r : Changes(v, r)
<1>a. PICK old, sz : old = vec[v] /\ sz = old.size OBVIOUS
<1>1. Live(v) /\ n \in Nat /\ n <= MaxSize /\ MaxSize \in Nat BY Bounds DEF Resize, Counts
<1>2. IsVector(old) /\ sz \in Nat BY <1>a, <1>1, LiveVector, VectorFacts
<1>3. CASE ~(n <= sz)
  <2>a. PICK m, r : m = n - sz /\ r = Reserved(old, n, b) OBVIOUS
  <2>1. m \in Nat /\ sz + m = n BY <2>a, <1>1, <1>2, <1>3
  <2>2. PICK x : x = Appended(r, m, Zero) OBVIOUS
  <2>3. r = Reserved(vec[v], vec[v].size + m, b) BY <2>a, <2>1, <1>a
  <2>4. vec[v].size + m <= MaxSize BY <2>1, <1>1, <1>a
  <2>5. r.size = sz BY <2>1, <2>3, <2>4, <1>1, <1>a, RoomFor
  <2>6. Becomes(v, x) BY <1>3, <1>a, <2>a, <2>2, <2>5 DEF Resize
  <2> QED BY <2>1, <2>2, <2>3, <2>4, <2>6, <1>1, FillingChanges, ValuesAssumption, CellsHold
<1>4. CASE n <= sz
  <2>a. PICK x : x = Resized(old, n) OBVIOUS
  <2>1. Becomes(v, x) BY <1>4, <1>a, <2>a DEF Resize
  <2>2. n \in 0..old.size BY <1>1, <1>2, <1>4, <1>a
  <2>3. IsVector(x) /\ x.buf = old.buf /\ (Pure(old) => Pure(x))
    BY <2>a, <2>2, <1>2, ResizedIsVector
  <2> QED BY <2>1, <2>3, <1>1, <1>a DEF Changes, Grown
<1> QED BY <1>3, <1>4

\* clear keeps the buffer.
LEMMA ClearChanges ==
  ASSUME Inv, NEW v \in Vecs, Clear(v)
  PROVE  Live(v) /\ \E r : Changes(v, r)
<1>a. PICK old, x : old = vec[v] /\ x = Resized(old, 0) OBVIOUS
<1>1. Live(v) /\ Becomes(v, x) BY <1>a DEF Clear
<1>2. IsVector(old) /\ 0 \in 0..old.size
  <2>1. IsVector(old) BY <1>a, <1>1, LiveVector
  <2> QED BY <2>1, VectorFacts
<1>3. IsVector(x) /\ x.buf = old.buf /\ (Pure(old) => Pure(x))
  BY <1>a, <1>2, ResizedIsVector
<1> QED BY <1>1, <1>3, <1>a DEF Changes, Grown

\* So does pop_back, which does nothing to an empty vector.
LEMMA PopBackChanges ==
  ASSUME Inv, NEW v \in Vecs, PopBack(v)
  PROVE  Live(v) /\ \E r : Changes(v, r)
<1>a. PICK old, sz, n : old = vec[v] /\ sz = old.size /\ n = sz - 1 OBVIOUS
<1>1. Live(v) BY DEF PopBack
<1>2. IsVector(old) /\ sz \in Nat BY <1>a, <1>1, LiveVector, VectorFacts
<1>3. CASE sz = 0
  <2>1. Becomes(v, old) BY <1>3, <1>a DEF PopBack
  <2> QED BY <2>1, <1>1, <1>2, <1>a DEF Changes, Grown
<1>4. CASE sz # 0
  <2>a. PICK x : x = Resized(old, n) OBVIOUS
  <2>1. Becomes(v, x) BY <1>4, <1>a, <2>a DEF PopBack
  <2>2. n \in 0..old.size BY <1>2, <1>4, <1>a
  <2>3. IsVector(x) /\ x.buf = old.buf /\ (Pure(old) => Pure(x))
    BY <2>a, <2>2, <1>2, ResizedIsVector
  <2> QED BY <2>1, <2>3, <1>1, <1>a DEF Changes, Grown
<1> QED BY <1>3, <1>4

\* emplace_back appends zeros.
LEMMA EmplaceChanges ==
  ASSUME Inv, NEW v \in Vecs, NEW n \in Counts, NEW b \in Allocations, EmplaceBackN(v, n, b)
  PROVE  Live(v) /\ \E r : Changes(v, r)
<1>1. n \in Nat BY Bounds DEF Counts
<1>a. PICK r : r = Reserved(vec[v], vec[v].size + n, b) OBVIOUS
<1>2. PICK x : x = Appended(r, n, Zero) OBVIOUS
<1>3. Live(v) /\ vec[v].size + n <= MaxSize /\ Becomes(v, x)
  BY <1>a, <1>2 DEF EmplaceBackN
<1> QED BY <1>1, <1>a, <1>2, <1>3, FillingChanges, ValuesAssumption, CellsHold

\* What an argument points to is a value, unless the vector is spoilt; read after
\* the old buffer was freed, it is anything.
LEMMA ArgumentIsAValue ==
  ASSUME NEW r, IsVector(r), NEW a \in Args(r)
  PROVE  /\ Deref(r.cells, a) \in Cells /\ (Pure(r) => Deref(r.cells, a) \in Values)
         /\ \A x : /\ ReadAfter(r, x, a) \subseteq Cells
                   /\ ~Dangles(r, x, a) => ReadAfter(r, x, a) = {Deref(r.cells, a)}
<1>1. Deref(r.cells, a) \in Cells BY VectorFacts, CellsHold DEF Args, Deref
<1>2. Pure(r) => Deref(r.cells, a) \in Values BY DEF Pure, Args, Deref
<1> QED BY <1>1, <1>2 DEF ReadAfter

\* Only a push_back that leaves the heap block its argument lies in reads freed
\* memory.
LEMMA OnlyLapsesDangle ==
  ASSUME Inv, NEW v \in Vecs, NEW n \in Nat, NEW a, NEW b \in Allocations,
         PushBackN(v, n, a, b), NEW r, r = Reserved(vec[v], vec[v].size + n, b),
         Dangles(vec[v], r, a)
  PROVE  Lapsed(v)
<1>a. PICK old, m : old = vec[v] /\ m = old.size + n OBVIOUS
<1>1. Live(v) /\ m <= MaxSize BY <1>a DEF PushBackN
<1>2. a \notin Values /\ r.buf # old.buf /\ old.buf # Static BY <1>a DEF Dangles
<1>3. m <= r.cap /\ m > old.cap BY <1>a, <1>1, <1>2, RoomFor
<1>4. /\ call'.op = "insert" /\ call'.on = v /\ call'.at = old.size /\ call'.count = n
      /\ call'.arg = a /\ call'.out = Outcome(m <= r.cap)
  BY <1>a DEF PushBackN, Calls
<1>5. call'.out = "ok" BY <1>3, <1>4 DEF Outcome
<1> QED BY <1>2, <1>3, <1>4, <1>5, <1>a DEF Lapsed, ReadsFreed

\* push_back appends a value, or is a lapse.
LEMMA PushBackChanges ==
  ASSUME Inv, NEW v \in Vecs, NEW n \in Counts, NEW a \in Pointers, NEW b \in Allocations,
         PushBackN(v, n, a, b)
  PROVE  Live(v) /\ \E r : Changes(v, r)
<1>1. n \in Nat BY Bounds DEF Counts
<1>a. PICK r : r = Reserved(vec[v], vec[v].size + n, b) OBVIOUS
<1>2. Live(v) /\ a \in Args(vec[v]) /\ vec[v].size + n <= MaxSize BY DEF PushBackN
<1>3. PICK y \in ReadAfter(vec[v], r, a) : Becomes(v, Appended(r, n, y))
  BY <1>a DEF PushBackN
<1>4. /\ y \in Cells
      /\ ~Dangles(vec[v], r, a) => y = Deref(vec[v].cells, a)
      /\ Pure(vec[v]) => Deref(vec[v].cells, a) \in Values
  BY <1>2, <1>3, LiveVector, ArgumentIsAValue
<1>5. Pure(vec[v]) => y \in Values \/ Lapsed(v) BY <1>1, <1>4, <1>a, OnlyLapsesDangle
<1>6. PICK x : x = Appended(r, n, y) OBVIOUS
<1>7. Becomes(v, x) BY <1>3, <1>6
<1> QED BY <1>1, <1>2, <1>4, <1>5, <1>6, <1>7, <1>a, FillingChanges

\* Changes in the vector's own buffer.
LEMMA EditChanges ==
  ASSUME Inv, NEW v \in Vecs, Live(v), NEW x, IsVector(x), x.buf = vec[v].buf,
         Pure(vec[v]) => Pure(x), Becomes(v, x)
  PROVE  \E r : Changes(v, r)
BY DEF Changes, Grown

\* insert in a buffer that has room.
LEMMA InsertChanges ==
  ASSUME Inv, NEW v \in Vecs, NEW where \in Nat, NEW a \in Pointers,
         InsertInPlace(v, where, a)
  PROVE  Live(v) /\ \E r : Changes(v, r)
<1>a. PICK old, x : old = vec[v] /\ x = InsertedIn(old, where, a) OBVIOUS
<1>1. Live(v) /\ a \in Args(old) /\ where < old.size
      /\ old.size < MaxSize /\ old.size + 1 <= old.cap
  BY <1>a DEF InsertInPlace
<1>2. IsVector(old) BY <1>a, <1>1, LiveVector
<1>3. where \in 0..old.size - 1
  <2>1. old.size \in Nat BY <1>2, VectorFacts
  <2> QED BY <2>1, <1>1
<1>4. Becomes(v, x) BY <1>a DEF InsertInPlace, InsertedIn
<1>5. IsVector(x) /\ x.buf = old.buf /\ (Pure(old) => Pure(x))
  BY <1>a, <1>1, <1>2, <1>3, InsertedIsVector
<1> QED BY <1>a, <1>1, <1>4, <1>5, EditChanges

\* insert in a larger buffer, if there is one.
LEMMA ReallocatingChanges ==
  ASSUME Inv, NEW v \in Vecs, NEW where \in Nat, NEW a \in Pointers, NEW b \in Allocations,
         InsertReallocating(v, where, a, b)
  PROVE  Live(v) /\ \E r : Changes(v, r)
<1>a. PICK old, y : old = vec[v] /\ y = Deref(old.cells, a) OBVIOUS
<1>b. PICK x : x = InsertedElsewhere(old, where, y, b) OBVIOUS
<1>1. Live(v) /\ a \in Args(old) /\ where < old.size
      /\ old.size < MaxSize /\ old.size + 1 > old.cap
  BY <1>a DEF InsertReallocating
<1>2. IsVector(old) BY <1>a, <1>1, LiveVector
<1>3. where \in 0..old.size - 1 /\ old.size \in Nat /\ old.cap \in Nat
  <2>1. old.size \in Nat /\ old.cap \in Nat BY <1>2, VectorFacts
  <2> QED BY <2>1, <1>1
<1>4. y \in Cells /\ (Pure(old) => y \in Values) BY <1>a, <1>1, <1>2, ArgumentIsAValue
<1>5. Becomes(v, x) BY <1>a, <1>b DEF InsertReallocating
<1>6. CASE b = NoBlock
  <2>1. x = old BY <1>6, <1>b DEF InsertedElsewhere
  <2> QED BY <2>1, <1>1, <1>2, <1>5, <1>a, EditChanges
<1>7. CASE b # NoBlock
  <2>1. b \in Blocks /\ b \notin heap BY <1>7, BlocksAre
  <2>2. x = InsertedAt(old, where, y, b, Accommodate(old.size + 1, old.cap))
    BY <1>7, <1>b DEF InsertedElsewhere, InsertedAt
  <2>3. /\ IsVector(x) /\ x.buf = b /\ x.cap >= 2 * old.cap /\ x.size = old.size + 1
        /\ Pure(old) /\ y \in Values => Pure(x)
    BY <2>1, <2>2, <1>1, <1>2, <1>3, <1>4, InsertedAtIsVector
  <2>4. x.size > old.cap BY <1>1, <1>3, <2>3
  <2> QED BY <1>1, <1>4, <1>5, <2>1, <2>3, <2>4, <1>a DEF Changes, Grown
<1> QED BY <1>6, <1>7

\* A call that throws changes nothing; one that erases moves elements down.
LEMMA EraseNChanges ==
  ASSUME Inv, NEW v \in Vecs, Live(v), NEW op, NEW start \in Nat, NEW n \in Nat,
         EraseN(op, v, start, n)
  PROVE  Unchanged \/ \E r : Changes(v, r)
<1>a. PICK old, x : old = vec[v] /\ x = Erased(old, start, n) OBVIOUS
<1>1. CASE start >= old.size BY <1>1, <1>a DEF EraseN, Throws
<1>2. CASE ~(start >= old.size)
  <2>1. Becomes(v, x) BY <1>2, <1>a DEF EraseN
  <2>2. IsVector(old) BY <1>a, LiveVector
  <2>3. start \in 0..old.size - 1
    <3>1. old.size \in Nat BY <2>2, VectorFacts
    <3> QED BY <3>1, <1>2
  <2>4. PICK k : k = Clamp(old, start, n) OBVIOUS
  <2>5. IsVector(x) /\ x.buf = old.buf /\ (Pure(old) => Pure(x))
    BY <1>a, <2>2, <2>3, <2>4, ErasedIsVector
  <2> QED BY <1>a, <2>1, <2>5, EditChanges
<1> QED BY <1>1, <1>2

\* erase, of a count or of a range.
LEMMA EraseChanges ==
  ASSUME Inv, NEW v \in Vecs, NEW p \in Nat, NEW n \in Nat,
         Erase(v, p, n) \/ EraseRange(v, p, n)
  PROVE  Live(v) /\ (Unchanged \/ \E r : Changes(v, r))
<1>1. CASE Erase(v, p, n) BY <1>1, EraseNChanges DEF Erase
<1>2. CASE EraseRange(v, p, n)
  <2>1. CASE n < p BY <1>2, <2>1 DEF EraseRange
  <2>2. CASE ~(n < p)
    <3>a. PICK k : k = n - p OBVIOUS
    <3>1. k \in Nat BY <3>a, <2>2
    <3>2. Live(v) /\ EraseN("erase_range", v, p, k) BY <1>2, <2>2, <3>a DEF EraseRange
    <3> QED BY <3>1, <3>2, EraseNChanges
  <2> QED BY <2>1, <2>2
<1> QED BY <1>1, <1>2

\* assign stores a value, or throws.
LEMMA AssignChanges ==
  ASSUME Inv, NEW v \in Vecs, NEW where \in Nat, NEW a \in Pointers, Assign(v, where, a)
  PROVE  Live(v) /\ (Unchanged \/ \E r : Changes(v, r))
<1>a. PICK old, y : old = vec[v] /\ y = Deref(old.cells, a) OBVIOUS
<1>b. PICK x : x = AssignedIn(old, where, y) OBVIOUS
<1>1. Live(v) /\ a \in Args(old) BY <1>a DEF Assign
<1>2. IsVector(old) BY <1>a, <1>1, LiveVector
<1>3. CASE where >= old.size BY <1>1, <1>3, <1>a DEF Assign, Throws
<1>4. CASE ~(where >= old.size)
  <2>1. Becomes(v, x) BY <1>4, <1>a, <1>b DEF Assign, AssignedIn
  <2>2. where \in 0..old.size - 1
    <3>1. old.size \in Nat BY <1>2, VectorFacts
    <3> QED BY <3>1, <1>4
  <2>3. y \in Cells /\ (Pure(old) => y \in Values) BY <1>a, <1>1, <1>2, ArgumentIsAValue
  <2>4. IsVector(x) /\ x.buf = old.buf /\ (Pure(old) => Pure(x))
    BY <1>b, <1>2, <2>2, <2>3, AssignedIsVector
  <2> QED BY <1>a, <1>1, <2>1, <2>4, EditChanges
<1> QED BY <1>3, <1>4

\* remove keeps every value.
LEMMA RemoveChanges ==
  ASSUME Inv, NEW v \in Vecs, NEW where \in Nat, Remove(v, where)
  PROVE  Live(v) /\ (Unchanged \/ \E r : Changes(v, r))
<1>a. PICK old, x : old = vec[v] /\ x = Removed(old, where) OBVIOUS
<1>1. Live(v) BY DEF Remove
<1>2. IsVector(old) BY <1>a, <1>1, LiveVector
<1>3. CASE where >= old.size BY <1>1, <1>3, <1>a DEF Remove, Throws
<1>4. CASE ~(where >= old.size)
  <2>1. Becomes(v, x) BY <1>4, <1>a DEF Remove
  <2>2. where \in 0..old.size - 1
    <3>1. old.size \in Nat BY <1>2, VectorFacts
    <3> QED BY <3>1, <1>4
  <2>3. IsVector(x) /\ x.buf = old.buf /\ (Pure(old) => Pure(x))
    BY <1>a, <1>2, <2>2, RemovedIsVector
  <2> QED BY <1>a, <1>1, <2>1, <2>3, EditChanges
<1> QED BY <1>3, <1>4

\* So does reverse.
LEMMA ReverseChanges ==
  ASSUME Inv, NEW v \in Vecs, NEW p \in Nat, NEW n \in Nat, Reverse(v, p, n)
  PROVE  Live(v) /\ (Unchanged \/ \E r : Changes(v, r))
<1>a. PICK old, x : old = vec[v] /\ x = Reversed(old, p, n) OBVIOUS
<1>1. Live(v) BY DEF Reverse
<1>2. IsVector(old) BY <1>a, <1>1, LiveVector
<1>3. CASE p >= old.size BY <1>1, <1>3, <1>a DEF Reverse, Throws
<1>4. CASE ~(p >= old.size)
  <2>1. Becomes(v, x) BY <1>4, <1>a DEF Reverse
  <2>2. p \in 0..old.size - 1
    <3>1. old.size \in Nat BY <1>2, VectorFacts
    <3> QED BY <3>1, <1>4
  <2>3. IsVector(x) /\ x.buf = old.buf /\ (Pure(old) => Pure(x))
    BY <1>a, <1>2, <2>2, ReversedIsVector
  <2> QED BY <1>a, <1>1, <2>1, <2>3, EditChanges
<1> QED BY <1>3, <1>4

\* The invariant holds at first, ...
LEMMA InitEstablishes == ASSUME Init PROVE Inv
<1>1. vec \in [Vecs -> {Absent} \cup Vectors] /\ heap = {}
      /\ \A v \in Vecs : ~Live(v)
  BY DEF Init, Live
<1>2. VecInv BY <1>1 DEF VecInv
<1>3. BuffersAreOwned BY <1>1 DEF BuffersAreOwned, Allocated
<1> QED BY <1>1, <1>2, <1>3 DEF Inv

\* ... every step keeps it, and no step moves elements
\* without need or stores what nobody gave.
LEMMA NextIsRight == ASSUME Inv, Next PROVE Inv' /\ Good
<1>a. PICK v \in Vecs : Constructs(v) \/ Grows(v) \/ Edits(v) BY DEF Next
<1>b. Counts \subseteq Nat /\ Positions \subseteq Nat BY Bounds DEF Counts, Positions
<1>c. Live(v) /\ (\E r : Changes(v, r)) => Inv' /\ Good BY ChangeIsRight
<1>d. Unchanged => Inv' /\ Good BY NothingIsRight
<1>1. CASE Constructs(v)
  <2>1. ASSUME NEW w \in Vecs, MoveCtor(v, w) PROVE Inv' /\ Good
    <3>1. ~Live(v) /\ Live(w) BY <2>1 DEF MoveCtor
    <3>2. CASE vec[w].size # 0 /\ vec[w].buf # Static
      BY <3>1, <3>2, <2>1, BufferMoveIsRight
    <3>3. CASE ~(vec[w].size # 0 /\ vec[w].buf # Static)
      BY <3>1, <3>3, <2>1, StaticMoveIsRight
    <3> QED BY <3>2, <3>3
  <2> QED BY <1>1, <2>1, CtorIsRight, CopyCtorIsRight DEF Constructs
<1>2. CASE Grows(v)
  <2>2. ASSUME NEW b \in Allocations, ShrinkToFit(v, b) PROVE Inv' /\ Good
    BY <2>2, <1>c, ShrinkChanges
  <2>3. ASSUME NEW b \in Allocations, NEW n \in Counts,
               \/ Reserve(v, n, b) \/ Resize(v, n, b) \/ EmplaceBackN(v, n, b)
               \/ \E a \in Pointers : PushBackN(v, n, a, b)
        PROVE  Inv' /\ Good
    BY <2>3, <1>c, ReserveChanges, ResizeChanges, EmplaceChanges, PushBackChanges
  <2>4. ASSUME NEW b \in Allocations, NEW where \in Counts, NEW a \in Pointers,
               InsertReallocating(v, where, a, b)
        PROVE  Inv' /\ Good
    <3>1. where \in Nat BY <1>b
    <3> QED BY <2>4, <3>1, <1>c, ReallocatingChanges
  <2> QED BY <1>2, <2>2, <2>3, <2>4 DEF Grows
<1>3. CASE Edits(v)
  <2>1. ASSUME Dtor(v) PROVE Inv' /\ Good BY <2>1, DtorIsRight
  <2>2. ASSUME Clear(v) \/ PopBack(v) PROVE Inv' /\ Good
    BY <2>2, <1>c, ClearChanges, PopBackChanges
  <2>3. ASSUME NEW where \in Positions, InsertPastEnd(v, where) \/ Remove(v, where)
        PROVE  Inv' /\ Good
    <3>1. where \in Nat BY <1>b
    <3> QED BY <2>3, <3>1, <1>c, <1>d, RemoveChanges DEF InsertPastEnd, Throws
  <2>4. ASSUME NEW where \in Positions, NEW a \in Pointers,
               InsertInPlace(v, where, a) \/ Assign(v, where, a)
        PROVE  Inv' /\ Good
    <3>1. where \in Nat BY <1>b
    <3> QED BY <2>4, <3>1, <1>c, <1>d, InsertChanges, AssignChanges
  <2>5. ASSUME NEW p \in Positions, NEW n \in Positions,
               Erase(v, p, n) \/ EraseRange(v, p, n) \/ Reverse(v, p, n)
        PROVE  Inv' /\ Good
    <3>1. p \in Nat /\ n \in Nat BY <1>b
    <3> QED BY <2>5, <3>1, <1>c, <1>d, EraseChanges, ReverseChanges
  <2> QED BY <1>3, <2>1, <2>2, <2>3, <2>4, <2>5 DEF Edits
<1> QED BY <1>a, <1>1, <1>2, <1>3

\* A step that changes no variable keeps everything.
LEMMA StutterIsRight == ASSUME Inv, UNCHANGED vars PROVE Inv'
BY NothingIsRight DEF vars, Unchanged

\* The invariant of every run.
LEMMA Invariance == Spec => []Inv
<1>1. Init => Inv BY InitEstablishes
<1>2. Inv /\ [Next]_vars => Inv' BY NextIsRight, StutterIsRight
<1> QED BY <1>1, <1>2, PTL DEF Spec

\* TypeOK: whatever the calls, a vector's size fits its capacity, and the
\* capacity is that of the static storage exactly when the vector uses it.
THEOREM TypeCorrect == Spec => []TypeOK
<1>1. Inv => TypeOK BY DEF Inv, VecInv, IsVector, TypeOK
<1> QED BY <1>1, Invariance, PTL

\* BuffersAreOwned: the blocks of the heap are the buffers of the vectors
\* outside their static storage, one each; none leaks and none is freed twice.
THEOREM EveryBlockHasOneOwner == Spec => []BuffersAreOwned
<1>1. Inv => BuffersAreOwned BY DEF Inv
<1> QED BY <1>1, Invariance, PTL

\* ElementsAreValues: no step puts into a vector what nobody stored, except a
\* push_back that reads an element of the vector itself from a freed block, and a
\* copy or move of a vector spoilt that way.
THEOREM NoElementIsJunk == Spec => ElementsAreValues
<1>1. Inv /\ [Next]_vars => [NoneSpoilt]_vars BY NextIsRight DEF Good
<1> QED BY <1>1, Invariance, PTL
        DEF Spec, ElementsAreValues, NoneSpoilt

\* MovesOnlyToGrow: a call that changes the number of elements takes another
\* buffer only when the capacity does not suffice, and one at least twice as
\* large; a vector that was moved from is as new.
THEOREM GrowthIsGeometric == Spec => MovesOnlyToGrow
<1>1. Inv /\ [Next]_vars => [OnlyGrows]_vars BY NextIsRight DEF Good
<1> QED BY <1>1, Invariance, PTL DEF Spec, MovesOnlyToGrow, OnlyGrows

(***************************************************************************)
(* Refinement.  SmallVector does what VectorSpec says, the lapses aside:   *)
(* the elements in the cells of a buffer are the sequence that VectorSpec  *)
(* changes.                                                                *)
(***************************************************************************)
\* The elements of a vector are a sequence of values.
LEMMA ElementsAreASequence ==
  ASSUME NEW r, IsVector(r), NEW s, s = Elements(r)
  PROVE  /\ s \in Seq(Cells) /\ Len(s) = r.size /\ s # Absent
         /\ \A i \in 1..r.size : s[i] = r.cells[i - 1]
<1>a. PICK n : n = r.size OBVIOUS
<1>1. n \in Nat /\ \A i \in 0..n - 1 : r.cells[i] \in Cells BY <1>a, VectorFacts
<1>2. s = [i \in 1..n |-> r.cells[i - 1]] BY <1>a DEF Elements
<1>3. \A i \in 1..n : s[i] = r.cells[i - 1] /\ s[i] \in Cells
  <2>1. \A i \in 1..n : i - 1 \in 0..n - 1 BY <1>1
  <2> QED BY <2>1, <1>1, <1>2
<1>4. s \in [1..n -> Cells] BY <1>2, <1>3
<1>5. s \in Seq(Cells) /\ Len(s) = n BY <1>1, <1>4
<1> QED BY <1>a, <1>3, <1>5, AbsentAssumption

\* The first n elements, and those from position n on.
LEMMA HeadIs ==
  ASSUME NEW s \in Seq(Cells), NEW n \in 0..Len(s), NEW t, t = Std!Head0(s, n)
  PROVE  t \in Seq(Cells) /\ Len(t) = n /\ \A i \in 1..n : t[i] = s[i]
<1>1. Len(s) \in Nat /\ \A i \in 1..n : s[i] \in Cells BY LenProperties, ElementOfSeq
<1>2. t = SubSeq(s, 1, n) /\ 1 \in Int /\ n \in Int BY <1>1 DEF Std!Head0
<1>3. /\ t \in Seq(Cells) /\ Len(t) = IF 1 <= n THEN n - 1 + 1 ELSE 0
      /\ \A i \in 1..n - 1 + 1 : t[i] = s[1 + i - 1]
  BY <1>1, <1>2, SubSeqProperties
<1>4. Len(t) = n BY <1>1, <1>3
<1>5. ASSUME NEW i \in 1..n PROVE t[i] = s[i]
  <2>1. i \in 1..n - 1 + 1 /\ 1 + i - 1 = i BY <1>1
  <2> QED BY <2>1, <1>3
<1> QED BY <1>3, <1>4, <1>5

\* The elements from position n on.
LEMMA TailIs ==
  ASSUME NEW s \in Seq(Cells), NEW n \in 0..Len(s), NEW t, t = Std!Tail0(s, n)
  PROVE  t \in Seq(Cells) /\ Len(t) = Len(s) - n /\ \A i \in 1..Len(s) - n : t[i] = s[n + i]
<1>a. PICK m, k : m = Len(s) /\ k = n + 1 OBVIOUS
<1>1. m \in Nat /\ k \in Int /\ k >= 1 /\ k <= m + 1 /\ n \in Nat BY <1>a, LenProperties
<1>2. \A i \in k..m : s[i] \in Cells
  <2>1. \A i \in k..m : i \in 1..m BY <1>1
  <2> QED BY <2>1, <1>a, ElementOfSeq
<1>3. t = SubSeq(s, k, m) /\ m \in Int BY <1>1, <1>a DEF Std!Tail0
<1>4. /\ t \in Seq(Cells) /\ Len(t) = IF k <= m THEN m - k + 1 ELSE 0
      /\ \A i \in 1..m - k + 1 : t[i] = s[k + i - 1]
  BY <1>1, <1>2, <1>3, SubSeqProperties
<1>5. Len(t) = m - n BY <1>1, <1>4, <1>a
<1>6. ASSUME NEW i \in 1..m - n PROVE t[i] = s[n + i]
  <2>1. i \in 1..m - k + 1 /\ k + i - 1 = n + i BY <1>1, <1>a
  <2> QED BY <2>1, <1>4
<1> QED BY <1>4, <1>5, <1>6, <1>a

\* n equal elements.
LEMMA CopiesIs ==
  ASSUME NEW n \in Nat, NEW y \in Cells, NEW t, t = Std!Copies(n, y)
  PROVE  t \in Seq(Cells) /\ Len(t) = n /\ \A i \in 1..n : t[i] = y
<1>1. t = [i \in 1..n |-> y] BY DEF Std!Copies
<1>2. t \in [1..n -> Cells] BY <1>1
<1>3. t \in Seq(Cells) /\ Len(t) = n BY <1>2
<1> QED BY <1>1, <1>3

\* The elements in the opposite order.
LEMMA ReversedIs ==
  ASSUME NEW s \in Seq(Cells), NEW t, t = Std!Reversed(s)
  PROVE  /\ t \in Seq(Cells) /\ Len(t) = Len(s)
         /\ \A i \in 1..Len(s) : t[i] = s[Len(s) + 1 - i]
<1>a. PICK n : n = Len(s) OBVIOUS
<1>1. n \in Nat BY <1>a, LenProperties
<1>2. t = [i \in 1..n |-> s[n + 1 - i]] BY <1>a DEF Std!Reversed
<1>3. \A i \in 1..n : n + 1 - i \in 1..n BY <1>1
<1>4. \A i \in 1..n : s[n + 1 - i] \in Cells BY <1>3, <1>a, ElementOfSeq
<1>5. t \in [1..n -> Cells] BY <1>2, <1>4
<1>6. t \in Seq(Cells) /\ Len(t) = n BY <1>1, <1>5
<1> QED BY <1>a, <1>2, <1>6

\* A sequence is known by its length and its elements: two parts ...
LEMMA TwoParts ==
  ASSUME NEW a \in Seq(Cells), NEW b \in Seq(Cells), NEW t \in Seq(Cells),
         Len(t) = Len(a) + Len(b),
         \A i \in 1..Len(a) : t[i] = a[i],
         \A i \in 1..Len(b) : t[Len(a) + i] = b[i]
  PROVE  t = a \o b
<1>a. PICK m, n, u : m = Len(a) /\ n = Len(b) /\ u = a \o b OBVIOUS
<1>1. m \in Nat /\ n \in Nat BY <1>a, LenProperties
<1>2. /\ u \in Seq(Cells) /\ Len(u) = m + n
      /\ \A i \in 1..m + n : u[i] = IF i <= m THEN a[i] ELSE b[i - m]
  BY <1>a, ConcatProperties
<1>3. ASSUME NEW i \in 1..m + n PROVE t[i] = u[i]
  <2>1. CASE i <= m BY <2>1, <1>a, <1>1, <1>2
  <2>2. CASE ~(i <= m)
    <3>1. i - m \in 1..n /\ m + (i - m) = i BY <2>2, <1>1
    <3>2. t[m + (i - m)] = b[i - m] BY <3>1, <1>a
    <3> QED BY <3>1, <3>2, <2>2, <1>2
  <2> QED BY <2>1, <2>2
<1>4. Len(t) = Len(u) /\ \A i \in 1..Len(t) : t[i] = u[i] BY <1>a, <1>2, <1>3
<1> QED BY <1>a, <1>2, <1>4, SeqEqual

\* ... or three.
LEMMA ThreeParts ==
  ASSUME NEW a \in Seq(Cells), NEW b \in Seq(Cells), NEW c \in Seq(Cells),
         NEW t \in Seq(Cells),
         Len(t) = Len(a) + Len(b) + Len(c),
         \A i \in 1..Len(a) : t[i] = a[i],
         \A i \in 1..Len(b) : t[Len(a) + i] = b[i],
         \A i \in 1..Len(c) : t[Len(a) + Len(b) + i] = c[i]
  PROVE  t = a \o b \o c
<1>a. PICK m, n, k, u : m = Len(a) /\ n = Len(b) /\ k = Len(c) /\ u = a \o b OBVIOUS
<1>1. m \in Nat /\ n \in Nat /\ k \in Nat BY <1>a, LenProperties
<1>2. /\ u \in Seq(Cells) /\ Len(u) = m + n
      /\ \A i \in 1..m + n : u[i] = IF i <= m THEN a[i] ELSE b[i - m]
  BY <1>a, ConcatProperties
<1>3. ASSUME NEW i \in 1..m + n PROVE t[i] = u[i]
  <2>1. CASE i <= m BY <2>1, <1>a, <1>1, <1>2
  <2>2. CASE ~(i <= m)
    <3>1. i - m \in 1..n /\ m + (i - m) = i BY <2>2, <1>1
    <3>2. t[m + (i - m)] = b[i - m] BY <3>1, <1>a
    <3> QED BY <3>1, <3>2, <2>2, <1>2
  <2> QED BY <2>1, <2>2
<1>4. /\ Len(t) = Len(u) + Len(c) /\ \A i \in 1..Len(u) : t[i] = u[i]
      /\ \A i \in 1..Len(c) : t[Len(u) + i] = c[i]
  BY <1>a, <1>2, <1>3
<1>5. t = u \o c BY <1>2, <1>4, TwoParts
<1> QED BY <1>a, <1>5

(***************************************************************************)
(* What a step does to the sequences.                                      *)
(***************************************************************************)
\* The sequence of a vector, and of storage without one.
LEMMA ContentsAre ==
  ASSUME Inv, NEW v \in Vecs
  PROVE  /\ Std!Live(v) <=> Live(v)
         /\ ~Live(v) => Contents[v] = Absent
         /\ Live(v) => /\ IsVector(vec[v]) /\ Contents[v] = Elements(vec[v])
                       /\ Contents[v] \in Seq(Cells) /\ Len(Contents[v]) = vec[v].size
                       /\ \A i \in 1..vec[v].size : Contents[v][i] = vec[v].cells[i - 1]
<1>1. Contents[v] = IF Live(v) THEN Elements(vec[v]) ELSE Absent BY DEF Contents
<1>2. CASE Live(v)
  <2>1. IsVector(vec[v]) BY <1>2, LiveVector
  <2>a. PICK s : s = Elements(vec[v]) OBVIOUS
  <2>2. /\ s \in Seq(Cells) /\ Len(s) = vec[v].size /\ s # Absent
        /\ \A i \in 1..vec[v].size : s[i] = vec[v].cells[i - 1]
    BY <2>1, <2>a, ElementsAreASequence
  <2>3. Contents[v] = s BY <1>1, <1>2, <2>a
  <2>4. Std!Live(v) BY <2>2, <2>3 DEF Std!Live
  <2> QED BY <1>2, <2>1, <2>2, <2>3, <2>4, <2>a
<1>3. CASE ~Live(v) BY <1>1, <1>3 DEF Std!Live
<1> QED BY <1>2, <1>3

\* One vector changes.
LEMMA ContentsChange ==
  ASSUME Inv, NEW v \in Vecs, NEW x, IsVector(x), vec' = [vec EXCEPT ![v] = x],
         NEW t, t = Elements(x)
  PROVE  Contents' = [Contents EXCEPT ![v] = t]
<1>1. x # Absent BY VectorsHaveTheirType
<1>2. \A w \in Vecs : vec'[w] = IF w = v THEN x ELSE vec[w] BY DEF Inv, VecInv
<1>3. Contents' = [w \in Vecs |-> IF (Live(w))' THEN (Elements(vec[w]))' ELSE Absent]
  BY DEF Contents
<1>4. ASSUME NEW w \in Vecs
      PROVE  (IF (Live(w))' THEN (Elements(vec[w]))' ELSE Absent)
               = IF w = v THEN t ELSE Contents[w]
  <2>1. CASE w = v
    <3>1. vec'[w] = x BY <2>1, <1>2
    <3>2. (Elements(vec[w]))' = Elements(vec'[w]) BY DEF Elements
    <3>3. (Elements(vec[w]))' = t BY <3>1, <3>2
    <3>4. (Live(w))' BY <3>1, <1>1 DEF Live
    <3> QED BY <2>1, <3>3, <3>4
  <2>2. CASE w # v
    <3>1. vec'[w] = vec[w] BY <2>2, <1>2
    <3> QED BY <2>2, <3>1 DEF Live, Elements, Contents
  <2> QED BY <2>1, <2>2
<1>5. Contents = [w \in Vecs |-> Contents[w]] BY DEF Contents
<1> HIDE DEF Contents
<1>6. Contents' = [w \in Vecs |-> IF w = v THEN t ELSE Contents[w]] BY <1>3, <1>4
<1> QED BY <1>5, <1>6

\* Nothing changes.
LEMMA ContentsStay == ASSUME vec' = vec PROVE Contents' = Contents
BY DEF Contents, Live, Elements

\* Vectors with the same elements have the same sequence.
LEMMA SameElements ==
  ASSUME NEW r, IsVector(r), NEW x, x.size = r.size,
         \A i \in 0..r.size - 1 : x.cells[i] = r.cells[i]
  PROVE  Elements(x) = Elements(r)
<1>a. PICK n : n = r.size OBVIOUS
<1>1. n \in Nat BY <1>a, VectorFacts
<1>2. \A i \in 1..n : x.cells[i - 1] = r.cells[i - 1]
  <2>1. \A i \in 1..n : i - 1 \in 0..n - 1 BY <1>1
  <2> QED BY <2>1, <1>a
<1> QED BY <1>2, <1>a DEF Elements

IsCall(c, op, v, at, count, arg, out) ==
  /\ c.op = op /\ c.on = v /\ c.at = at /\ c.count = count /\ c.arg = arg /\ c.out = out

\* What call records.
LEMMA CallIs ==
  ASSUME NEW op, NEW v, NEW at, NEW count, NEW arg, NEW out,
         Calls(op, v, at, count, arg, out), NEW c, c = call'
  PROVE  IsCall(c, op, v, at, count, arg, out)
BY DEF Calls, IsCall

\* A call that keeps the sequence.
LEMMA KeepsContents ==
  ASSUME Inv, NEW v \in Vecs, Live(v), NEW x, IsVector(x), vec' = [vec EXCEPT ![v] = x],
         x.size = vec[v].size, \A i \in 0..vec[v].size - 1 : x.cells[i] = vec[v].cells[i]
  PROVE  Contents' = Contents
<1>a. PICK t : t = Elements(x) OBVIOUS
<1>1. t = Contents[v] BY <1>a, ContentsAre, SameElements
<1>2. Contents' = [Contents EXCEPT ![v] = t] BY <1>a, ContentsChange
<1>3. Contents = [w \in Vecs |-> Contents[w]] BY DEF Contents
<1> QED BY <1>1, <1>2, <1>3

(***************************************************************************)
(* Each call does what VectorSpec says of it.                              *)
(***************************************************************************)
\* A call that gets no memory changes no sequence.
LEMMA RefusalIsStd ==
  ASSUME NEW v, NEW op \in {"ctor", "copy_ctor", "reserve", "shrink_to_fit", "resize", "insert"},
         NEW at, NEW n, NEW arg, Contents' = Contents,
         NEW c, IsCall(c, op, v, at, n, arg, "bad_alloc")
  PROVE  Std!Refused(c)
BY DEF IsCall, Std!Refused

\* A constructor has the elements of the list, if it gets the memory.
LEMMA CtorIsStd ==
  ASSUME Inv, NEW v \in Vecs, NEW list \in Lists, NEW b \in Allocations, Ctor(v, list, b),
         NEW c, c = call'
  PROVE  Std!Ctor(c) \/ Std!Refused(c)
<1>1. /\ list \in Seq(Values) /\ list \in Seq(Cells)
      /\ Len(list) \in 0..MaxSize /\ Len(list) <= MaxSize
  BY ListsAre
<1>a. PICK n : n = Len(list) OBVIOUS
<1>b. PICK r : r = Reserved(Fresh, n, b) OBVIOUS
<1>2. b \in Blocks \cup {NoBlock} BY BlocksAre
<1>3. IsVector(r) /\ (n <= r.cap \/ r = Fresh)
  BY <1>1, <1>2, <1>a, <1>b, FreshIsVector, ReservedIsVector
<1>4. IsCall(c, "ctor", v, 0, 0, list, Outcome(n <= r.cap))
  BY <1>a, <1>b, CallIs DEF Ctor
<1>5. CASE n <= r.cap
  <2>1. PICK x : x = Listed(r, list) OBVIOUS
  <2>2. IsVector(x) /\ x.size = n /\ \A i \in 0..n - 1 : x.cells[i] = list[i + 1]
    BY <1>1, <1>3, <1>5, <1>a, <2>1, ListedIsVector
  <2>3. ~Live(v) /\ vec' = [vec EXCEPT ![v] = x]
    BY <1>5, <1>a, <1>b, <2>1 DEF Ctor, Begins
  <2>4. PICK t : t = Elements(x) OBVIOUS
  <2>5. t = list
    <3>1. t \in Seq(Cells) /\ Len(t) = n /\ \A i \in 1..n : t[i] = x.cells[i - 1]
      BY <2>2, <2>4, ElementsAreASequence
    <3>2. ASSUME NEW i \in 1..n PROVE t[i] = list[i]
      <4>1. i - 1 \in 0..n - 1 /\ i - 1 + 1 = i BY <1>1, <1>a
      <4> QED BY <4>1, <3>1, <2>2
    <3> QED BY <3>1, <3>2, <1>1, <1>a, SeqEqual
  <2>6. Contents' = [Contents EXCEPT ![v] = list] BY <2>2, <2>3, <2>4, <2>5, ContentsChange
  <2>7. IsCall(c, "ctor", v, 0, 0, list, "ok") BY <1>4, <1>5 DEF Outcome
  <2>8. Std!Ctor(c) BY <2>3, <2>6, <2>7, ContentsAre DEF IsCall, Std!Ctor, Std!Becomes
  <2> QED BY <2>8
<1>6. CASE ~(n <= r.cap)
  <2>1. Contents' = Contents BY <1>6, <1>a, <1>b, ContentsStay DEF Ctor, Abandons
  <2>2. IsCall(c, "ctor", v, 0, 0, list, "bad_alloc") BY <1>4, <1>6 DEF Outcome
  <2> QED BY <2>1, <2>2, RefusalIsStd
<1> QED BY <1>5, <1>6

\* The copy has the sequence of the other vector.
LEMMA CopyCtorIsStd ==
  ASSUME Inv, NEW v \in Vecs, NEW w \in Vecs, NEW b \in Allocations, CopyCtor(v, w, b),
         NEW c, c = call'
  PROVE  Std!CopyCtor(c) \/ Std!Refused(c)
<1>a. PICK other, n : other = vec[w] /\ n = other.size OBVIOUS
<1>b. PICK r : r = Reserved(Fresh, n, b) OBVIOUS
<1>1. IsVector(other) /\ n \in 0..MaxSize
  <2>1. IsVector(other) BY <1>a DEF CopyCtor, Inv, VecInv
  <2> QED BY <2>1, <1>a, VectorFacts
<1>2. b \in Blocks \cup {NoBlock} BY BlocksAre
<1>3. IsVector(r) BY <1>1, <1>2, <1>b, FreshIsVector, ReservedIsVector
<1>4. IsCall(c, "copy_ctor", v, 0, 0, w, Outcome(n <= r.cap))
  BY <1>a, <1>b, CallIs DEF CopyCtor
<1>5. CASE n <= r.cap
  <2>1. PICK x : x = CopiedFrom(r, other) OBVIOUS
  <2>2. /\ IsVector(x) /\ x.size = other.size
        /\ \A i \in 0..other.size - 1 : x.cells[i] = other.cells[i]
    BY <1>a, <1>1, <1>3, <1>5, <2>1, CopiedFromIsVector
  <2>3. ~Live(v) /\ Live(w) /\ vec' = [vec EXCEPT ![v] = x]
    BY <1>5, <1>a, <1>b, <2>1 DEF CopyCtor, Begins
  <2>4. PICK t : t = Elements(x) OBVIOUS
  <2>5. t = Contents[w] BY <1>a, <1>1, <2>2, <2>3, <2>4, SameElements, ContentsAre
  <2>6. Contents' = [Contents EXCEPT ![v] = t] BY <2>2, <2>3, <2>4, ContentsChange
  <2>7. IsCall(c, "copy_ctor", v, 0, 0, w, "ok") BY <1>4, <1>5 DEF Outcome
  <2>8. Std!CopyCtor(c)
    BY <2>3, <2>5, <2>6, <2>7, ContentsAre DEF IsCall, Std!CopyCtor, Std!Becomes
  <2> QED BY <2>8
<1>6. CASE ~(n <= r.cap)
  <2>1. Contents' = Contents BY <1>6, <1>a, <1>b, ContentsStay DEF CopyCtor, Abandons
  <2>2. IsCall(c, "copy_ctor", v, 0, 0, w, "bad_alloc") BY <1>4, <1>6 DEF Outcome
  <2> QED BY <2>1, <2>2, RefusalIsStd
<1> QED BY <1>5, <1>6

\* After the destructor there is no sequence.
LEMMA DtorIsStd ==
  ASSUME Inv, NEW v \in Vecs, Dtor(v), NEW c, c = call'
  PROVE  Std!Dtor(c)
<1>1. Live(v) /\ vec' = [vec EXCEPT ![v] = Absent] BY DEF Dtor
<1>2. \A w \in Vecs : vec'[w] = IF w = v THEN Absent ELSE vec[w]
  BY <1>1 DEF Inv, VecInv
<1>3. Contents' = [w \in Vecs |-> IF (Live(w))' THEN (Elements(vec[w]))' ELSE Absent]
  BY DEF Contents
<1>4. \A w \in Vecs : (IF (Live(w))' THEN (Elements(vec[w]))' ELSE Absent)
                        = IF w = v THEN Absent ELSE Contents[w]
  BY <1>2 DEF Live, Elements, Contents
<1>5. Contents = [w \in Vecs |-> Contents[w]] BY DEF Contents
<1>6. Contents' = [Contents EXCEPT ![v] = Absent] BY <1>3, <1>4, <1>5
<1>7. IsCall(c, "dtor", v, 0, 0, Zero, "ok") BY CallIs DEF Dtor, OnVector
<1> QED BY <1>1, <1>6, <1>7, ContentsAre DEF IsCall, Std!Dtor, Std!Becomes

\* The new vector has the sequence; the other has none or the same.
LEMMA MoveCtorIsStd ==
  ASSUME Inv, NEW v \in Vecs, NEW w \in Vecs, MoveCtor(v, w), NEW c, c = call'
  PROVE  Std!MoveCtor(c)
<1>1. ~Live(v) /\ Live(w) /\ v # w BY DEF MoveCtor
<1>2. IsCall(c, "move_ctor", v, 0, 0, w, "ok") BY CallIs DEF MoveCtor
<1>3. IsVector(vec[w]) /\ Contents[w] = Elements(vec[w]) /\ Contents[w] \in Seq(Cells)
  BY <1>1, ContentsAre
<1>4. Contents = [u \in Vecs |-> Contents[u]] BY DEF Contents
<1>5. CASE vec[w].size # 0 /\ vec[w].buf # Static
  <2>1. vec' = [vec EXCEPT ![v] = vec[w], ![w] = Fresh] BY <1>5 DEF MoveCtor
  <2>2. PICK e : e = Elements(Fresh) OBVIOUS
  <2>3. e \in Seq(Cells) BY <2>2, FreshIsVector, ElementsAreASequence
  <2>4. Fresh # Absent /\ vec[w] # Absent BY <1>3, FreshIsVector, VectorsHaveTheirType
  <2>5. /\ vec'[v] = vec[w] /\ vec'[w] = Fresh
        /\ \A u \in Vecs \ {v, w} : vec'[u] = vec[u]
    BY <2>1, <1>1 DEF Inv, VecInv
  <2>6. Contents' = [u \in Vecs |-> IF (Live(u))' THEN (Elements(vec[u]))' ELSE Absent]
    BY DEF Contents
  <2>7. ASSUME NEW u \in Vecs
        PROVE  (IF (Live(u))' THEN (Elements(vec[u]))' ELSE Absent)
                 = IF u = w THEN e ELSE IF u = v THEN Contents[w] ELSE Contents[u]
    <3>1. CASE u = w BY <3>1, <2>2, <2>4, <2>5 DEF Live, Elements
    <3>2. CASE u = v BY <3>2, <1>1, <1>3, <2>4, <2>5 DEF Live, Elements
    <3>3. CASE u # v /\ u # w
      <4>1. vec'[u] = vec[u] BY <3>3, <2>5
      <4> QED BY <3>3, <4>1 DEF Live, Elements, Contents
    <3> QED BY <3>1, <3>2, <3>3
  <2> HIDE DEF Contents
  <2>8. /\ \A u \in Vecs : Contents'[u] = IF u = w THEN e
                                  ELSE IF u = v THEN Contents[w] ELSE Contents[u]
        /\ Contents' = [u \in Vecs |-> Contents'[u]]
    BY <2>6, <2>7
  <2>9. Contents' = [Contents EXCEPT ![v] = Contents[w], ![w] = Contents'[w]]
    BY <1>1, <1>4, <2>8
  <2> QED BY <1>1, <1>2, <2>3, <2>8, <2>9, ContentsAre DEF IsCall, Std!MoveCtor
<1>6. CASE ~(vec[w].size # 0 /\ vec[w].buf # Static)
  <2>a. PICK other, x : other = vec[w] /\ x = CopiedFrom(Fresh, other) OBVIOUS
  <2>1. vec' = [vec EXCEPT ![v] = x] BY <1>6, <2>a DEF MoveCtor
  <2>2. other.size <= StaticCap /\ IsVector(Fresh) /\ Fresh.cap = StaticCap
    <3>1. other.size = 0 \/ other.cap = StaticCap BY <1>3, <1>6, <2>a DEF IsVector
    <3>2. other.size <= StaticCap BY <3>1, <1>3, <2>a, VectorFacts, Bounds
    <3> QED BY <3>2, FreshIsVector DEF Fresh
  <2>3. /\ IsVector(x) /\ x.size = other.size
        /\ \A i \in 0..other.size - 1 : x.cells[i] = other.cells[i]
    BY <2>a, <2>2, <1>3, CopiedFromIsVector
  <2>4. PICK t : t = Elements(x) OBVIOUS
  <2>5. t = Contents[w] BY <1>3, <2>a, <2>3, <2>4, SameElements
  <2>6. Contents' = [Contents EXCEPT ![v] = t] BY <2>1, <2>3, <2>4, ContentsChange
  <2> HIDE DEF Contents
  <2>7. Contents'[w] = Contents[w] BY <2>6, <1>1, <1>4
  <2>8. Contents' = [Contents EXCEPT ![v] = Contents[w], ![w] = Contents'[w]]
    BY <1>1, <1>4, <2>5, <2>6, <2>7
  <2> QED BY <1>1, <1>2, <1>3, <2>7, <2>8, ContentsAre DEF IsCall, Std!MoveCtor
<1> QED BY <1>5, <1>6

\* reserve keeps the sequence.
LEMMA ReserveIsStd ==
  ASSUME Inv, NEW v \in Vecs, NEW n \in Counts, NEW b \in Allocations, Reserve(v, n, b),
         NEW c, c = call'
  PROVE  Std!Relocate(c) \/ Std!Refused(c)
<1>a. PICK old, x : old = vec[v] /\ x = Reserved(old, n, b) OBVIOUS
<1>1. Live(v) /\ vec' = [vec EXCEPT ![v] = x] BY <1>a DEF Reserve, Becomes
<1>2. IsVector(old) /\ n \in 0..MaxSize /\ b \in Blocks \cup {NoBlock}
  BY <1>a, <1>1, LiveVector, BlocksAre DEF Counts
<1>3. IsVector(x) /\ x.size = old.size /\ \A i \in 0..old.size - 1 : x.cells[i] = old.cells[i]
  BY <1>a, <1>2, ReservedIsVector
<1>4. Contents' = Contents BY <1>a, <1>1, <1>3, KeepsContents
<1>5. IsCall(c, "reserve", v, 0, n, Zero, Outcome(n <= x.cap)) BY <1>a, CallIs DEF Reserve
<1>6. CASE n <= x.cap BY <1>4, <1>5, <1>6 DEF IsCall, Outcome, Std!Relocate
<1>7. CASE ~(n <= x.cap)
  <2>1. IsCall(c, "reserve", v, 0, n, Zero, "bad_alloc") BY <1>5, <1>7 DEF Outcome
  <2> QED BY <2>1, <1>4, RefusalIsStd
<1> QED BY <1>6, <1>7

\* So does shrink_to_fit.
LEMMA ShrinkIsStd ==
  ASSUME Inv, NEW v \in Vecs, NEW b \in Allocations, ShrinkToFit(v, b), NEW c, c = call'
  PROVE  Std!Relocate(c) \/ Std!Refused(c)
<1>a. PICK old, x : old = vec[v] /\ x = Shrunk(old, b) OBVIOUS
<1>b. PICK enough : enough = (old.buf = Static \/ old.size <= StaticCap \/ b # NoBlock)
  OBVIOUS
<1>1. Live(v) /\ vec' = [vec EXCEPT ![v] = x] BY <1>a DEF ShrinkToFit, Becomes
<1>2. IsVector(old) /\ b \in Blocks \cup {NoBlock} BY <1>a, <1>1, LiveVector, BlocksAre
<1>3. IsVector(x) /\ x.size = old.size /\ \A i \in 0..old.size - 1 : x.cells[i] = old.cells[i]
  BY <1>a, <1>2, ShrunkIsVector
<1>4. Contents' = Contents BY <1>a, <1>1, <1>3, KeepsContents
<1>5. \/ IsCall(c, "shrink_to_fit", v, 0, 0, Zero, "ok")
      \/ IsCall(c, "shrink_to_fit", v, 0, 0, Zero, "bad_alloc")
  BY CallIs DEF ShrinkToFit, Outcome
<1>6. CASE IsCall(c, "shrink_to_fit", v, 0, 0, Zero, "ok")
  BY <1>4, <1>6 DEF IsCall, Std!Relocate
<1>7. CASE IsCall(c, "shrink_to_fit", v, 0, 0, Zero, "bad_alloc")
  BY <1>4, <1>7, RefusalIsStd
<1> QED BY <1>5, <1>6, <1>7

\* Nothing is appended when the memory for it is not there.
LEMMA RefusingKeeps ==
  ASSUME Inv, NEW v \in Vecs, Live(v), NEW n \in Nat, vec[v].size + n <= MaxSize,
         NEW b \in Allocations, NEW r, r = Reserved(vec[v], vec[v].size + n, b),
         ~(vec[v].size + n <= r.cap), NEW y, vec' = [vec EXCEPT ![v] = Appended(r, n, y)]
  PROVE  Contents' = Contents
<1>a. PICK m : m = vec[v].size + n OBVIOUS
<1>1. r = vec[v] /\ r.size = vec[v].size BY <1>a, RoomFor
<1>2. Appended(r, n, y) = vec[v] BY <1>1 DEF Appended
<1>3. vec' = vec BY <1>2 DEF Inv, VecInv
<1> QED BY <1>3, ContentsStay

\* n equal elements at the end of a buffer that was made large enough.
LEMMA FillingIsStd ==
  ASSUME Inv, NEW v \in Vecs, Live(v), NEW n \in Nat, vec[v].size + n <= MaxSize,
         NEW b \in Allocations, NEW r, r = Reserved(vec[v], vec[v].size + n, b),
         vec[v].size + n <= r.cap, NEW y \in Cells, NEW x, x = Appended(r, n, y),
         vec' = [vec EXCEPT ![v] = x]
  PROVE  Contents' = [Contents EXCEPT ![v] = Contents[v] \o Std!Copies(n, y)]
<1>a. PICK old, m, sz : old = vec[v] /\ sz = old.size /\ m = sz + n OBVIOUS
<1>1. IsVector(old) BY <1>a, LiveVector
<1>2. sz \in Nat BY <1>a, <1>1, VectorFacts
<1>3. /\ IsVector(r) /\ r.size = sz
      /\ \A i \in 0..sz - 1 : r.cells[i] = old.cells[i]
  BY <1>a, RoomFor
<1>4. r.size + n <= r.cap /\ r.size + n <= MaxSize BY <1>2, <1>3, <1>a
<1>5. x = Filled(r, n, y) BY <1>4 DEF Appended
<1>6. /\ IsVector(x) /\ x.size = r.size + n
      /\ \A i \in 0..r.size - 1 : x.cells[i] = r.cells[i]
      /\ \A i \in r.size..r.size + n - 1 : x.cells[i] = y
  BY <1>3, <1>4, <1>5, FilledIsVector
<1>c. PICK s, t, u : s = Contents[v] /\ t = Elements(x) /\ u = Std!Copies(n, y) OBVIOUS
<1>7. /\ s \in Seq(Cells) /\ Len(s) = sz /\ \A i \in 1..sz : s[i] = old.cells[i - 1]
  BY <1>a, <1>c, ContentsAre
<1>8. t \in Seq(Cells) /\ Len(t) = x.size /\ \A i \in 1..x.size : t[i] = x.cells[i - 1]
  BY <1>c, <1>6, ElementsAreASequence
<1>9. u \in Seq(Cells) /\ Len(u) = n /\ \A i \in 1..n : u[i] = y BY <1>c, CopiesIs
<1>10. \A i \in 1..sz : t[i] = s[i]
  <2> SUFFICES ASSUME NEW i \in 1..sz PROVE t[i] = s[i] OBVIOUS
  <2>1. i - 1 \in 0..sz - 1 /\ i \in 1..x.size BY <1>2, <1>3, <1>6
  <2>2. x.cells[i - 1] = old.cells[i - 1] BY <2>1, <1>3, <1>6
  <2> QED BY <2>1, <2>2, <1>7, <1>8
<1>11. \A i \in 1..n : t[sz + i] = u[i]
  <2> SUFFICES ASSUME NEW i \in 1..n PROVE t[sz + i] = u[i] OBVIOUS
  <2>a. PICK k, j : k = sz + i /\ j = k - 1 OBVIOUS
  <2>1. j \in r.size..r.size + n - 1 /\ k \in 1..x.size BY <2>a, <1>2, <1>3, <1>6
  <2>2. x.cells[j] = y BY <2>1, <1>6
  <2>3. t[k] = x.cells[k - 1] BY <2>1, <1>8
  <2> QED BY <2>a, <2>2, <2>3, <1>9
<1>12. t = s \o u
  <2>1. Len(t) = Len(s) + Len(u) BY <1>3, <1>6, <1>7, <1>8, <1>9
  <2> QED BY <2>1, <1>7, <1>8, <1>9, <1>10, <1>11, TwoParts
<1>13. Contents' = [Contents EXCEPT ![v] = t] BY <1>6, <1>c, ContentsChange
<1> QED BY <1>12, <1>13, <1>c

\* The first n elements are kept.
LEMMA ResizingIsStd ==
  ASSUME Inv, NEW v \in Vecs, Live(v), NEW n \in 0..vec[v].size,
         NEW x, x = Resized(vec[v], n), vec' = [vec EXCEPT ![v] = x]
  PROVE  Contents' = [Contents EXCEPT ![v] = Std!Head0(Contents[v], n)]
<1>a. PICK old, sz : old = vec[v] /\ sz = old.size OBVIOUS
<1>1. IsVector(old) BY <1>a, LiveVector
<1>2. sz \in Nat /\ n \in Nat /\ n <= sz BY <1>a, <1>1, VectorFacts
<1>3. /\ IsVector(x) /\ x.size = n /\ \A i \in 0..n - 1 : x.cells[i] = old.cells[i]
  BY <1>a, <1>1, ResizedIsVector
<1>c. PICK s, t, u : s = Contents[v] /\ t = Elements(x) /\ u = Std!Head0(s, n) OBVIOUS
<1>4. s \in Seq(Cells) /\ Len(s) = sz /\ \A i \in 1..sz : s[i] = old.cells[i - 1]
  BY <1>a, <1>c, ContentsAre
<1>5. t \in Seq(Cells) /\ Len(t) = n /\ \A i \in 1..n : t[i] = x.cells[i - 1]
  BY SMTT(20), <1>c, <1>3, ElementsAreASequence
<1>6. u \in Seq(Cells) /\ Len(u) = n /\ \A i \in 1..n : u[i] = s[i]
  BY <1>a, <1>c, <1>4, HeadIs
<1>7. \A i \in 1..n : t[i] = u[i]
  <2> SUFFICES ASSUME NEW i \in 1..n PROVE t[i] = u[i] OBVIOUS
  <2>1. i - 1 \in 0..n - 1 /\ i \in 1..sz BY <1>2
  <2> QED BY <2>1, <1>3, <1>4, <1>5, <1>6
<1>8. t = u BY <1>5, <1>6, <1>7, SeqEqual
<1>9. Contents' = [Contents EXCEPT ![v] = t] BY <1>3, <1>c, ContentsChange
<1> QED BY <1>8, <1>9, <1>c

\* resize appends zeros, or keeps the first elements.
LEMMA ResizeIsStd ==
  ASSUME Inv, NEW v \in Vecs, NEW n \in Counts, NEW b \in Allocations, Resize(v, n, b),
         NEW c, c = call'
  PROVE  Std!Resize(c) \/ Std!Refused(c)
<1>a. PICK old, sz, s : old = vec[v] /\ sz = old.size /\ s = Contents[v] OBVIOUS
<1>1. Live(v) /\ n \in Nat /\ n <= MaxSize /\ MaxSize \in Nat BY Bounds DEF Resize, Counts
<1>2. IsVector(old) /\ sz \in Nat BY <1>a, <1>1, LiveVector, VectorFacts
<1>3. Len(s) = sz /\ Std!Live(v) BY <1>a, <1>1, ContentsAre
<1>5. CASE ~(n <= sz)
  <2>a. PICK m, r : m = n - sz /\ r = Reserved(old, n, b) OBVIOUS
  <2>1. m \in Nat /\ sz + m = n BY <2>a, <1>1, <1>2, <1>5
  <2>2. r = Reserved(vec[v], vec[v].size + m, b) BY <2>a, <2>1, <1>a
  <2>3. vec[v].size + m <= MaxSize /\ vec[v].size + m = n BY <2>1, <1>1, <1>a
  <2>4. r.size = sz BY <2>1, <2>2, <2>3, <1>1, <1>a, RoomFor
  <2>b. PICK x : x = Appended(r, m, Zero) OBVIOUS
  <2>5. vec' = [vec EXCEPT ![v] = x]
    BY <1>5, <1>a, <2>a, <2>b, <2>4 DEF Resize, Becomes
  <2>6. IsCall(c, "resize", v, 0, n, Zero, Outcome(n <= r.cap))
    BY <1>5, <1>a, <2>a, CallIs DEF Resize
  <2>7. CASE n <= r.cap
    <3>0. vec[v].size + m <= r.cap BY <2>3, <2>7
    <3>1. Contents' = [Contents EXCEPT ![v] = Contents[v] \o Std!Copies(m, Zero)]
      <4>1. Zero \in Cells BY CellsHold
      <4> QED BY ZenonT(30), <4>1, <3>0, <2>1, <2>2, <2>3, <2>5, <2>b, <1>1, FillingIsStd
    <3>2. IsCall(c, "resize", v, 0, n, Zero, "ok") BY <2>6, <2>7 DEF Outcome
    <3>3. ~(c.count <= Len(s)) /\ m = c.count - Len(s)
      BY <2>a, <1>1, <1>2, <1>3, <1>5, <3>2 DEF IsCall
    <3>4. Std!Resize(c)
      BY <3>1, <3>2, <3>3, <1>3, <1>a DEF IsCall, Std!Resize, Std!Becomes
    <3> QED BY <3>4
  <2>8. CASE ~(n <= r.cap)
    <3>1. Contents' = Contents
      BY <2>1, <2>2, <2>3, <2>5, <2>8, <2>b, <1>1, RefusingKeeps
    <3>2. IsCall(c, "resize", v, 0, n, Zero, "bad_alloc") BY <2>6, <2>8 DEF Outcome
    <3> QED BY <3>1, <3>2, RefusalIsStd
  <2> QED BY <2>7, <2>8
<1>6. CASE n <= sz
  <2>a. PICK x : x = Resized(old, n) OBVIOUS
  <2>1. vec' = [vec EXCEPT ![v] = x] BY <1>6, <1>a, <2>a DEF Resize, Becomes
  <2>2. n \in 0..vec[v].size BY <1>1, <1>2, <1>6, <1>a
  <2>3. Contents' = [Contents EXCEPT ![v] = Std!Head0(s, n)]
    BY <2>a, <2>1, <2>2, <1>1, <1>a, ResizingIsStd
  <2>4. IsCall(c, "resize", v, 0, n, Zero, "ok") BY <1>6, <1>a, CallIs DEF Resize
  <2>5. c.count <= Len(s) /\ n = c.count BY <1>1, <1>2, <1>3, <1>6, <2>4 DEF IsCall
  <2>6. Std!Resize(c)
    BY <2>3, <2>4, <2>5, <1>3, <1>a DEF IsCall, Std!Resize, Std!Becomes
  <2> QED BY <2>6
<1> QED BY <1>5, <1>6

\* clear leaves the empty sequence.
LEMMA ClearIsStd ==
  ASSUME Inv, NEW v \in Vecs, Clear(v), NEW c, c = call'
  PROVE  Std!Clear(c)
<1>a. PICK x : x = Resized(vec[v], 0) OBVIOUS
<1>1. Live(v) /\ vec' = [vec EXCEPT ![v] = x] BY <1>a DEF Clear, Becomes
<1>2. 0 \in 0..vec[v].size BY <1>1, LiveVector, VectorFacts
<1>3. Contents' = [Contents EXCEPT ![v] = Std!Head0(Contents[v], 0)]
  BY <1>a, <1>1, <1>2, ResizingIsStd
<1>4. Std!Head0(Contents[v], 0) = << >> BY SubSeqEmpty DEF Std!Head0
<1>5. IsCall(c, "clear", v, 0, 0, Zero, "ok") BY CallIs DEF Clear, OnVector
<1> QED BY <1>1, <1>3, <1>4, <1>5, ContentsAre DEF IsCall, Std!Clear, Std!Becomes

\* pop_back drops the last element, if there is one.
LEMMA PopBackIsStd ==
  ASSUME Inv, NEW v \in Vecs, PopBack(v), NEW c, c = call'
  PROVE  Std!PopBack(c)
<1>a. PICK old, sz, n, s : old = vec[v] /\ sz = old.size /\ n = sz - 1 /\ s = Contents[v]
  OBVIOUS
<1>1. Live(v) BY DEF PopBack
<1>2. IsVector(old) /\ sz \in Nat BY <1>a, <1>1, LiveVector, VectorFacts
<1>3. s \in Seq(Cells) /\ Len(s) = sz /\ Std!Live(v) BY <1>a, <1>1, ContentsAre
<1>4. IsCall(c, "pop_back", v, 0, 0, Zero, "ok") BY CallIs DEF PopBack, OnVector
<1>5. CASE sz = 0
  <2>1. vec' = [vec EXCEPT ![v] = old] BY <1>5, <1>a DEF PopBack, Becomes
  <2>2. Contents' = Contents BY <2>1, <1>1, <1>2, <1>a, KeepsContents
  <2>3. s = << >> BY <1>3, <1>5
  <2>4. Contents' = [Contents EXCEPT ![v] = << >>]
    <3>1. Contents = [w \in Vecs |-> Contents[w]] BY DEF Contents
    <3> QED BY <3>1, <2>2, <2>3, <1>a
  <2> QED BY <2>4, <1>3, <1>4, <1>5, <1>a DEF IsCall, Std!PopBack, Std!Becomes, Std!Size
<1>6. CASE sz # 0
  <2>a. PICK x : x = Resized(old, n) OBVIOUS
  <2>1. vec' = [vec EXCEPT ![v] = x] BY <1>6, <1>a, <2>a DEF PopBack, Becomes
  <2>2. n \in 0..vec[v].size BY <1>2, <1>6, <1>a
  <2>3. Contents' = [Contents EXCEPT ![v] = Std!Head0(s, n)]
    BY <2>a, <2>1, <2>2, <1>1, <1>a, ResizingIsStd
  <2> QED BY <2>3, <1>3, <1>4, <1>6, <1>a DEF IsCall, Std!PopBack, Std!Becomes, Std!Size
<1> QED BY <1>5, <1>6

(***************************************************************************)
(* Insertion.                                                              *)
(***************************************************************************)
\* What an argument means before the call.
LEMMA MeantIs ==
  ASSUME Inv, NEW v \in Vecs, Live(v), NEW a \in Args(vec[v])
  PROVE  Std!Meant(v, a) = Deref(vec[v].cells, a)
<1>1. CASE a \in Values BY <1>1, CellsHold DEF Std!Meant, Deref
<1>2. CASE a \notin Values
  <2>a. PICK sz : sz = vec[v].size OBVIOUS
  <2>b. PICK i : i = a + 1 OBVIOUS
  <2>1. sz \in Nat BY <2>a, LiveVector, VectorFacts
  <2>2. a \in 0..sz - 1 BY <1>2, <2>a DEF Args
  <2>5. a \notin Cells
    <3>1. sz <= MaxSize BY <2>a, LiveVector, VectorFacts
    <3>2. a \in 0..MaxSize BY <3>1, <2>1, <2>2, Bounds
    <3> QED BY <3>2, PointersAssumption
  <2>3. i \in 1..sz /\ i - 1 = a BY <2>1, <2>2, <2>b
  <2>4. Contents[v][i] = vec[v].cells[i - 1] BY <2>a, <2>3, ContentsAre
  <2> QED BY <1>2, <2>b, <2>3, <2>4, <2>5 DEF Std!Meant, Deref
<1> QED BY <1>1, <1>2

\* At the end.
LEMMA AppendIsStd ==
  ASSUME Inv, NEW v \in Vecs, Live(v), NEW n \in Nat, NEW y, NEW a, NEW c,
         Contents' = [Contents EXCEPT ![v] = Contents[v] \o Std!Copies(n, y)],
         y \in Cells, y = Std!Meant(v, a),
         IsCall(c, "insert", v, vec[v].size, n, a, "ok")
  PROVE  Std!Insert(c)
<1>a. PICK s, sz, u : s = Contents[v] /\ sz = vec[v].size /\ u = Std!Copies(n, y) OBVIOUS
<1>1. s \in Seq(Cells) /\ Len(s) = sz /\ Std!Live(v) /\ sz \in Nat
  BY <1>a, ContentsAre, LenProperties
<1>2. u \in Seq(Cells) BY <1>a, CopiesIs
<1>3. Std!Head0(s, sz) = s
  <2>a. PICK t : t = Std!Head0(s, sz) OBVIOUS
  <2>1. sz \in 0..Len(s) BY <1>1
  <2>2. t \in Seq(Cells) /\ Len(t) = sz /\ \A i \in 1..sz : t[i] = s[i]
    BY <2>a, <2>1, <1>1, HeadIs
  <2> QED BY <2>a, <2>2, <1>1, SeqEqual
<1>4. Std!Tail0(s, sz) = << >>
  <2>1. sz + 1 \in Int /\ sz \in Int /\ sz < sz + 1 BY <1>1
  <2> QED BY <2>1, <1>1, SubSeqEmpty DEF Std!Tail0
<1>5. s \o u \in Seq(Cells) BY <1>1, <1>2, ConcatProperties
<1>6. s \o u = Std!Head0(s, sz) \o u \o Std!Tail0(s, sz)
  BY <1>3, <1>4, <1>5, ConcatEmptySeq
<1>b. PICK h, l : h = Std!Head0(s, sz) /\ l = Std!Tail0(s, sz) OBVIOUS
<1>7. Contents' = [Contents EXCEPT ![v] = h \o u \o l] BY <1>6, <1>a, <1>b
<1>8. ~(sz > Len(s)) BY <1>1
<1>9. c.op = "insert" /\ c.on = v /\ c.at = sz /\ c.count = n /\ c.arg = a /\ c.out = "ok"
  BY <1>a DEF IsCall
<1>10. u = Std!Copies(c.count, Std!Meant(c.on, c.arg)) BY <1>9, <1>a
<1> QED BY <1>1, <1>7, <1>8, <1>9, <1>10, <1>a, <1>b DEF Std!Insert, Std!Becomes

\* emplace_back inserts zeros at the end.
LEMMA EmplaceIsStd ==
  ASSUME Inv, NEW v \in Vecs, NEW n \in Counts, NEW b \in Allocations,
         EmplaceBackN(v, n, b), NEW c, c = call'
  PROVE  Std!Insert(c) \/ Std!Refused(c)
<1>1. n \in Nat /\ Zero \in Cells BY Bounds, CellsHold DEF Counts
<1>a. PICK m, r : m = vec[v].size + n /\ r = Reserved(vec[v], m, b) OBVIOUS
<1>2. PICK x : x = Appended(r, n, Zero) OBVIOUS
<1>3. Live(v) /\ m <= MaxSize /\ vec' = [vec EXCEPT ![v] = x]
  BY <1>a, <1>2 DEF EmplaceBackN, Becomes
<1>4. IsCall(c, "insert", v, vec[v].size, n, Zero, Outcome(m <= r.cap))
  BY <1>a, CallIs DEF EmplaceBackN
<1>5. CASE m <= r.cap
  <2>1. Contents' = [Contents EXCEPT ![v] = Contents[v] \o Std!Copies(n, Zero)]
    BY <1>1, <1>2, <1>3, <1>5, <1>a, FillingIsStd
  <2>2. IsCall(c, "insert", v, vec[v].size, n, Zero, "ok") BY <1>4, <1>5 DEF Outcome
  <2>3. Std!Meant(v, Zero) = Zero BY <1>1 DEF Std!Meant
  <2> QED BY <2>1, <2>2, <2>3, <1>1, <1>3, AppendIsStd
<1>6. CASE ~(m <= r.cap)
  <2>1. Contents' = Contents BY <1>1, <1>2, <1>3, <1>6, <1>a, RefusingKeeps
  <2>2. IsCall(c, "insert", v, vec[v].size, n, Zero, "bad_alloc")
    BY <1>4, <1>6 DEF Outcome
  <2> QED BY <2>1, <2>2, RefusalIsStd
<1> QED BY <1>5, <1>6

\* push_back of an element whose old buffer is freed first is a lapse.
LEMMA PushBackIsStd ==
  ASSUME Inv, NEW v \in Vecs, NEW n \in Counts, NEW a \in Pointers, NEW b \in Allocations,
         PushBackN(v, n, a, b), NEW c, c = call', ~Lapses(c)
  PROVE  Std!Insert(c) \/ Std!Refused(c)
<1>1. n \in Nat BY Bounds DEF Counts
<1>a. PICK old, m, r : /\ old = vec[v] /\ m = old.size + n
                       /\ r = Reserved(old, m, b)
  OBVIOUS
<1>2. Live(v) /\ a \in Args(old) /\ m <= MaxSize BY <1>a DEF PushBackN
<1>3. PICK y \in ReadAfter(old, r, a) : vec' = [vec EXCEPT ![v] = Appended(r, n, y)]
  BY <1>a DEF PushBackN, Becomes
<1>4. IsVector(old) BY <1>a, <1>2, LiveVector
<1>5. y \in Cells BY <1>2, <1>3, <1>4, ArgumentIsAValue
<1>6. IsCall(c, "insert", v, old.size, n, a, Outcome(m <= r.cap))
  BY <1>a, CallIs DEF PushBackN
<1>7. y = Deref(old.cells, a)
  <2>1. ~Dangles(old, r, a)
    <3> SUFFICES ASSUME Dangles(old, r, a) PROVE FALSE OBVIOUS
    <3>1. Lapsed(v) BY <1>1, <1>a, OnlyLapsesDangle
    <3> QED BY <3>1 DEF Lapsed, Lapses
  <2> QED BY <2>1, <1>2, <1>3, <1>4, ArgumentIsAValue
<1>b. PICK x : x = Appended(r, n, y) OBVIOUS
<1>8. CASE m <= r.cap
  <2>1. y = Std!Meant(v, a) BY <1>2, <1>7, <1>a, MeantIs
  <2>2. Contents' = [Contents EXCEPT ![v] = Contents[v] \o Std!Copies(n, y)]
    <3>1. vec' = [vec EXCEPT ![v] = x] BY <1>b, <1>3
    <3>2. /\ vec[v].size + n <= MaxSize /\ vec[v].size + n <= r.cap
          /\ r = Reserved(vec[v], vec[v].size + n, b)
      BY <1>2, <1>8, <1>a
    <3> QED BY <3>1, <3>2, <1>1, <1>2, <1>5, <1>b, FillingIsStd
  <2>3. IsCall(c, "insert", v, vec[v].size, n, a, "ok") BY <1>6, <1>8, <1>a DEF Outcome
  <2> QED BY <2>1, <2>2, <2>3, <1>1, <1>2, <1>5, AppendIsStd
<1>9. CASE ~(m <= r.cap)
  <2>1. /\ vec[v].size + n <= MaxSize /\ ~(vec[v].size + n <= r.cap)
        /\ r = Reserved(vec[v], vec[v].size + n, b)
    BY <1>2, <1>9, <1>a
  <2>2. Contents' = Contents BY <2>1, <1>1, <1>2, <1>3, RefusingKeeps
  <2>3. IsCall(c, "insert", v, old.size, n, a, "bad_alloc") BY <1>6, <1>9 DEF Outcome
  <2> QED BY <2>2, <2>3, RefusalIsStd
<1> QED BY <1>8, <1>9

\* One element more, the others in their order.
Opened(x, r, where, y) ==
  /\ x.size = r.size + 1
  /\ \A i \in 0..where - 1 : x.cells[i] = r.cells[i]
  /\ \A i \in where + 1..r.size : x.cells[i] = r.cells[i - 1]
  /\ x.cells[where] = y

\* That is an insertion of what the argument means.
LEMMA InsertingIsStd ==
  ASSUME Inv, NEW v \in Vecs, Live(v), NEW where \in 0..vec[v].size - 1,
         NEW a, NEW y, y \in Cells, y = Std!Meant(v, a), NEW x, IsVector(x),
         vec' = [vec EXCEPT ![v] = x], Opened(x, vec[v], where, y),
         NEW c, IsCall(c, "insert", v, where, 1, a, "ok")
  PROVE  Std!Insert(c)
<1>a. PICK old, sz, s, t : /\ old = vec[v].cells /\ sz = vec[v].size /\ s = Contents[v]
                           /\ t = Elements(x)
  OBVIOUS
<1>b. PICK h, u, l : /\ h = Std!Head0(s, where) /\ u = Std!Copies(1, y)
                     /\ l = Std!Tail0(s, where)
  OBVIOUS
<1>1. /\ s \in Seq(Cells) /\ Len(s) = sz /\ Std!Live(v) /\ sz \in Nat
      /\ \A i \in 1..sz : s[i] = old[i - 1]
  BY <1>a, ContentsAre, LenProperties
<1>2. where \in Nat /\ where < sz /\ where \in 0..Len(s) BY <1>1, <1>a
<1>0. /\ x.size = sz + 1 /\ x.cells[where] = y
      /\ \A i \in 0..where - 1 : x.cells[i] = old[i]
      /\ \A i \in where + 1..sz : x.cells[i] = old[i - 1]
  BY <1>a DEF Opened
<1>3. /\ t \in Seq(Cells) /\ Len(t) = sz + 1
      /\ \A i \in 1..sz + 1 : t[i] = x.cells[i - 1]
  <2>1. t \in Seq(Cells) /\ Len(t) = x.size /\ \A i \in 1..x.size : t[i] = x.cells[i - 1]
    BY <1>a, ElementsAreASequence
  <2> QED BY <2>1, <1>0
<1>4. h \in Seq(Cells) /\ Len(h) = where /\ \A i \in 1..where : h[i] = s[i]
  BY <1>b, <1>1, <1>2, HeadIs
<1>5. u \in Seq(Cells) /\ Len(u) = 1 /\ \A i \in 1..1 : u[i] = y
  <2>a. PICK one : one = 1 OBVIOUS
  <2>1. u = Std!Copies(one, y) /\ one \in Nat BY <2>a, <1>b
  <2>2. u \in Seq(Cells) /\ Len(u) = one /\ \A i \in 1..one : u[i] = y
    BY <2>1, CopiesIs
  <2> QED BY <2>a, <2>2
<1>6. l \in Seq(Cells) /\ Len(l) = sz - where
      /\ \A i \in 1..sz - where : l[i] = s[where + i]
  BY ZenonT(30), <1>b, <1>1, <1>2, TailIs
<1>7. \A i \in 1..where : t[i] = h[i]
  <2> SUFFICES ASSUME NEW i \in 1..where PROVE t[i] = h[i] OBVIOUS
  <2>1. i - 1 \in 0..where - 1 /\ i \in 1..sz /\ i \in 1..sz + 1 BY <1>1, <1>2
  <2>2. x.cells[i - 1] = old[i - 1] BY <2>1, <1>0
  <2> QED BY <2>1, <2>2, <1>1, <1>3, <1>4
<1>8. \A i \in 1..1 : t[where + i] = u[i]
  <2>a. PICK k : k = where + 1 OBVIOUS
  <2>1. k \in 1..sz + 1 /\ k - 1 = where BY <2>a, <1>1, <1>2
  <2>2. t[k] = y BY <2>1, <1>0, <1>3
  <2> QED BY <2>a, <2>2, <1>5
<1>9. \A i \in 1..sz - where : t[where + 1 + i] = l[i]
  <2> SUFFICES ASSUME NEW i \in 1..sz - where PROVE t[where + 1 + i] = l[i] OBVIOUS
  <2>a. PICK k, j : k = where + 1 + i /\ j = where + i OBVIOUS
  <2>1. /\ k \in 1..sz + 1 /\ k - 1 = j /\ j \in 1..sz
        /\ j \in where + 1..sz
    BY <2>a, <1>1, <1>2
  <2>2. t[k] = x.cells[j] BY <2>1, <1>3
  <2>3. x.cells[j] = old[j - 1] BY <2>1, <1>0
  <2>4. l[i] = s[j] BY <2>a, <1>6
  <2> QED BY <2>a, <2>1, <2>2, <2>3, <2>4, <1>1
<1>10. t = h \o u \o l
  <2>1. Len(t) = Len(h) + Len(u) + Len(l) BY <1>1, <1>2, <1>3, <1>4, <1>5, <1>6
  <2>2. /\ \A i \in 1..Len(h) : t[i] = h[i]
        /\ \A i \in 1..Len(u) : t[Len(h) + i] = u[i]
        /\ \A i \in 1..Len(l) : t[Len(h) + Len(u) + i] = l[i]
    BY <1>4, <1>5, <1>6, <1>7, <1>8, <1>9
  <2> QED BY <2>1, <2>2, <1>3, <1>4, <1>5, <1>6, ThreeParts
<1>11. Contents' = [Contents EXCEPT ![v] = h \o u \o l]
  BY <1>10, <1>a, ContentsChange
<1>12. ~(where > Len(s)) BY <1>1, <1>2
<1> QED BY <1>1, <1>11, <1>12, <1>a, <1>b DEF IsCall, Std!Insert, Std!Becomes

\* In place: an argument behind where has moved, which is a lapse.
LEMMA InsertIsStd ==
  ASSUME Inv, NEW v \in Vecs, NEW where \in Nat, NEW a \in Pointers,
         InsertInPlace(v, where, a), NEW c, c = call', ~Lapses(c)
  PROVE  Std!Insert(c)
<1>a. PICK old, sz, x : old = vec[v] /\ sz = old.size /\ x = InsertedIn(old, where, a)
  OBVIOUS
<1>1. Live(v) /\ a \in Args(old) /\ where < sz /\ sz < MaxSize /\ sz + 1 <= old.cap
  BY <1>a DEF InsertInPlace
<1>2. IsVector(old) /\ sz \in Nat /\ old.cap \in Nat BY <1>a, <1>1, LiveVector, VectorFacts
<1>3. where \in 0..sz - 1 BY <1>1, <1>2
<1>4. vec' = [vec EXCEPT ![v] = x] BY <1>a DEF InsertInPlace, InsertedIn, Becomes
<1>b. PICK y : y = IF a \in Values THEN a
                   ELSE IF a <= where THEN old.cells[a] ELSE old.cells[a - 1]
  OBVIOUS
<1>5. /\ IsVector(x) /\ x.size = sz + 1
      /\ \A i \in 0..where - 1 : x.cells[i] = old.cells[i]
      /\ \A i \in where + 1..sz : x.cells[i] = old.cells[i - 1]
      /\ x.cells[where] = y
  BY <1>a, <1>b, <1>1, <1>2, <1>3, InsertedIsVector
<1>6. IsCall(c, "insert", v, where, 1, a, "ok") BY CallIs DEF InsertInPlace
<1>7. a \in Values \/ a <= where
  <2> SUFFICES ASSUME a \notin Values, ~(a <= where) PROVE FALSE OBVIOUS
  <2>1. a \in 0..sz - 1 BY <1>1, <1>a DEF Args
  <2>2. a > where /\ sz < old.cap BY <2>1, <1>1, <1>2
  <2> QED BY <2>2, <1>1, <1>6, <1>a DEF IsCall, Lapses
<1>8. y = Deref(old.cells, a) BY <1>7, <1>b DEF Deref
<1>9. y \in Cells /\ y = Std!Meant(v, a)
  BY <1>1, <1>2, <1>8, <1>a, ArgumentIsAValue, MeantIs
<1>10. where \in 0..vec[v].size - 1 /\ Opened(x, vec[v], where, y)
  BY <1>3, <1>5, <1>a DEF Opened
<1> QED BY <1>1, <1>4, <1>5, <1>6, <1>9, <1>10, InsertingIsStd

\* In a new buffer: the argument is read from the old one, so none is a lapse.
LEMMA ReallocatingIsStd ==
  ASSUME Inv, NEW v \in Vecs, NEW where \in Nat, NEW a \in Pointers, NEW b \in Allocations,
         InsertReallocating(v, where, a, b), NEW c, c = call'
  PROVE  Std!Insert(c) \/ Std!Refused(c)
<1>a. PICK old, y : old = vec[v] /\ y = Deref(old.cells, a) OBVIOUS
<1>b. PICK x : x = InsertedElsewhere(old, where, y, b) OBVIOUS
<1>1. Live(v) /\ a \in Args(old) /\ where < old.size
      /\ old.size < MaxSize /\ old.size + 1 > old.cap
  BY <1>a DEF InsertReallocating
<1>2. IsVector(old) BY <1>a, <1>1, LiveVector
<1>3. where \in 0..old.size - 1
  <2>1. old.size \in Nat BY <1>2, VectorFacts
  <2> QED BY <2>1, <1>1
<1>4. y \in Cells BY <1>a, <1>1, <1>2, ArgumentIsAValue
<1>5. vec' = [vec EXCEPT ![v] = x] BY <1>a, <1>b DEF InsertReallocating, Becomes
<1>6. IsCall(c, "insert", v, where, 1, a, Outcome(b # NoBlock))
  BY CallIs DEF InsertReallocating
<1>7. CASE b = NoBlock
  <2>1. x = old BY <1>7, <1>b DEF InsertedElsewhere
  <2>2. vec' = vec BY <2>1, <1>5, <1>a DEF Inv, VecInv
  <2>3. IsCall(c, "insert", v, where, 1, a, "bad_alloc") BY <1>6, <1>7 DEF Outcome
  <2> QED BY <2>2, <2>3, ContentsStay, RefusalIsStd
<1>8. CASE b # NoBlock
  <2>1. b \in Blocks BY <1>8, BlocksAre
  <2>2. x = InsertedAt(old, where, y, b, Accommodate(old.size + 1, old.cap))
    BY <1>8, <1>b DEF InsertedElsewhere, InsertedAt
  <2>3. /\ IsVector(x) /\ x.size = old.size + 1
        /\ \A i \in 0..where - 1 : x.cells[i] = old.cells[i]
        /\ \A i \in where + 1..old.size : x.cells[i] = old.cells[i - 1]
        /\ x.cells[where] = y
    BY <2>1, <2>2, <1>1, <1>2, <1>3, <1>4, InsertedAtIsVector
  <2>4. IsCall(c, "insert", v, where, 1, a, "ok") BY <1>6, <1>8 DEF Outcome
  <2>5. y = Std!Meant(v, a) BY <1>1, <1>a, MeantIs
  <2>6. where \in 0..vec[v].size - 1 /\ Opened(x, vec[v], where, y)
    BY <1>3, <2>3, <1>a DEF Opened
  <2>7. Std!Insert(c)
    BY <1>1, <1>4, <1>5, <2>3, <2>4, <2>5, <2>6, InsertingIsStd
  <2> QED BY <2>7
<1> QED BY <1>7, <1>8

(***************************************************************************)
(* Calls that move elements.                                               *)
(***************************************************************************)
\* A call that throws, or that erases an empty range inside the vector.
LEMMA ThrowIsStd ==
  ASSUME Unchanged
  PROVE  Contents' = Contents
BY ContentsStay DEF Unchanged

\* insert behind the end throws.
LEMMA InsertPastEndIsStd ==
  ASSUME Inv, NEW v \in Vecs, NEW where \in Nat, InsertPastEnd(v, where),
         NEW c, c = call'
  PROVE  Std!Insert(c)
<1>1. Live(v) /\ where > vec[v].size /\ Unchanged BY DEF InsertPastEnd, Throws
<1>2. IsCall(c, "insert", v, where, 1, Zero, "out_of_range")
  BY CallIs DEF InsertPastEnd, Throws
<1>3. where > Len(Contents[v]) /\ Std!Live(v) BY <1>1, ContentsAre
<1> QED BY <1>1, <1>2, <1>3, ThrowIsStd DEF IsCall, Std!Insert, Std!Throws

\* The elements behind the erased ones close the gap.
Closed(x, r, start, n) ==
  \E k \in 0..r.size - start :
     /\ x.size = r.size - k
     /\ k = IF r.size - start < n THEN r.size - start ELSE n
     /\ \A i \in 0..start - 1 : x.cells[i] = r.cells[i]
     /\ \A i \in start..r.size - k - 1 : x.cells[i] = r.cells[i + k]

\* That is what erase_n does.
LEMMA ErasedIsClosed ==
  ASSUME NEW r, IsVector(r), NEW start \in 0..r.size - 1, NEW n \in Nat,
         NEW x, x = Erased(r, start, n)
  PROVE  IsVector(x) /\ Closed(x, r, start, n)
<1>1. PICK k : k = Clamp(r, start, n) OBVIOUS
<1>2. /\ IsVector(x) /\ x.size = r.size - k /\ k \in 0..r.size - start
      /\ k = IF r.size - start < n THEN r.size - start ELSE n
      /\ \A i \in 0..start - 1 : x.cells[i] = r.cells[i]
      /\ \A i \in start..r.size - k - 1 : x.cells[i] = r.cells[i + k]
  BY <1>1, ErasedIsVector
<1> QED BY <1>2 DEF Closed

\* And it is what VectorSpec says of it.
LEMMA ErasingIsStd ==
  ASSUME Inv, NEW v \in Vecs, Live(v), NEW start \in 0..vec[v].size - 1, NEW n \in Nat,
         NEW x, IsVector(x), Closed(x, vec[v], start, n), vec' = [vec EXCEPT ![v] = x],
         NEW c, c.on = v, c.at = start, c.count = n, c.out = "ok"
  PROVE  Std!EraseFrom(c)
<1>a. PICK old, sz, s, t : /\ old = vec[v].cells /\ sz = vec[v].size /\ s = Contents[v]
                           /\ t = Elements(x)
  OBVIOUS
<1>k. PICK k \in 0..sz - start :
         /\ x.size = sz - k
         /\ k = IF sz - start < n THEN sz - start ELSE n
         /\ \A i \in 0..start - 1 : x.cells[i] = old[i]
         /\ \A i \in start..sz - k - 1 : x.cells[i] = old[i + k]
  BY <1>a DEF Closed
<1>b. PICK m : m = sz - k OBVIOUS
<1>c. PICK h, l, from : /\ h = Std!Head0(s, start) /\ from = start + k
                        /\ l = Std!Tail0(s, from)
  OBVIOUS
<1>1. /\ s \in Seq(Cells) /\ Len(s) = sz /\ sz \in Nat
      /\ \A i \in 1..sz : s[i] = old[i - 1]
  BY <1>a, ContentsAre, LenProperties
<1>2. /\ IsVector(x) /\ x.size = m /\ k \in 0..sz - start
      /\ k = IF sz - start < n THEN sz - start ELSE n
      /\ \A i \in 0..start - 1 : x.cells[i] = old[i]
      /\ \A i \in start..m - 1 : x.cells[i] = old[i + k]
  BY <1>k, <1>b
<1>3. /\ start \in Nat /\ k \in Nat /\ m \in Nat /\ start <= m /\ from = start + k
      /\ start \in 0..Len(s) /\ from \in 0..Len(s) /\ m = sz - k
  <2>1. start \in 0..sz - 1 /\ from = start + k /\ m = sz - k BY <1>a, <1>b, <1>c
  <2>2. k \in 0..sz - start BY <1>2
  <2> QED BY <2>1, <2>2, <1>1
<1>4. t \in Seq(Cells) /\ Len(t) = m /\ \A i \in 1..m : t[i] = x.cells[i - 1]
  <2>1. t = Elements(x) /\ IsVector(x) /\ x.size = m BY <1>a, <1>2
  <2>2. t \in Seq(Cells) /\ Len(t) = x.size /\ \A i \in 1..x.size : t[i] = x.cells[i - 1]
    BY <2>1, ElementsAreASequence
  <2> QED BY <2>1, <2>2
<1>5. h \in Seq(Cells) /\ Len(h) = start /\ \A i \in 1..start : h[i] = s[i]
  BY <1>c, <1>1, <1>3, HeadIs
<1>6. /\ l \in Seq(Cells) /\ Len(l) = sz - from
      /\ \A i \in 1..sz - from : l[i] = s[from + i]
  <2>1. l \in Seq(Cells) /\ Len(l) = Len(s) - from
        /\ \A i \in 1..Len(s) - from : l[i] = s[from + i]
    <3>1. s \in Seq(Cells) /\ from \in 0..Len(s) /\ l = Std!Tail0(s, from)
      BY <1>c, <1>1, <1>3
    <3> QED BY <3>1, TailIs
  <2> QED BY <2>1, <1>1
<1>7. \A i \in 1..start : t[i] = h[i]
  <2> SUFFICES ASSUME NEW i \in 1..start PROVE t[i] = h[i] OBVIOUS
  <2>1. i - 1 \in 0..start - 1 /\ i \in 1..sz /\ i \in 1..m BY <1>1, <1>3
  <2>2. x.cells[i - 1] = old[i - 1] BY <2>1, <1>2
  <2> QED BY <2>1, <2>2, <1>1, <1>4, <1>5
<1>8. \A i \in 1..sz - from : t[start + i] = l[i]
  <2> SUFFICES ASSUME NEW i \in 1..sz - from PROVE t[start + i] = l[i] OBVIOUS
  <2>a. PICK j, p, q : j = start + i /\ p = j - 1 /\ q = from + i OBVIOUS
  <2>1. j \in 1..m /\ p \in start..m - 1 /\ p + k = q - 1 /\ q \in 1..sz
    BY <2>a, <1>1, <1>3
  <2>2. t[j] = x.cells[p] BY <2>1, <2>a, <1>4
  <2>3. x.cells[p] = old[p + k] BY <2>1, <1>2
  <2>4. s[q] = old[q - 1] BY <2>1, <1>1
  <2>5. l[i] = s[q] BY <2>a, <1>6
  <2> QED BY <2>a, <2>1, <2>2, <2>3, <2>4, <2>5
<1>9. t = h \o l
  <2>1. Len(t) = Len(h) + Len(l) BY <1>1, <1>3, <1>4, <1>5, <1>6
  <2>2. /\ \A i \in 1..Len(h) : t[i] = h[i]
        /\ \A i \in 1..Len(l) : t[Len(h) + i] = l[i]
    BY <1>5, <1>6, <1>7, <1>8
  <2> QED BY <2>1, <2>2, <1>4, <1>5, <1>6, TwoParts
<1>10. Contents' = [Contents EXCEPT ![v] = h \o l]
  <2>1. t = Elements(x) /\ IsVector(x) BY <1>a, <1>2
  <2>2. Contents' = [Contents EXCEPT ![v] = t] BY <2>1, ContentsChange
  <2> QED BY <2>2, <1>9
<1>11. Std!Clamp(s, start, n) = k
  <2>1. k = IF sz - start < n THEN sz - start ELSE n BY <1>2
  <2>2. Std!Clamp(s, start, n) = IF start + n > sz THEN sz - start ELSE n
    BY <1>1 DEF Std!Clamp
  <2> QED BY <2>1, <2>2, <1>1, <1>3
<1>12. l = Std!Tail0(s, start + Std!Clamp(s, start, n)) BY <1>11, <1>c
<1> QED BY <1>10, <1>12, <1>a, <1>c DEF Std!EraseFrom, Std!Becomes

\* erase throws when its position is no element.
LEMMA EraseIsStd ==
  ASSUME Inv, NEW v \in Vecs, NEW p \in Nat, NEW n \in Nat, Erase(v, p, n),
         NEW c, c = call'
  PROVE  Std!Erase(c)
<1>1. Live(v) /\ EraseN("erase", v, p, n) BY DEF Erase
<1>a. PICK sz : sz = vec[v].size OBVIOUS
<1>2. sz \in Nat /\ Std!Live(v) /\ Std!Size(v) = sz
  BY <1>a, <1>1, LiveVector, VectorFacts, ContentsAre DEF Std!Size
<1>3. CASE p >= sz
  <2>1. Unchanged /\ IsCall(c, "erase", v, p, n, Zero, "out_of_range")
    BY <1>1, <1>3, <1>a, CallIs DEF EraseN, Throws
  <2> QED BY <2>1, <1>2, <1>3, ThrowIsStd DEF IsCall, Std!Erase, Std!Throws
<1>4. CASE ~(p >= sz)
  <2>1. PICK x : x = Erased(vec[v], p, n) OBVIOUS
  <2>2. vec' = [vec EXCEPT ![v] = x] BY <2>1, <1>1, <1>4, <1>a DEF EraseN, Becomes
  <2>3. IsCall(c, "erase", v, p, n, Zero, "ok") BY <1>1, <1>4, <1>a, CallIs DEF EraseN
  <2>4. p \in 0..vec[v].size - 1 BY <1>2, <1>4, <1>a
  <2>5. IsVector(x) /\ Closed(x, vec[v], p, n) BY <2>1, <2>4, <1>1, LiveVector, ErasedIsClosed
  <2>6. Std!EraseFrom(c) BY <2>2, <2>3, <2>4, <2>5, <1>1, ErasingIsStd DEF IsCall
  <2> QED BY <2>3, <2>6, <1>2, <1>4 DEF IsCall, Std!Erase
<1> QED BY <1>3, <1>4

\* Erasing the empty range at the end is a lapse.
LEMMA EraseRangeIsStd ==
  ASSUME Inv, NEW v \in Vecs, NEW p \in Nat, NEW q \in Nat, EraseRange(v, p, q),
         NEW c, c = call', ~Lapses(c)
  PROVE  Std!EraseRange(c)
<1>1. Live(v) /\ p <= vec[v].size /\ q <= vec[v].size BY DEF EraseRange
<1>a. PICK sz, n : sz = vec[v].size /\ n = q - p OBVIOUS
<1>2. sz \in Nat /\ Std!Live(v) BY <1>a, <1>1, LiveVector, VectorFacts, ContentsAre
<1>3. Contents = [w \in Vecs |-> Contents[w]] BY DEF Contents
<1>4. CASE q < p
  <2>1. Unchanged /\ IsCall(c, "erase_range", v, p, n, Zero, "ok")
    BY <1>4, <1>a, CallIs DEF EraseRange
  <2>2. n <= 0 BY <1>4, <1>a
  <2>3. Contents' = [Contents EXCEPT ![v] = Contents[v]] BY <2>1, <1>3, ThrowIsStd
  <2> QED BY <2>1, <2>2, <2>3, <1>2 DEF IsCall, Std!EraseRange, Std!Becomes
<1>5. CASE ~(q < p)
  <2>1. EraseN("erase_range", v, p, n) BY <1>5, <1>a DEF EraseRange
  <2>2. n \in Nat BY <1>5, <1>a
  <2>3. ~(p >= sz)
    <3> SUFFICES ASSUME p >= sz PROVE FALSE OBVIOUS
    <3>1. IsCall(c, "erase_range", v, p, n, Zero, "out_of_range")
      BY <2>1, <1>a, CallIs DEF EraseN, Throws
    <3>2. n = 0 /\ p = sz BY <1>1, <1>2, <1>5, <1>a
    <3> QED BY <3>1, <3>2, <1>a DEF IsCall, Lapses
  <2>4. PICK x : x = Erased(vec[v], p, n) OBVIOUS
  <2>5. vec' = [vec EXCEPT ![v] = x] BY <2>1, <2>3, <2>4, <1>a DEF EraseN, Becomes
  <2>6. IsCall(c, "erase_range", v, p, n, Zero, "ok") BY <2>1, <2>3, <1>a, CallIs DEF EraseN
  <2>7. p \in 0..vec[v].size - 1 BY <1>2, <2>3, <1>a
  <2>8. CASE n = 0
    <3>1. IsVector(vec[v]) BY <1>1, LiveVector
    <3>2. PICK k : k = Clamp(vec[v], p, n) OBVIOUS
    <3>3. /\ IsVector(x) /\ x.size = vec[v].size - k
          /\ k = IF vec[v].size - p < n THEN vec[v].size - p ELSE n
          /\ \A i \in 0..p - 1 : x.cells[i] = vec[v].cells[i]
          /\ \A i \in p..vec[v].size - k - 1 : x.cells[i] = vec[v].cells[i + k]
      BY SMTT(20), <3>1, <3>2, <2>2, <2>4, <2>7, ErasedIsVector
    <3>4. k = 0
      <4>1. ~(sz - p < n) BY <1>2, <2>3, <2>8
      <4> QED BY <4>1, <3>3, <2>8, <1>a
    <3>5. x.size = vec[v].size BY <3>3, <3>4, <1>2, <1>a
    <3>6. \A i \in 0..vec[v].size - 1 : x.cells[i] = vec[v].cells[i]
      <4> SUFFICES ASSUME NEW i \in 0..sz - 1 PROVE x.cells[i] = vec[v].cells[i] BY <1>a
      <4>1. CASE i < p BY <4>1, <3>3
      <4>2. CASE ~(i < p)
        <5>1. i \in p..vec[v].size - k - 1 /\ i + k = i BY <4>2, <3>4, <1>2, <1>a
        <5>2. x.cells[i] = vec[v].cells[i + k] BY <5>1, <3>3
        <5> QED BY <5>1, <5>2
      <4> QED BY <4>1, <4>2
    <3>7. Contents' = Contents BY <3>3, <3>5, <3>6, <2>5, <1>1, KeepsContents
    <3>8. Contents' = [Contents EXCEPT ![v] = Contents[v]] BY <3>7, <1>3
    <3> QED BY <3>8, <2>6, <2>8, <1>2 DEF IsCall, Std!EraseRange, Std!Becomes
  <2>9. CASE n # 0
    <3>0. IsVector(x) /\ Closed(x, vec[v], p, n)
      BY <2>2, <2>4, <2>7, <1>1, LiveVector, ErasedIsClosed
    <3>1. Std!EraseFrom(c) BY <2>2, <2>5, <2>6, <2>7, <3>0, <1>1, ErasingIsStd DEF IsCall
    <3>2. ~(n <= 0) BY <2>2, <2>9
    <3> QED BY <3>1, <3>2, <2>6, <1>2 DEF IsCall, Std!EraseRange
  <2> QED BY <2>8, <2>9
<1> QED BY <1>4, <1>5

\* assign replaces one element by what the argument means.
LEMMA AssignIsStd ==
  ASSUME Inv, NEW v \in Vecs, NEW where \in Nat, NEW a \in Pointers, Assign(v, where, a),
         NEW c, c = call'
  PROVE  Std!Assign(c)
<1>a. PICK old, y, sz, s : /\ old = vec[v] /\ y = Deref(old.cells, a) /\ sz = old.size
                           /\ s = Contents[v]
  OBVIOUS
<1>1. Live(v) /\ a \in Args(old) BY <1>a DEF Assign
<1>2. IsVector(old) /\ sz \in Nat BY <1>a, <1>1, LiveVector, VectorFacts
<1>3. /\ s \in Seq(Cells) /\ Len(s) = sz /\ Std!Live(v) /\ Std!Size(v) = sz
      /\ \A i \in 1..sz : s[i] = old.cells[i - 1]
  BY <1>a, <1>1, ContentsAre DEF Std!Size
<1>4. CASE where >= sz
  <2>1. Unchanged /\ IsCall(c, "assign", v, where, 0, a, "out_of_range")
    BY <1>4, <1>a, CallIs DEF Assign, Throws
  <2> QED BY <2>1, <1>3, <1>4, ThrowIsStd DEF IsCall, Std!Assign, Std!Throws
<1>5. CASE ~(where >= sz)
  <2>a. PICK x : x = AssignedIn(old, where, y) OBVIOUS
  <2>1. vec' = [vec EXCEPT ![v] = x] BY <1>5, <1>a, <2>a DEF Assign, AssignedIn, Becomes
  <2>2. where \in 0..old.size - 1 BY <1>2, <1>5, <1>a
  <2>3. y \in Cells /\ y = Std!Meant(v, a)
    BY <1>a, <1>1, <1>2, ArgumentIsAValue, MeantIs
  <2>4. /\ IsVector(x) /\ x.size = sz
        /\ \A i \in 0..sz - 1 : x.cells[i] = IF i = where THEN y ELSE old.cells[i]
    BY <2>a, <1>2, <2>2, <2>3, <1>a, AssignedIsVector
  <2>b. PICK t : t = Elements(x) OBVIOUS
  <2>5. t \in Seq(Cells) /\ Len(t) = x.size /\ \A i \in 1..x.size : t[i] = x.cells[i - 1]
    BY <2>4, <2>b, ElementsAreASequence
  <2>c. PICK j, u : j = where + 1 /\ u = [s EXCEPT ![j] = y] OBVIOUS
  <2>6. j \in 1..Len(s) BY <2>2, <2>c, <1>2, <1>3, <1>a
  <2>7. /\ u \in Seq(Cells) /\ Len(u) = sz
        /\ \A i \in 1..sz : u[i] = IF i = j THEN y ELSE s[i]
    BY <2>3, <2>6, <2>c, <1>3, ExceptSeq
  <2>8. ASSUME NEW i \in 1..sz PROVE t[i] = u[i]
    <3>1. i - 1 \in 0..sz - 1 /\ (i = j <=> i - 1 = where) BY <2>2, <2>c, <1>2, <1>a
    <3>2. t[i] = IF i - 1 = where THEN y ELSE old.cells[i - 1] BY <3>1, <2>4, <2>5
    <3> QED BY <3>1, <3>2, <2>7, <1>3
  <2>9. t = u BY <2>4, <2>5, <2>7, <2>8, SeqEqual
  <2>10. Contents' = [Contents EXCEPT ![v] = t] BY <2>1, <2>4, <2>b, ContentsChange
  <2>11. IsCall(c, "assign", v, where, 0, a, "ok") BY <1>5, <1>a, CallIs DEF Assign
  <2>12. c.on = v /\ c.at = where /\ c.arg = a /\ c.out = "ok" /\ c.op = "assign"
    BY <2>11 DEF IsCall
  <2>13. u = [Contents[c.on] EXCEPT ![c.at + 1] = Std!Meant(c.on, c.arg)]
    BY <2>3, <2>12, <2>c, <1>a
  <2> QED BY <2>9, <2>10, <2>12, <2>13, <1>3, <1>5 DEF Std!Assign, Std!Becomes
<1> QED BY <1>4, <1>5

\* The removed element ends up behind the others.
Rotated(x, r, where) ==
  /\ x.size = r.size
  /\ \A i \in 0..where - 1 : x.cells[i] = r.cells[i]
  /\ \A i \in where..r.size - 2 : x.cells[i] = r.cells[i + 1]
  /\ x.cells[r.size - 1] = r.cells[where]

\* That is what VectorSpec says of remove.
LEMMA RotatingIsStd ==
  ASSUME Inv, NEW v \in Vecs, Live(v), NEW where \in 0..vec[v].size - 1,
         NEW x, IsVector(x), Rotated(x, vec[v], where), vec' = [vec EXCEPT ![v] = x],
         NEW c, IsCall(c, "remove", v, where, 0, Zero, "ok")
  PROVE  Std!Remove(c)
<1>a. PICK old, sz, s, t : /\ old = vec[v].cells /\ sz = vec[v].size /\ s = Contents[v]
                           /\ t = Elements(x)
  OBVIOUS
<1>b. PICK j, y : j = where + 1 /\ y = s[j] OBVIOUS
<1>c. PICK h, l, u : h = Std!Head0(s, where) /\ l = Std!Tail0(s, j) /\ u = <<y>> OBVIOUS
<1>1. /\ s \in Seq(Cells) /\ Len(s) = sz /\ sz \in Nat /\ Std!Live(v)
      /\ \A i \in 1..sz : s[i] = old[i - 1]
  BY <1>a, ContentsAre, LenProperties
<1>2. /\ x.size = sz /\ x.cells[sz - 1] = old[where]
      /\ \A i \in 0..where - 1 : x.cells[i] = old[i]
      /\ \A i \in where..sz - 2 : x.cells[i] = old[i + 1]
  BY <1>a DEF Rotated
<1>3. /\ where \in Nat /\ where < sz /\ j \in Nat /\ where \in 0..Len(s) /\ j \in 0..Len(s)
      /\ j \in 1..sz /\ j - 1 = where
  <2>1. where \in 0..sz - 1 BY <1>a
  <2> QED BY <2>1, <1>b, <1>1
<1>4. t \in Seq(Cells) /\ Len(t) = sz /\ \A i \in 1..sz : t[i] = x.cells[i - 1]
  <2>1. t \in Seq(Cells) /\ Len(t) = x.size /\ \A i \in 1..x.size : t[i] = x.cells[i - 1]
    BY <1>a, ElementsAreASequence
  <2> QED BY <2>1, <1>2
<1>5. h \in Seq(Cells) /\ Len(h) = where /\ \A i \in 1..where : h[i] = s[i]
  BY <1>c, <1>1, <1>3, HeadIs
<1>6. l \in Seq(Cells) /\ Len(l) = sz - j /\ \A i \in 1..sz - j : l[i] = s[j + i]
  <2>1. l \in Seq(Cells) /\ Len(l) = Len(s) - j /\ \A i \in 1..Len(s) - j : l[i] = s[j + i]
    <3>1. s \in Seq(Cells) /\ j \in 0..Len(s) /\ l = Std!Tail0(s, j)
      BY <1>c, <1>1, <1>3
    <3> QED BY <3>1, TailIs
  <2> QED BY <2>1, <1>1
<1>7. u \in Seq(Cells) /\ Len(u) = 1 /\ u[1] = y
  <2>1. y \in Cells BY <1>b, <1>1, <1>3, ElementOfSeq
  <2> QED BY <2>1, <1>c
<1>8. \A i \in 1..where : t[i] = h[i]
  <2> SUFFICES ASSUME NEW i \in 1..where PROVE t[i] = h[i] OBVIOUS
  <2>1. i - 1 \in 0..where - 1 /\ i \in 1..sz BY <1>1, <1>3
  <2>2. x.cells[i - 1] = old[i - 1] BY <2>1, <1>2
  <2> QED BY <2>1, <2>2, <1>1, <1>4, <1>5
<1>9. \A i \in 1..sz - j : t[where + i] = l[i]
  <2> SUFFICES ASSUME NEW i \in 1..sz - j PROVE t[where + i] = l[i] OBVIOUS
  <2>a. PICK k, p, q : k = where + i /\ p = k - 1 /\ q = j + i OBVIOUS
  <2>1. k \in 1..sz /\ p \in where..sz - 2 /\ p + 1 = q - 1 /\ q \in 1..sz
    BY <2>a, <1>b, <1>1, <1>3
  <2>2. t[k] = x.cells[p] BY <2>1, <2>a, <1>4
  <2>3. x.cells[p] = old[p + 1] BY <2>1, <1>2
  <2>4. s[q] = old[q - 1] BY <2>1, <1>1
  <2>5. l[i] = s[q] BY <2>a, <1>6
  <2> QED BY <2>a, <2>1, <2>2, <2>3, <2>4, <2>5
<1>10. t[sz] = y
  <2>1. sz \in 1..sz BY <1>1, <1>3
  <2>2. t[sz] = old[where] BY <2>1, <1>2, <1>4
  <2>3. s[j] = old[where] BY <1>1, <1>3
  <2> QED BY <2>2, <2>3, <1>b
<1>11. t = h \o l \o u
  <2>1. Len(t) = Len(h) + Len(l) + Len(u) BY <1>b, <1>1, <1>3, <1>4, <1>5, <1>6, <1>7
  <2>2. Len(h) + Len(l) + 1 = sz BY <1>b, <1>1, <1>3, <1>5, <1>6
  <2>3. \A i \in 1..Len(u) : t[Len(h) + Len(l) + i] = u[i]
    <3> SUFFICES ASSUME NEW i \in 1..1 PROVE t[Len(h) + Len(l) + i] = u[i] BY <1>7
    <3>1. i = 1 OBVIOUS
    <3> QED BY <3>1, <2>2, <1>7, <1>10
  <2>4. /\ \A i \in 1..Len(h) : t[i] = h[i]
        /\ \A i \in 1..Len(l) : t[Len(h) + i] = l[i]
    BY <1>5, <1>6, <1>8, <1>9
  <2> QED BY ZenonT(30), <2>1, <2>3, <2>4, <1>4, <1>5, <1>6, <1>7, ThreeParts
<1>12. Contents' = [Contents EXCEPT ![v] = h \o l \o u]
  <2>1. Contents' = [Contents EXCEPT ![v] = t] BY <1>a, ContentsChange
  <2> QED BY <2>1, <1>11
<1>13. ~(where >= Len(s)) BY <1>1, <1>3
<1>14. c.op = "remove" /\ c.on = v /\ c.at = where /\ c.out = "ok" BY DEF IsCall
<1> QED BY <1>1, <1>12, <1>13, <1>14, <1>a, <1>b, <1>c DEF Std!Remove, Std!Becomes

\* remove throws when its position is no element.
LEMMA RemoveIsStd ==
  ASSUME Inv, NEW v \in Vecs, NEW where \in Nat, Remove(v, where), NEW c, c = call'
  PROVE  Std!Remove(c)
<1>a. PICK old, sz, x : old = vec[v] /\ sz = old.size /\ x = Removed(old, where) OBVIOUS
<1>1. Live(v) BY DEF Remove
<1>2. IsVector(old) /\ sz \in Nat BY <1>a, <1>1, LiveVector, VectorFacts
<1>3. Std!Live(v) /\ Len(Contents[v]) = sz BY <1>a, <1>1, ContentsAre
<1>4. CASE where >= sz
  <2>1. Unchanged /\ IsCall(c, "remove", v, where, 0, Zero, "out_of_range")
    BY <1>4, <1>a, CallIs DEF Remove, Throws
  <2> QED BY <2>1, <1>3, <1>4, ThrowIsStd DEF IsCall, Std!Remove, Std!Throws
<1>5. CASE ~(where >= sz)
  <2>1. vec' = [vec EXCEPT ![v] = x] BY <1>5, <1>a DEF Remove, Becomes
  <2>2. where \in 0..old.size - 1 BY <1>2, <1>5, <1>a
  <2>3. IsVector(x) /\ Rotated(x, old, where)
    BY <1>a, <1>2, <2>2, RemovedIsVector DEF Rotated
  <2>4. IsCall(c, "remove", v, where, 0, Zero, "ok") BY <1>5, <1>a, CallIs DEF Remove
  <2> QED BY <2>1, <2>2, <2>3, <2>4, <1>1, <1>a, RotatingIsStd
<1> QED BY <1>4, <1>5

\* The elements of a range in the opposite order: what VectorSpec says of reverse.
LEMMA TurningIsStd ==
  ASSUME Inv, NEW v \in Vecs, Live(v), NEW start \in 0..vec[v].size - 1, NEW n \in Nat,
         NEW x, IsVector(x), Turned(x, vec[v], start, n), vec' = [vec EXCEPT ![v] = x],
         NEW c, IsCall(c, "reverse", v, start, n, Zero, "ok")
  PROVE  Std!Reverse(c)
<1>a. PICK old, sz, s, t : /\ old = vec[v].cells /\ sz = vec[v].size /\ s = Contents[v]
                           /\ t = Elements(x)
  OBVIOUS
<1>k. PICK k \in 0..sz - start :
         /\ x.size = sz
         /\ k = IF sz - start < n THEN sz - start ELSE n
         /\ \A i \in 0..sz - 1 : i < start \/ i >= start + k => x.cells[i] = old[i]
         /\ \A i \in start..start + k - 1 : x.cells[i] = old[start + start + k - 1 - i]
  BY <1>a DEF Turned
<1>b. PICK stop, first : stop = start + k /\ first = start + 1 OBVIOUS
<1>c. PICK w, h, u, l : /\ w = SubSeq(s, first, stop)
                        /\ h = Std!Head0(s, start) /\ u = Std!Reversed(w)
                        /\ l = Std!Tail0(s, stop)
  OBVIOUS
<1>1. /\ s \in Seq(Cells) /\ Len(s) = sz /\ sz \in Nat /\ Std!Live(v)
      /\ \A i \in 1..sz : s[i] = old[i - 1] /\ s[i] \in Cells
  BY <1>a, ContentsAre, LenProperties, ElementOfSeq
<1>2. /\ start \in Nat /\ start < sz /\ k \in Nat /\ stop \in Nat /\ stop <= sz
      /\ start <= stop /\ start \in 0..Len(s) /\ stop \in 0..Len(s)
      /\ stop = start + k /\ first = start + 1
  <2>1. start \in 0..sz - 1 /\ k \in 0..sz - start BY <1>a, <1>k
  <2> QED BY <2>1, <1>b, <1>1
<1>4. t \in Seq(Cells) /\ Len(t) = sz /\ \A i \in 1..sz : t[i] = x.cells[i - 1]
  <2>1. t \in Seq(Cells) /\ Len(t) = x.size /\ \A i \in 1..x.size : t[i] = x.cells[i - 1]
    BY <1>a, ElementsAreASequence
  <2> QED BY <2>1, <1>k
<1>5. h \in Seq(Cells) /\ Len(h) = start /\ \A i \in 1..start : h[i] = s[i]
  BY <1>c, <1>1, <1>2, HeadIs
<1>6. l \in Seq(Cells) /\ Len(l) = sz - stop /\ \A i \in 1..sz - stop : l[i] = s[stop + i]
  BY ZenonT(30), <1>c, <1>1, <1>2, TailIs
<1>7. w \in Seq(Cells) /\ Len(w) = k /\ \A i \in 1..k : w[i] = s[start + i]
  <2>1. first \in Int /\ stop \in Int BY <1>2
  <2>2. \A i \in first..stop : s[i] \in Cells
    <3>1. \A i \in first..stop : i \in 1..sz BY <1>1, <1>2
    <3> QED BY <3>1, <1>1
  <2>3. /\ w \in Seq(Cells) /\ Len(w) = IF first <= stop THEN stop - first + 1 ELSE 0
        /\ \A i \in 1..stop - first + 1 : w[i] = s[first + i - 1]
    BY <2>1, <2>2, <1>c, SubSeqProperties
  <2>4. Len(w) = k BY <2>3, <1>2
  <2>5. ASSUME NEW i \in 1..k PROVE w[i] = s[start + i]
    <3>1. i \in 1..stop - first + 1 /\ first + i - 1 = start + i BY <1>2
    <3> QED BY <3>1, <2>3
  <2> QED BY <2>3, <2>4, <2>5
<1>8. u \in Seq(Cells) /\ Len(u) = k /\ \A i \in 1..k : u[i] = w[k + 1 - i]
  <2>1. u \in Seq(Cells) /\ Len(u) = Len(w) /\ \A i \in 1..Len(w) : u[i] = w[Len(w) + 1 - i]
    BY <1>c, <1>7, ReversedIs
  <2> QED BY <2>1, <1>7
<1>9. \A i \in 1..start : t[i] = h[i]
  <2> SUFFICES ASSUME NEW i \in 1..start PROVE t[i] = h[i] OBVIOUS
  <2>a. PICK p : p = i - 1 OBVIOUS
  <2>1. p \in 0..sz - 1 /\ p < start /\ i \in 1..sz
    <3>1. start \in Nat /\ start < sz /\ sz \in Nat BY <1>1, <1>2
    <3> QED BY <2>a, <3>1
  <2>2. x.cells[p] = old[p] BY <2>1, <1>k
  <2> QED BY <2>a, <2>1, <2>2, <1>1, <1>4, <1>5
<1>10. \A i \in 1..k : t[start + i] = u[i]
  <2> SUFFICES ASSUME NEW i \in 1..k PROVE t[start + i] = u[i] OBVIOUS
  <2>a. PICK j, p, q, g : /\ j = start + i /\ p = j - 1 /\ q = k + 1 - i
                          /\ g = start + q
    OBVIOUS
  <2>1. /\ j \in 1..sz /\ p \in start..start + k - 1 /\ q \in 1..k /\ g \in 1..sz
        /\ start + start + k - 1 - p = g - 1
    BY <2>a, <1>1, <1>2
  <2>2. t[j] = x.cells[p] BY <2>1, <2>a, <1>4
  <2>3. x.cells[p] = old[start + start + k - 1 - p] BY <2>1, <1>k
  <2>4. s[g] = old[g - 1] BY <2>1, <1>1
  <2>5. u[i] = w[q] BY <2>a, <1>8
  <2>6. w[q] = s[g] BY <2>a, <2>1, <1>7
  <2> QED BY <2>a, <2>1, <2>2, <2>3, <2>4, <2>5, <2>6
<1>11. \A i \in 1..sz - stop : t[start + k + i] = l[i]
  <2> SUFFICES ASSUME NEW i \in 1..sz - stop PROVE t[start + k + i] = l[i] OBVIOUS
  <2>a. PICK j, p : j = start + k + i /\ p = j - 1 OBVIOUS
  <2>1. j \in 1..sz /\ j = stop + i /\ p \in 0..sz - 1 /\ p >= start + k
    BY <2>a, <1>1, <1>2
  <2>2. t[j] = x.cells[p] BY <2>1, <2>a, <1>4
  <2>3. x.cells[p] = old[p] BY <2>1, <1>k
  <2>4. s[j] = old[p] BY <2>1, <2>a, <1>1
  <2>5. l[i] = s[j] BY <2>1, <1>6
  <2> QED BY <2>a, <2>2, <2>3, <2>4, <2>5
<1>12. t = h \o u \o l
  <2>1. Len(t) = Len(h) + Len(u) + Len(l) BY <1>1, <1>2, <1>4, <1>5, <1>6, <1>8
  <2>2. /\ \A i \in 1..Len(h) : t[i] = h[i]
        /\ \A i \in 1..Len(u) : t[Len(h) + i] = u[i]
        /\ \A i \in 1..Len(l) : t[Len(h) + Len(u) + i] = l[i]
    BY <1>5, <1>6, <1>8, <1>9, <1>10, <1>11
  <2> QED BY ZenonT(30), <2>1, <2>2, <1>4, <1>5, <1>6, <1>8, ThreeParts
<1>13. Contents' = [Contents EXCEPT ![v] = h \o u \o l]
  <2>1. Contents' = [Contents EXCEPT ![v] = t] BY <1>a, ContentsChange
  <2> QED BY <2>1, <1>12
<1>14. Std!Clamp(s, start, n) = k
  <2>1. k = IF sz - start < n THEN sz - start ELSE n BY <1>k
  <2>2. Std!Clamp(s, start, n) = IF start + n > sz THEN sz - start ELSE n
    BY <1>1 DEF Std!Clamp
  <2> QED BY <2>1, <2>2, <1>1, <1>2
<1>15. ~(start >= Len(s)) BY <1>1, <1>2
<1>16. c.op = "reverse" /\ c.on = v /\ c.at = start /\ c.count = n /\ c.out = "ok"
  BY DEF IsCall
<1>17. c.at + Std!Clamp(s, c.at, c.count) = stop BY <1>14, <1>16, <1>b
<1> QED BY <1>1, <1>13, <1>15, <1>16, <1>17, <1>a, <1>b, <1>c DEF Std!Reverse, Std!Becomes

\* reverse throws when its position is no element.
LEMMA ReverseIsStd ==
  ASSUME Inv, NEW v \in Vecs, NEW p \in Nat, NEW n \in Nat, Reverse(v, p, n),
         NEW c, c = call'
  PROVE  Std!Reverse(c)
<1>a. PICK old, sz, x : old = vec[v] /\ sz = old.size /\ x = Reversed(old, p, n) OBVIOUS
<1>1. Live(v) BY DEF Reverse
<1>2. IsVector(old) /\ sz \in Nat BY <1>a, <1>1, LiveVector, VectorFacts
<1>3. Std!Live(v) /\ Len(Contents[v]) = sz BY <1>a, <1>1, ContentsAre
<1>4. CASE p >= sz
  <2>1. Unchanged /\ IsCall(c, "reverse", v, p, n, Zero, "out_of_range")
    BY <1>4, <1>a, CallIs DEF Reverse, Throws
  <2> QED BY <2>1, <1>3, <1>4, ThrowIsStd DEF IsCall, Std!Reverse, Std!Throws
<1>5. CASE ~(p >= sz)
  <2>1. vec' = [vec EXCEPT ![v] = x] BY <1>5, <1>a DEF Reverse, Becomes
  <2>2. p \in 0..old.size - 1 BY <1>2, <1>5, <1>a
  <2>3. IsVector(x) /\ Turned(x, old, p, n) BY <1>a, <1>2, <2>2, ReversedIsVector
  <2>4. IsCall(c, "reverse", v, p, n, Zero, "ok") BY <1>5, <1>a, CallIs DEF Reverse
  <2> QED BY <2>1, <2>2, <2>3, <2>4, <1>1, <1>a, TurningIsStd
<1> QED BY <1>4, <1>5

(***************************************************************************)
(* The refinement.                                                         *)
(***************************************************************************)
\* Every step that is not a lapse is a step of VectorSpec.
LEMMA NextIsStd ==
  ASSUME Inv, Next, NEW c, c = call', ~Lapses(c)
  PROVE  Std!Does(c)
<1>a. PICK v \in Vecs : Constructs(v) \/ Grows(v) \/ Edits(v) BY DEF Next
<1>b. Counts \subseteq Nat /\ Positions \subseteq Nat BY Bounds DEF Counts, Positions
<1>1. CASE Constructs(v)
  <2>1. Std!Ctor(c) \/ Std!CopyCtor(c) \/ Std!MoveCtor(c) \/ Std!Refused(c)
    BY <1>1, CtorIsStd, CopyCtorIsStd, MoveCtorIsStd DEF Constructs
  <2> QED BY <2>1 DEF Std!Does
<1>2. CASE Grows(v)
  <2>1. PICK b \in Allocations :
           \/ ShrinkToFit(v, b)
           \/ \E n \in Counts : \/ Reserve(v, n, b) \/ Resize(v, n, b) \/ EmplaceBackN(v, n, b)
                                \/ \E a \in Pointers : PushBackN(v, n, a, b)
           \/ \E where \in Counts, a \in Pointers : InsertReallocating(v, where, a, b)
    BY <1>2 DEF Grows
  <2>3. CASE ShrinkToFit(v, b)
    <3>1. Std!Relocate(c) \/ Std!Refused(c) BY <2>3, ShrinkIsStd
    <3> QED BY <3>1 DEF Std!Does
  <2>4. ASSUME NEW n \in Counts,
               \/ Reserve(v, n, b) \/ Resize(v, n, b) \/ EmplaceBackN(v, n, b)
               \/ \E a \in Pointers : PushBackN(v, n, a, b)
        PROVE  Std!Does(c)
    <3>1. Std!Relocate(c) \/ Std!Resize(c) \/ Std!Insert(c) \/ Std!Refused(c)
      BY <2>4, ReserveIsStd, ResizeIsStd, EmplaceIsStd, PushBackIsStd
    <3> QED BY <3>1 DEF Std!Does
  <2>5. ASSUME NEW where \in Counts, NEW a \in Pointers,
               InsertReallocating(v, where, a, b)
        PROVE  Std!Does(c)
    <3>1. where \in Nat BY <1>b
    <3>2. Std!Insert(c) \/ Std!Refused(c) BY <2>5, <3>1, ReallocatingIsStd
    <3> QED BY <3>2 DEF Std!Does
  <2> QED BY <2>1, <2>3, <2>4, <2>5
<1>3. CASE Edits(v)
  <2>1. \/ Dtor(v) \/ Clear(v) \/ PopBack(v)
        \/ \E where \in Positions : InsertPastEnd(v, where) \/ Remove(v, where)
        \/ \E where \in Positions, a \in Pointers :
              InsertInPlace(v, where, a) \/ Assign(v, where, a)
        \/ \E p, n \in Positions :
              Erase(v, p, n) \/ EraseRange(v, p, n) \/ Reverse(v, p, n)
    BY <1>3 DEF Edits
  <2>2. CASE Dtor(v) \/ Clear(v) \/ PopBack(v)
    <3>1. Std!Dtor(c) \/ Std!Clear(c) \/ Std!PopBack(c)
      BY <2>2, DtorIsStd, ClearIsStd, PopBackIsStd
    <3> QED BY <3>1 DEF Std!Does
  <2>3. ASSUME NEW where \in Positions, InsertPastEnd(v, where) \/ Remove(v, where)
        PROVE  Std!Does(c)
    <3>1. where \in Nat BY <1>b
    <3>2. Std!Insert(c) \/ Std!Remove(c)
      BY <2>3, <3>1, InsertPastEndIsStd, RemoveIsStd
    <3> QED BY <3>2 DEF Std!Does
  <2>4. ASSUME NEW where \in Positions, NEW a \in Pointers,
               InsertInPlace(v, where, a) \/ Assign(v, where, a)
        PROVE  Std!Does(c)
    <3>1. where \in Nat BY <1>b
    <3>2. Std!Insert(c) \/ Std!Assign(c) BY <2>4, <3>1, InsertIsStd, AssignIsStd
    <3> QED BY <3>2 DEF Std!Does
  <2>5. ASSUME NEW p \in Positions, NEW n \in Positions,
               Erase(v, p, n) \/ EraseRange(v, p, n) \/ Reverse(v, p, n)
        PROVE  Std!Does(c)
    <3>1. p \in Nat /\ n \in Nat BY <1>b
    <3>2. Std!Erase(c) \/ Std!EraseRange(c) \/ Std!Reverse(c)
      BY <2>5, <3>1, EraseIsStd, EraseRangeIsStd, ReverseIsStd
    <3> QED BY <3>2 DEF Std!Does
  <2> QED BY <2>1, <2>2, <2>3, <2>4, <2>5
<1> QED BY <1>a, <1>1, <1>2, <1>3

\* StdModifiers: at first there are no vectors, and from then on every call
\* changes the sequence of elements as VectorSpec says, the lapses aside:
\* push_back, insert, erase, assign, remove, reverse, resize, the constructors
\* and the destructor, whatever buffers and capacities come and go.
THEOREM ImplementsVectorSpec == Spec => StdModifiers
<1>1. Init => Std!Init
  <2> SUFFICES ASSUME Init PROVE Std!Init OBVIOUS
  <2>1. \A v \in Vecs : ~Live(v) BY DEF Init, Live
  <2>2. Contents = [v \in Vecs |-> Absent] BY <2>1 DEF Contents
  <2> QED BY <2>2 DEF Init, Std!Init
<1>2. Inv /\ [Next]_vars => [~Lapses(call') => Std!Next]_vars
  <2> SUFFICES ASSUME Inv, Next, ~Lapses(call') PROVE Std!Next OBVIOUS
  <2>1. PICK c : c = call' OBVIOUS
  <2>2. Std!Does(c) BY <2>1, NextIsStd
  <2> QED BY <2>1, <2>2 DEF Std!Next
<1> QED BY <1>1, <1>2, Invariance, PTL DEF Spec, StdModifiers
=============================================================================
