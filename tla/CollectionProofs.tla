--------------------------- MODULE CollectionProofs ---------------------------
(***************************************************************************)
(* Proofs about Collection, for any finite sets of containers, script      *)
(* objects and variables, and any set of values.                           *)
(*                                                                         *)
(* The argument has two parts.  The heap is consistent with the references *)
(* from outside of it: the counter of an object is the number of those and *)
(* of the handles stored in objects, and only live objects are referred    *)
(* to.  Each operation on the heap is a few elementary changes that trade  *)
(* one kind of reference for another.  The collector's counts are bounds:  *)
(* what scripts do while it works either takes references away or clears   *)
(* the flag of an object that a script could reach.                        *)
(***************************************************************************)
EXTENDS Collection, FiniteSetTheorems, TLAPS

Count(S, f, o) == Cardinality({x \in S : f[x] = o})

Bit(b) == IF b THEN 1 ELSE 0

(* References of scripts: variables, and the function that creates o.       *)
V(o) == Count(Vars, var, o) + Bit(o \in Frame)

(* The references that are not stored in an object.                         *)
Ext == [o \in Handled |-> V(o) + Bit(o \in known)]

(* The objects that refer to o.                                             *)
In(o) == {p \in Handled : data[p] = o}

Plus(e, o) == [p \in Handled |-> e[p] + Bit(p = o)]
Minus(e, o) == [p \in Handled |-> e[p] - Bit(p = o)]

Lives == {"unborn", "live", "dead"}

(* What an object may store.                                                *)
Fits(c, n) == /\ c \in Containers => n \in Scripts \cup {Null}
              /\ c \in Scripts => n \in Containers \cup {Null}

Heap(l, r, f, d) == [life |-> l, rc |-> r, flag |-> f, data |-> d]

HeapType(h) ==
  /\ h = Heap(h.life, h.rc, h.flag, h.data)
  /\ h.life \in [Objects -> Lives]
  /\ h.rc \in [Handled -> Int]
  /\ h.flag \in [Handled -> BOOLEAN]
  /\ h.data \in [Handled -> Handled \cup {Null}]
  /\ \A c \in Handled : Fits(c, h.data[c])

Balanced(h, e) == \A o \in Handled : h.rc[o] = e[o] + Count(Handled, h.data, o)

LiveOnly(h, e) ==
  /\ \A o \in Handled : e[o] > 0 => h.life[o] = "live"
  /\ \A o \in Handled : h.data[o] # Null => h.life[o] = "live" /\ h.life[h.data[o]] = "live"

(* The heap h is consistent with e references from outside.                 *)
HeapOK(h, e) == HeapType(h) /\ e \in [Handled -> Nat] /\ Balanced(h, e) /\ LiveOnly(h, e)

(* From h to k handles are cleared, flags too, and objects destroyed.       *)
Less(h, k) ==
  /\ \A p \in Handled : k.flag[p] => h.flag[p]
  /\ \A p \in Handled : k.data[p] \in {h.data[p], Null}
  /\ \A p \in Objects : \/ k.life[p] = h.life[p]
                        \/ p \in Handled /\ h.life[p] = "live" /\ k.life[p] = "dead"

(***************************************************************************)
(* Counting.                                                               *)
(***************************************************************************)
(* There are finitely many objects with counters, and variables.            *)
LEMMA Finite == IsFiniteSet(Handled) /\ IsFiniteSet(Vars)
BY CollectionAssumption DEF Handled

(* Null stands for no object.                                               *)
LEMMA NullIsNoObject == Null \notin Objects /\ Null \notin Handled /\ Handled \subseteq Objects
BY CollectionAssumption DEF Handled, Objects

(* A count is a number, and zero where nothing is counted.                  *)
LEMMA CountIsNat ==
  ASSUME NEW S, IsFiniteSet(S), NEW f, NEW o
  PROVE  /\ Count(S, f, o) \in Nat
         /\ Count(S, f, o) <= Cardinality(S)
         /\ Count(S, f, o) = 0 <=> \A x \in S : f[x] # o
<1>1. PICK T : T = {x \in S : f[x] = o} OBVIOUS
<1>2. T \in SUBSET S /\ Count(S, f, o) = Cardinality(T) BY <1>1 DEF Count
<1>3. IsFiniteSet(T) /\ Cardinality(T) <= Cardinality(S) BY <1>2, FS_Subset
<1>4. Cardinality(T) \in Nat BY <1>3, FS_CardinalityType
<1>5. Cardinality(T) = 0 <=> T = {} BY <1>3, FS_EmptySet
<1>6. T = {} <=> \A x \in S : f[x] # o BY <1>1
<1> QED BY <1>2, <1>3, <1>4, <1>5, <1>6

(* Where one is counted there is no other.                                  *)
LEMMA CountedOnce ==
  ASSUME NEW S, IsFiniteSet(S), NEW f, NEW o, Count(S, f, o) = 1,
         NEW x \in S, f[x] = o, NEW y \in S, f[y] = o
  PROVE  x = y
<1>1. PICK T : T = {z \in S : f[z] = o} OBVIOUS
<1>2. T \in SUBSET S /\ Count(S, f, o) = Cardinality(T) BY <1>1 DEF Count
<1>3. IsFiniteSet(T) BY <1>2, FS_Subset
<1>4. PICK w : T = {w} BY <1>2, <1>3, FS_Singleton
<1>5. x \in T /\ y \in T BY <1>1
<1> QED BY <1>4, <1>5

ReplacedAt(f, x, n, g) == g = [f EXCEPT ![x] = n]

(* One value of f is replaced.                                              *)
LEMMA CountReplaced ==
  ASSUME NEW S, IsFiniteSet(S), NEW f, DOMAIN f = S, NEW x \in S, NEW n,
         NEW g, ReplacedAt(f, x, n, g), NEW o
  PROVE  Count(S, g, o) = Count(S, f, o) - Bit(f[x] = o) + Bit(n = o)
<1>1. PICK T, U : T = {z \in S : f[z] = o} /\ U = {z \in S : g[z] = o} OBVIOUS
<1>2. /\ T \in SUBSET S /\ Count(S, f, o) = Cardinality(T)
      /\ U \in SUBSET S /\ Count(S, g, o) = Cardinality(U)
  BY <1>1 DEF Count
<1>3. \A z \in S : g[z] = IF z = x THEN n ELSE f[z] BY DEF ReplacedAt
<1>4. IsFiniteSet(T) BY <1>2, FS_Subset
<1>5. PICK W : W = T \ {x} OBVIOUS
<1>6. IsFiniteSet(W) /\ Cardinality(W) = IF x \in T THEN Cardinality(T) - 1 ELSE Cardinality(T)
  BY <1>4, <1>5, FS_RemoveElement
<1>7. Cardinality(T) \in Nat /\ Cardinality(W) \in Nat
  BY <1>4, <1>6, FS_CardinalityType
<1>8. x \in T <=> f[x] = o BY <1>1
<1>9. CASE n = o
  <2>1. U = W \cup {x} BY <1>1, <1>3, <1>5, <1>9
  <2>2. Cardinality(U) = Cardinality(W) + 1 BY <2>1, <1>5, <1>6, FS_AddElement
  <2> QED BY <2>2, <1>2, <1>6, <1>7, <1>8, <1>9 DEF Bit
<1>10. CASE n # o
  <2>1. U = W BY <1>1, <1>3, <1>5, <1>10
  <2> QED BY <2>1, <1>2, <1>6, <1>7, <1>8, <1>10 DEF Bit
<1> QED BY <1>9, <1>10

ClearedOn(f, D, g) == g = [x \in DOMAIN f |-> IF x \in D THEN Null ELSE f[x]]

(* The values in D are cleared.                                             *)
LEMMA CountCleared ==
  ASSUME NEW S, IsFiniteSet(S), NEW f, DOMAIN f = S, NEW D, D \subseteq S,
         NEW g, ClearedOn(f, D, g), NEW o, o # Null
  PROVE  Count(S, g, o) = Count(S, f, o) - Cardinality({x \in D : f[x] = o})
<1>1. PICK T, U, W : /\ T = {z \in S : f[z] = o} /\ U = {z \in S : g[z] = o}
                     /\ W = {x \in D : f[x] = o}
  OBVIOUS
<1>2. Count(S, f, o) = Cardinality(T) /\ Count(S, g, o) = Cardinality(U) BY <1>1 DEF Count
<1>3. \A z \in S : g[z] = IF z \in D THEN Null ELSE f[z] BY DEF ClearedOn
<1>4. U = T \ D /\ T \cap D = W BY <1>1, <1>3
<1>5. IsFiniteSet(T)
  <2>1. T \in SUBSET S BY <1>1
  <2> QED BY <2>1, FS_Subset
<1>6. Cardinality(U) = Cardinality(T) - Cardinality(W) BY <1>4, <1>5, FS_Difference
<1> QED BY <1>1, <1>2, <1>6

(***************************************************************************)
(* The heap.                                                               *)
(***************************************************************************)
LEMMA PlusIs ==
  ASSUME NEW e \in [Handled -> Nat], NEW o
  PROVE  /\ Plus(e, o) \in [Handled -> Nat]
         /\ \A p \in Handled : Plus(e, o)[p] = e[p] + Bit(p = o)
         /\ o \notin Handled => Plus(e, o) = e
<1>1. \A p \in Handled : e[p] + Bit(p = o) \in Nat BY DEF Bit
<1>2. o \notin Handled => \A p \in Handled : e[p] + Bit(p = o) = e[p] BY DEF Bit
<1> QED BY <1>1, <1>2 DEF Plus

(* The same when one is taken away.                                         *)
LEMMA MinusIs ==
  ASSUME NEW e \in [Handled -> Nat], NEW o, o \in Handled => e[o] > 0
  PROVE  /\ Minus(e, o) \in [Handled -> Nat]
         /\ \A p \in Handled : Minus(e, o)[p] = e[p] - Bit(p = o)
         /\ o \notin Handled => Minus(e, o) = e
<1>1. \A p \in Handled : e[p] - Bit(p = o) \in Nat BY DEF Bit
<1>2. o \notin Handled => \A p \in Handled : e[p] - Bit(p = o) = e[p] BY DEF Bit
<1> QED BY <1>1, <1>2 DEF Minus

(* What was added is taken away.                                            *)
LEMMA MinusPlus ==
  ASSUME NEW e \in [Handled -> Nat], NEW o
  PROVE  Minus(Plus(e, o), o) = e
<1>1. \A p \in Handled : Plus(e, o)[p] - Bit(p = o) = e[p] BY PlusIs DEF Bit
<1> QED BY <1>1 DEF Minus

(* The fields of a heap that is given by them.                              *)
LEMMA HeapFields ==
  ASSUME NEW l, NEW r, NEW f, NEW d, NEW h, h = Heap(l, r, f, d)
  PROVE  h.life = l /\ h.rc = r /\ h.flag = f /\ h.data = d
BY DEF Heap

Addrefed(h, o, k) ==
  /\ k = Heap(k.life, k.rc, k.flag, k.data)
  /\ k.life = h.life /\ k.data = h.data
  /\ ReplacedAt(h.rc, o, h.rc[o] + 1, k.rc) /\ ReplacedAt(h.flag, o, FALSE, k.flag)

(* The fields of what addref leaves.                                        *)
LEMMA AddrefIs ==
  ASSUME NEW h, h = Heap(h.life, h.rc, h.flag, h.data), NEW o
  PROVE  Addrefed(h, o, addref(h, o))
<1>1. PICK l, r, f, d : l = h.life /\ r = h.rc /\ f = h.flag /\ d = h.data OBVIOUS
<1>2. PICK k : k = addref(h, o) OBVIOUS
<1>3. k = addref(Heap(l, r, f, d), o) BY <1>1, <1>2
<1>4. k = Heap(l, [r EXCEPT ![o] = r[o] + 1], [f EXCEPT ![o] = FALSE], d)
  BY <1>3 DEF addref, Heap
<1>5. /\ k.life = l /\ k.rc = [r EXCEPT ![o] = r[o] + 1]
      /\ k.flag = [f EXCEPT ![o] = FALSE] /\ k.data = d
  BY <1>4 DEF Heap
<1> QED BY <1>1, <1>2, <1>4, <1>5 DEF Addrefed, ReplacedAt

Put(h, k, c, n) == k = [h EXCEPT !.data[c] = n]

(* A slot of a heap that is given by its fields is overwritten.             *)
LEMMA PutIs ==
  ASSUME NEW l, NEW r, NEW f, NEW d, NEW h, h = Heap(l, r, f, d), NEW c, NEW n,
         NEW g, ReplacedAt(d, c, n, g), NEW k
  PROVE  Put(h, k, c, n) <=> k = Heap(l, r, f, g)
<1>1. [h EXCEPT !.data[c] = n] = [Heap(l, r, f, d) EXCEPT !.data[c] = n] OBVIOUS
<1>2. [Heap(l, r, f, d) EXCEPT !.data[c] = n] = Heap(l, r, f, g) BY DEF Heap, ReplacedAt
<1> QED BY <1>1, <1>2 DEF Put

Took(h, k, o) ==
  /\ k.life = h.life /\ k.data = h.data
  /\ \A p \in Handled : k.flag[p] <=> h.flag[p] /\ p # o

(* A reference is added.                                                    *)
LEMMA TakeGood ==
  ASSUME NEW h, NEW e, HeapOK(h, e), NEW o \in Handled \cup {Null},
         o # Null => h.life[o] = "live", NEW k, k = AddRefScriptObject(h, o)
  PROVE  HeapOK(k, Plus(e, o)) /\ Took(h, k, o)
<1>1. HeapType(h) /\ e \in [Handled -> Nat] /\ Balanced(h, e) /\ LiveOnly(h, e) BY DEF HeapOK
<1>2. CASE o = Null
  <2>1. k = h BY <1>2 DEF AddRefScriptObject
  <2>2. Plus(e, o) = e BY <1>1, <1>2, PlusIs, NullIsNoObject
  <2>3. Took(h, h, o) BY <1>1, <1>2, NullIsNoObject DEF Took
  <2> QED BY <2>1, <2>2, <2>3
<1>3. CASE o # Null
  <2>1. o \in Handled BY <1>3
  <2>2. PICK l, r, f, d, s, g : /\ l = h.life /\ r = h.rc /\ f = h.flag /\ d = h.data
                                /\ s = k.rc /\ g = k.flag
    OBVIOUS
  <2>3. h = Heap(l, r, f, d) /\ r \in [Handled -> Int] /\ f \in [Handled -> BOOLEAN]
    BY <1>1, <2>2 DEF HeapType
  <2>4. Addrefed(h, o, k)
    <3>1. k = addref(h, o) BY <1>3 DEF AddRefScriptObject
    <3> QED BY <3>1, <1>1, AddrefIs DEF HeapType
  <2>5. k = Heap(l, s, g, d) BY <2>2, <2>4 DEF Addrefed
  <2>6. k.life = l /\ k.rc = s /\ k.flag = g /\ k.data = d BY <2>5, HeapFields
  <2>7. s \in [Handled -> Int] /\ \A p \in Handled : s[p] = r[p] + Bit(p = o)
    BY <2>1, <2>2, <2>3, <2>4 DEF Bit, ReplacedAt, Addrefed
  <2>8. g \in [Handled -> BOOLEAN] /\ \A p \in Handled : g[p] <=> f[p] /\ p # o
    BY <2>1, <2>2, <2>3, <2>4 DEF ReplacedAt, Addrefed
  <2>9. HeapType(k) BY <1>1, <2>2, <2>5, <2>6, <2>7, <2>8 DEF HeapType
  <2>10. /\ Plus(e, o) \in [Handled -> Nat]
         /\ \A p \in Handled : Plus(e, o)[p] = e[p] + Bit(p = o)
    BY <1>1, PlusIs
  <2>11. Balanced(k, Plus(e, o))
    <3> SUFFICES ASSUME NEW p \in Handled
                 PROVE  k.rc[p] = Plus(e, o)[p] + Count(Handled, k.data, p)
      BY DEF Balanced
    <3>1. r[p] = e[p] + Count(Handled, d, p) BY <1>1, <2>2 DEF Balanced
    <3>2. Count(Handled, d, p) \in Nat /\ e[p] \in Nat BY <1>1, Finite, CountIsNat
    <3>3. Bit(p = o) \in Nat BY DEF Bit
    <3> QED BY <3>1, <3>2, <3>3, <2>6, <2>7, <2>10
  <2>12. LiveOnly(k, Plus(e, o))
    <3>1. \A p \in Handled : Plus(e, o)[p] > 0 => e[p] > 0 \/ p = o
      BY <2>10, <1>1 DEF Bit
    <3> QED BY <3>1, <1>1, <1>3, <2>2, <2>6 DEF LiveOnly
  <2>13. Took(h, k, o) BY <2>2, <2>6, <2>8 DEF Took
  <2> QED BY <2>9, <2>10, <2>11, <2>12, <2>13 DEF HeapOK
<1> QED BY <1>2, <1>3

(* Doomed is settled, and no settled set is smaller.                        *)
LEMMA DoomedIsLeast ==
  ASSUME NEW h, NEW o \in Handled, h.data \in [Handled -> Handled \cup {Null}]
  PROVE  /\ Doomed(h, o) \in SUBSET Handled
         /\ Settled(h, o, Doomed(h, o))
         /\ \A D \in SUBSET Handled : Settled(h, o, D) => Doomed(h, o) \subseteq D
<1>1. PICK E : E = Doomed(h, o) OBVIOUS
<1>2. \A p : p \in E <=> /\ p \in Handled
                         /\ \A D \in SUBSET Handled : Settled(h, o, D) => p \in D
  BY <1>1 DEF Doomed
<1>3. E \in SUBSET Handled BY <1>2
<1>4. h.rc[o] = 1 => o \in E
  <2>1. h.rc[o] = 1 => \A D \in SUBSET Handled : Settled(h, o, D) => o \in D BY DEF Settled
  <2> QED BY <2>1, <1>2
<1>5. ASSUME NEW q \in E, h.data[q] # Null, h.rc[h.data[q]] = 1
      PROVE  h.data[q] \in E
  <2>1. h.data[q] \in Handled BY <1>3, <1>5
  <2>2. ASSUME NEW D \in SUBSET Handled, Settled(h, o, D) PROVE h.data[q] \in D
    <3>1. q \in D BY <1>2, <2>2
    <3> QED BY <3>1, <2>2, <1>5 DEF Settled
  <2> QED BY <2>1, <2>2, <1>2
<1>6. Settled(h, o, E) BY <1>4, <1>5 DEF Settled
<1>7. \A D \in SUBSET Handled : Settled(h, o, D) => E \subseteq D BY <1>2
<1> QED BY <1>1, <1>3, <1>6, <1>7

(* What goes had one reference left: the one that is released, or that of   *)
(* an object that goes, too.                                                *)
LEMMA DoomedHaveNoOthers ==
  ASSUME NEW h, NEW e, HeapOK(h, e), NEW o \in Handled, e[o] > 0, NEW p \in Doomed(h, o)
  PROVE  /\ p \in Handled /\ h.life[p] = "live"
         /\ e[p] = Bit(p = o)
         /\ \A q \in Handled : h.data[q] = p => q \in Doomed(h, o)
<1>1. /\ HeapType(h) /\ e \in [Handled -> Nat] /\ Balanced(h, e) /\ LiveOnly(h, e)
      /\ h.data \in [Handled -> Handled \cup {Null}]
  BY DEF HeapOK, HeapType
<1>2. PICK E : E = Doomed(h, o) OBVIOUS
<1>3. /\ E \in SUBSET Handled /\ Settled(h, o, E) /\ p \in E
      /\ \A D \in SUBSET Handled : Settled(h, o, D) => E \subseteq D
  BY <1>1, <1>2, DoomedIsLeast
<1>4. PICK D : D = {q \in E : h.rc[q] = 1 /\ (q = o \/ \E x \in E : h.data[x] = q)} OBVIOUS
<1>5. D \in SUBSET Handled BY <1>3, <1>4
<1>6. Settled(h, o, D)
  <2>1. h.rc[o] = 1 => o \in D BY <1>3, <1>4 DEF Settled
  <2>2. ASSUME NEW q \in D, h.data[q] # Null, h.rc[h.data[q]] = 1 PROVE h.data[q] \in D
    <3>1. q \in E BY <1>4
    <3>2. h.data[q] \in E BY <3>1, <1>3, <2>2 DEF Settled
    <3> QED BY <3>1, <3>2, <2>2, <1>4
  <2> QED BY <2>1, <2>2 DEF Settled
<1>7. p \in D BY <1>3, <1>5, <1>6
<1>8. h.rc[p] = 1 /\ (p = o \/ \E x \in E : h.data[x] = p) /\ p \in Handled
  BY <1>4, <1>5, <1>7
<1>9. PICK n : n = Count(Handled, h.data, p) OBVIOUS
<1>10. /\ n \in Nat /\ (n = 0 <=> \A x \in Handled : h.data[x] # p)
       /\ e[p] \in Nat /\ 1 = e[p] + n
  <2>1. n \in Nat /\ (n = 0 <=> \A x \in Handled : h.data[x] # p)
    BY <1>9, Finite, CountIsNat
  <2>2. h.rc[p] = e[p] + n BY <1>1, <1>8, <1>9 DEF Balanced
  <2> QED BY <2>1, <2>2, <1>1, <1>8
<1>11. CASE p = o
  <2>1. e[p] = 1 /\ n = 0 BY <1>10, <1>11
  <2>2. h.life[p] = "live" BY <2>1, <1>1, <1>8 DEF LiveOnly
  <2> QED BY <2>1, <2>2, <1>8, <1>10, <1>11 DEF Bit
<1>12. CASE p # o
  <2>1. PICK x \in E : h.data[x] = p BY <1>8, <1>12
  <2>2. x \in Handled /\ p # Null BY <2>1, <1>3, <1>8, NullIsNoObject
  <2>3. n # 0 BY <2>1, <2>2, <1>10
  <2>4. n = 1 /\ e[p] = 0 BY <2>3, <1>10
  <2>5. h.life[p] = "live" BY <2>1, <2>2, <1>1 DEF LiveOnly
  <2>6. ASSUME NEW q \in Handled, h.data[q] = p PROVE q \in E
    <3>1. q = x BY <2>1, <2>2, <2>4, <2>6, <1>9, Finite, CountedOnce
    <3> QED BY <3>1, <2>1
  <2> QED BY <2>4, <2>5, <2>6, <1>2, <1>8, <1>12 DEF Bit
<1> QED BY <1>11, <1>12

Dropped(h, k, f) ==
  /\ Less(h, k) /\ k.flag = h.flag
  /\ \A p \in Handled : f[p] > 0 => k.data[p] = h.data[p] /\ k.life[p] = h.life[p]

(* The fields of what release leaves.                                       *)
LEMMA ReleaseIs ==
  ASSUME NEW h, NEW o, NEW D, D = Doomed(h, o), NEW k, k = release(h, o)
  PROVE  /\ k = Heap(k.life, k.rc, k.flag, k.data)
         /\ k.life = [p \in Objects |-> IF p \in D THEN Dying(h.life[p]) ELSE h.life[p]]
         /\ k.rc = [p \in Handled |-> h.rc[p] - Cardinality({q \in D : h.data[q] = p})
                                              - (IF p = o THEN 1 ELSE 0)]
         /\ k.flag = h.flag
         /\ k.data = [p \in Handled |-> IF p \in D THEN Null ELSE h.data[p]]
BY DEF release, Heap

(* One reference from outside is released, and what goes with it goes.      *)
LEMMA ReleaseGood ==
  ASSUME NEW h, NEW e, HeapOK(h, e), NEW o \in Handled, e[o] > 0,
         NEW k, k = release(h, o)
  PROVE  HeapOK(k, Minus(e, o)) /\ Dropped(h, k, Minus(e, o))
<1>1. /\ HeapType(h) /\ e \in [Handled -> Nat] /\ Balanced(h, e) /\ LiveOnly(h, e)
      /\ h.data \in [Handled -> Handled \cup {Null}] /\ h.life \in [Objects -> Lives]
      /\ h.rc \in [Handled -> Int] /\ h.flag \in [Handled -> BOOLEAN]
      /\ \A c \in Handled : Fits(c, h.data[c])
  BY DEF HeapOK, HeapType
<1>2. PICK D, m : D = Doomed(h, o) /\ m = Minus(e, o) OBVIOUS
<1>3. D \in SUBSET Handled BY <1>1, <1>2, DoomedIsLeast
<1>4. \A p \in D : /\ p \in Handled /\ h.life[p] = "live" /\ e[p] = Bit(p = o)
                   /\ \A q \in Handled : h.data[q] = p => q \in D
  BY <1>2, DoomedHaveNoOthers
<1>5. m \in [Handled -> Nat] /\ \A p \in Handled : m[p] = e[p] - Bit(p = o)
  BY <1>1, <1>2, MinusIs
<1>6. \A p \in D : m[p] = 0
  BY <1>4, <1>5 DEF Bit
<1>7. /\ k = Heap(k.life, k.rc, k.flag, k.data)
      /\ k.life = [p \in Objects |-> IF p \in D THEN Dying(h.life[p]) ELSE h.life[p]]
      /\ k.rc = [p \in Handled |-> h.rc[p] - Cardinality({q \in D : h.data[q] = p})
                                           - (IF p = o THEN 1 ELSE 0)]
      /\ k.flag = h.flag
      /\ k.data = [p \in Handled |-> IF p \in D THEN Null ELSE h.data[p]]
  BY <1>2, ReleaseIs
<1>8. \A p \in Objects : k.life[p] = IF p \in D THEN "dead" ELSE h.life[p]
  BY <1>4, <1>7 DEF Dying
<1>9. \A p \in Handled : k.data[p] = IF p \in D THEN Null ELSE h.data[p] BY <1>7
<1>10. ASSUME NEW p \in Handled
       PROVE  /\ k.rc[p] \in Int
              /\ k.rc[p] = m[p] + Count(Handled, k.data, p)
  <2>1. PICK n, i, j : /\ n = Cardinality({q \in D : h.data[q] = p})
                       /\ i = Count(Handled, h.data, p) /\ j = Count(Handled, k.data, p)
    OBVIOUS
  <2>2. p # Null BY NullIsNoObject
  <2>3. ClearedOn(h.data, D, k.data) /\ DOMAIN h.data = Handled BY <1>1, <1>7 DEF ClearedOn
  <2>4. j = i - n BY <2>1, <2>2, <2>3, <1>3, Finite, CountCleared
  <2>5. i \in Nat /\ j \in Nat BY <2>1, Finite, CountIsNat
  <2>6. n \in Nat
    <3>1. {q \in D : h.data[q] = p} \in SUBSET Handled BY <1>3
    <3>2. IsFiniteSet({q \in D : h.data[q] = p}) BY <3>1, Finite, FS_Subset
    <3> QED BY <3>2, <2>1, FS_CardinalityType
  <2>7. h.rc[p] = e[p] + i BY <2>1, <1>1 DEF Balanced
  <2>8. k.rc[p] = h.rc[p] - n - Bit(p = o) BY <2>1, <1>7 DEF Bit
  <2>9. m[p] = e[p] - Bit(p = o) /\ e[p] \in Nat /\ Bit(p = o) \in Nat
    BY <1>1, <1>5 DEF Bit
  <2> QED BY <2>1, <2>4, <2>5, <2>6, <2>7, <2>8, <2>9
<1>11. HeapType(k)
  <2>1. k.life \in [Objects -> Lives] BY <1>1, <1>7, <1>8 DEF Lives
  <2>2. k.rc \in [Handled -> Int] BY <1>7, <1>10
  <2>3. k.data \in [Handled -> Handled \cup {Null}] BY <1>1, <1>7
  <2>4. \A c \in Handled : Fits(c, k.data[c]) BY <1>1, <1>9 DEF Fits
  <2> QED BY <2>1, <2>2, <2>3, <2>4, <1>1, <1>7 DEF HeapType
<1>12. Balanced(k, m) BY <1>10 DEF Balanced
<1>13. LiveOnly(k, m)
  <2>1. ASSUME NEW p \in Handled, m[p] > 0 PROVE k.life[p] = "live"
    <3>1. p \notin D BY <2>1, <1>6
    <3>2. e[p] > 0 BY <2>1, <1>1, <1>5 DEF Bit
    <3>3. h.life[p] = "live" BY <3>2, <1>1 DEF LiveOnly
    <3> QED BY <3>1, <3>3, <1>8, NullIsNoObject
  <2>2. ASSUME NEW p \in Handled, k.data[p] # Null
        PROVE  k.life[p] = "live" /\ k.life[k.data[p]] = "live"
    <3>1. p \notin D /\ k.data[p] = h.data[p] BY <2>2, <1>9
    <3>2. PICK q : q = h.data[p] OBVIOUS
    <3>3. q \in Handled /\ q # Null BY <3>1, <3>2, <2>2, <1>1
    <3>4. q \notin D BY <3>1, <3>2, <1>4
    <3>5. h.life[p] = "live" /\ h.life[q] = "live" BY <3>2, <3>3, <1>1 DEF LiveOnly
    <3> QED BY <3>1, <3>2, <3>3, <3>4, <3>5, <1>8, NullIsNoObject
  <2> QED BY <2>1, <2>2 DEF LiveOnly
<1>14. Dropped(h, k, m)
  <2>1. Less(h, k) BY <1>3, <1>4, <1>7, <1>8, <1>9 DEF Less
  <2>2. \A p \in Handled : m[p] > 0 => p \notin D BY <1>6
  <2> QED BY <2>1, <2>2, <1>7, <1>8, <1>9, NullIsNoObject DEF Dropped
<1> QED BY <1>2, <1>5, <1>11, <1>12, <1>13, <1>14 DEF HeapOK

(* The same of a handle that may be null.                                   *)
LEMMA DropGood ==
  ASSUME NEW h, NEW e, HeapOK(h, e), NEW o \in Handled \cup {Null}, o # Null => e[o] > 0,
         NEW k, k = ReleaseScriptObject(h, o)
  PROVE  HeapOK(k, Minus(e, o)) /\ Dropped(h, k, Minus(e, o))
<1>1. CASE o = Null
  <2>1. k = h BY <1>1 DEF ReleaseScriptObject
  <2>2. Minus(e, o) = e BY <1>1, MinusIs, NullIsNoObject DEF HeapOK
  <2>3. Dropped(h, h, e) BY DEF Dropped, Less
  <2> QED BY <2>1, <2>2, <2>3
<1>2. CASE o # Null
  <2>1. o \in Handled /\ k = release(h, o) BY <1>2 DEF ReleaseScriptObject
  <2> QED BY <2>1, <1>2, ReleaseGood
<1> QED BY <1>1, <1>2

(* What changes when a slot is overwritten, and what the counters then      *)
(* stand for: only the slots that hold old or n are told apart.             *)
LEMMA PutGood ==
  ASSUME NEW h, NEW e, HeapOK(h, e), NEW c \in Handled, NEW n \in Handled \cup {Null},
         Fits(c, n), NEW k, Put(h, k, c, n),
         NEW m \in [Handled -> Nat],
         \A p \in Handled : m[p] = e[p] + Bit(p = h.data[c]) - Bit(p = n),
         n # Null => h.life[c] = "live" /\ h.life[n] = "live"
  PROVE  /\ HeapOK(k, m)
         /\ k.life = h.life /\ k.flag = h.flag /\ k.data = [h.data EXCEPT ![c] = n]
<1>1. /\ HeapType(h) /\ e \in [Handled -> Nat] /\ Balanced(h, e) /\ LiveOnly(h, e)
      /\ h.data \in [Handled -> Handled \cup {Null}]
  BY DEF HeapOK, HeapType
<1>2. PICK l, r, f, d, g : /\ l = h.life /\ r = h.rc /\ f = h.flag /\ d = h.data
                           /\ ReplacedAt(d, c, n, g)
  BY DEF ReplacedAt
<1>3. h = Heap(l, r, f, d) BY <1>1, <1>2 DEF HeapType
<1>4. k = Heap(l, r, f, g) BY <1>2, <1>3, PutIs
<1>5. k.life = l /\ k.rc = r /\ k.flag = f /\ k.data = g BY <1>4, HeapFields
<1>6. g \in [Handled -> Handled \cup {Null}] /\ \A p \in Handled : g[p] = IF p = c THEN n ELSE d[p]
  BY <1>1, <1>2 DEF ReplacedAt
<1>7. HeapType(k)
  <2>1. \A p \in Handled : Fits(p, g[p]) BY <1>1, <1>2, <1>6 DEF HeapType
  <2> QED BY <2>1, <1>1, <1>2, <1>4, <1>5, <1>6 DEF HeapType
<1>8. Balanced(k, m)
  <2> SUFFICES ASSUME NEW p \in Handled PROVE r[p] = m[p] + Count(Handled, g, p)
    BY <1>5 DEF Balanced
  <2>1. PICK i, j : i = Count(Handled, d, p) /\ j = Count(Handled, g, p) OBVIOUS
  <2>2. ReplacedAt(d, c, n, g) /\ DOMAIN d = Handled BY <1>1, <1>2
  <2>3. j = i - Bit(d[c] = p) + Bit(n = p)
    <3>1. Count(Handled, g, p) = Count(Handled, d, p) - Bit(d[c] = p) + Bit(n = p)
      BY <2>2, Finite, CountReplaced
    <3> QED BY <3>1, <2>1
  <2>4. i \in Nat /\ j \in Nat BY <2>1, Finite, CountIsNat
  <2>5. r[p] = e[p] + i BY <2>1, <1>1, <1>2 DEF Balanced
  <2>6. /\ Bit(d[c] = p) = Bit(p = d[c]) /\ Bit(n = p) = Bit(p = n)
        /\ Bit(p = d[c]) \in Nat /\ Bit(p = n) \in Nat /\ e[p] \in Nat
    BY <1>1 DEF Bit
  <2>7. m[p] = e[p] + Bit(p = d[c]) - Bit(p = n) BY <1>2
  <2> QED BY <2>1, <2>3, <2>4, <2>5, <2>6, <2>7
<1>9. LiveOnly(k, m)
  <2>1. ASSUME NEW p \in Handled, m[p] > 0 PROVE l[p] = "live"
    <3>1. e[p] > 0 \/ p = d[c] BY <2>1, <1>1, <1>2 DEF Bit
    <3>2. p # Null BY NullIsNoObject
    <3> QED BY <3>1, <3>2, <1>1, <1>2 DEF LiveOnly
  <2>2. ASSUME NEW p \in Handled, g[p] # Null PROVE l[p] = "live" /\ l[g[p]] = "live"
    <3>1. CASE p = c BY <3>1, <2>2, <1>2, <1>6
    <3>2. CASE p # c BY <3>2, <2>2, <1>1, <1>2, <1>6 DEF LiveOnly
    <3> QED BY <3>1, <3>2
  <2> QED BY <2>1, <2>2, <1>5 DEF LiveOnly
<1> QED BY <1>2, <1>5, <1>7, <1>8, <1>9 DEF HeapOK, ReplacedAt

(* What overwrites the slot of an object that stays may as well come before *)
(* the release of what the slot held.                                       *)
LEMMA ReleaseAfterClear ==
  ASSUME NEW h, NEW e, HeapOK(h, e), NEW c \in Handled, e[c] > 0, h.data[c] # Null,
         NEW h2, Put(h, h2, c, Null), NEW n,
         NEW k, Put(release(h, h.data[c]), k, c, n)
  PROVE  Put(release(h2, h.data[c]), k, c, n)
<1>1. /\ HeapType(h) /\ e \in [Handled -> Nat]
      /\ h.data \in [Handled -> Handled \cup {Null}]
  BY DEF HeapOK, HeapType
<1>2. PICK l, r, f, d, d2, o : /\ l = h.life /\ r = h.rc /\ f = h.flag /\ d = h.data
                               /\ ReplacedAt(d, c, Null, d2) /\ o = d[c]
  BY DEF ReplacedAt
<1>3. h = Heap(l, r, f, d) BY <1>1, <1>2 DEF HeapType
<1>4. h2 = Heap(l, r, f, d2) BY <1>2, <1>3, PutIs
<1>5. h2.life = l /\ h2.rc = r /\ h2.flag = f /\ h2.data = d2 BY <1>4, HeapFields
<1>6. /\ d2 \in [Handled -> Handled \cup {Null}]
      /\ \A p \in Handled : d2[p] = IF p = c THEN Null ELSE d[p]
  BY <1>1, <1>2 DEF ReplacedAt
<1>7. o \in Handled /\ o # Null /\ o # c
  <2>1. o \in Handled /\ o # Null BY <1>1, <1>2
  <2>2. Fits(c, o) BY <1>1, <1>2 DEF HeapType
  <2> QED BY <2>1, <2>2, CollectionAssumption DEF Fits, Handled
<1>8. HeapOK(h2, Plus(e, o))
  <2>1. /\ Plus(e, o) \in [Handled -> Nat]
        /\ \A p \in Handled : Plus(e, o)[p] = e[p] + Bit(p = o)
    BY <1>1, PlusIs
  <2>2. \A p \in Handled : Plus(e, o)[p] = e[p] + Bit(p = h.data[c]) - Bit(p = Null)
    BY <2>1, <1>1, <1>2, NullIsNoObject DEF Bit
  <2>3. Fits(c, Null) BY DEF Fits
  <2>4. /\ HeapOK(h2, Plus(e, o))
        /\ h2.life = h.life /\ h2.flag = h.flag /\ h2.data = [h.data EXCEPT ![c] = Null]
    BY <2>1, <2>2, <2>3, PutGood
  <2> QED BY <2>4
<1>9. Plus(e, o)[c] = e[c] /\ Plus(e, o)[o] > 0
  BY <1>1, <1>7, PlusIs DEF Bit
<1>10. PICK D, E : D = Doomed(h, o) /\ E = Doomed(h2, o) OBVIOUS
<1>11. /\ D \in SUBSET Handled /\ Settled(h, o, D)
       /\ \A S \in SUBSET Handled : Settled(h, o, S) => D \subseteq S
  BY <1>1, <1>7, <1>10, DoomedIsLeast
<1>12. /\ E \in SUBSET Handled /\ Settled(h2, o, E)
       /\ \A S \in SUBSET Handled : Settled(h2, o, S) => E \subseteq S
  BY <1>5, <1>6, <1>7, <1>10, DoomedIsLeast
<1>13. c \notin E
  <2>1. c \in E => Plus(e, o)[c] = Bit(c = o)
    BY <1>7, <1>8, <1>9, <1>10, DoomedHaveNoOthers
  <2> QED BY <2>1, <1>7, <1>9 DEF Bit
<1>14. Settled(h, o, E)
  BY <1>2, <1>5, <1>6, <1>12, <1>13 DEF Settled
<1>15. Settled(h2, o, D)
  BY <1>2, <1>5, <1>6, <1>11 DEF Settled
<1>16. D = E BY <1>11, <1>12, <1>14, <1>15
<1>17. PICK k1, k2 : k1 = release(h, o) /\ k2 = release(h2, o) OBVIOUS
<1>18. /\ k1 = Heap(k1.life, k1.rc, k1.flag, k1.data)
       /\ k1.life = [p \in Objects |-> IF p \in D THEN Dying(l[p]) ELSE l[p]]
       /\ k1.rc = [p \in Handled |-> r[p] - Cardinality({q \in D : d[q] = p})
                                          - (IF p = o THEN 1 ELSE 0)]
       /\ k1.flag = f
       /\ k1.data = [p \in Handled |-> IF p \in D THEN Null ELSE d[p]]
  BY <1>2, <1>10, <1>17, ReleaseIs
<1>19. /\ k2 = Heap(k2.life, k2.rc, k2.flag, k2.data)
       /\ k2.life = [p \in Objects |-> IF p \in D THEN Dying(l[p]) ELSE l[p]]
       /\ k2.rc = [p \in Handled |-> r[p] - Cardinality({q \in D : d2[q] = p})
                                          - (IF p = o THEN 1 ELSE 0)]
       /\ k2.flag = f
       /\ k2.data = [p \in Handled |-> IF p \in D THEN Null ELSE d2[p]]
  <2>1. E = Doomed(h2, o) /\ k2 = release(h2, o) BY <1>10, <1>17
  <2> QED BY <2>1, <1>5, <1>16, ReleaseIs
<1>20. \A p : {q \in D : d[q] = p} = {q \in D : d2[q] = p}
  BY <1>6, <1>11, <1>13, <1>16
<1>21. k1.rc = k2.rc
  <2>1. \A p \in Handled : Cardinality({q \in D : d[q] = p}) = Cardinality({q \in D : d2[q] = p})
    BY <1>20
  <2> QED BY <2>1, <1>18, <1>19
<1>22. PICK g : ReplacedAt(k1.data, c, n, g) BY DEF ReplacedAt
<1>23. ReplacedAt(k2.data, c, n, g)
  <2>1. [k1.data EXCEPT ![c] = n] = [k2.data EXCEPT ![c] = n]
    <3>1. PICK a, b : a = k1.data /\ b = k2.data OBVIOUS
    <3>2. /\ a = [p \in Handled |-> IF p \in D THEN Null ELSE d[p]]
          /\ b = [p \in Handled |-> IF p \in D THEN Null ELSE d2[p]]
      BY <3>1, <1>18, <1>19
    <3>3. /\ [a EXCEPT ![c] = n] = [p \in Handled |-> IF p = c THEN n ELSE a[p]]
          /\ [b EXCEPT ![c] = n] = [p \in Handled |-> IF p = c THEN n ELSE b[p]]
      BY <3>2
    <3>4. \A p \in Handled : p # c => a[p] = b[p] BY <3>2, <1>6
    <3> QED BY <3>1, <3>3, <3>4
  <2> QED BY <2>1, <1>22 DEF ReplacedAt
<1>24. k = Heap(k1.life, k1.rc, k1.flag, g)
  <2>1. Put(k1, k, c, n) BY <1>2, <1>17
  <2> QED BY <2>1, <1>18, <1>22, PutIs
<1>25. k = Heap(k2.life, k2.rc, k2.flag, g) BY <1>18, <1>19, <1>21, <1>24
<1>26. Put(k2, k, c, n) BY <1>19, <1>23, <1>25, PutIs
<1> QED BY <1>2, <1>17, <1>26

(* A handle is counted first or stored first: the heap is the same.         *)
LEMMA TakeCommutes ==
  ASSUME NEW h, HeapType(h), NEW c, NEW n, NEW o, NEW k, Put(h, k, c, n)
  PROVE  Put(AddRefScriptObject(h, o), AddRefScriptObject(k, o), c, n)
<1>1. PICK l, r, f, d, g : /\ l = h.life /\ r = h.rc /\ f = h.flag /\ d = h.data
                           /\ ReplacedAt(d, c, n, g)
  BY DEF ReplacedAt
<1>2. h = Heap(l, r, f, d) BY <1>1 DEF HeapType
<1>3. k = Heap(l, r, f, g) BY <1>1, <1>2, PutIs
<1>4. CASE o = Null BY <1>4 DEF AddRefScriptObject
<1>5. CASE o # Null
  <2>1. PICK h2, k2 : h2 = addref(h, o) /\ k2 = addref(k, o) OBVIOUS
  <2>2. Addrefed(h, o, h2) BY <1>1, <1>2, <2>1, AddrefIs
  <2>a. k.life = l /\ k.rc = r /\ k.flag = f /\ k.data = g BY <1>3, HeapFields
  <2>b. Addrefed(k, o, k2) BY <1>3, <2>1, <2>a, AddrefIs
  <2>3. PICK m, s, t : m = h2.life /\ s = h2.rc /\ t = h2.flag OBVIOUS
  <2>c. h2 = Heap(m, s, t, d) /\ k2 = Heap(m, s, t, g)
    BY <1>1, <2>2, <2>3, <2>a, <2>b DEF Addrefed, ReplacedAt
  <2>4. Put(h2, k2, c, n) BY <1>1, <2>c, PutIs
  <2> QED BY <2>1, <2>4, <1>5 DEF AddRefScriptObject
<1> QED BY <1>4, <1>5

(* The handle of an object that stays is released, and then overwritten.    *)
Freed(h, e, k, c, n) ==
  \E m : HeapOK(m, e) /\ Less(h, m) /\ m.flag = h.flag /\ m.data[c] = Null /\ Put(m, k, c, n)

(* release of the handle and what overwrites it are no more than that:      *)
(* whatever the destructors do, the slot is empty before it is overwritten. *)
LEMMA ReleaseSlot ==
  ASSUME NEW h, NEW e, HeapOK(h, e), NEW c \in Handled, e[c] > 0, h.data[c] # Null,
         NEW n, NEW k, Put(release(h, h.data[c]), k, c, n)
  PROVE  Freed(h, e, k, c, n)
<1>1. HeapType(h) /\ e \in [Handled -> Nat] /\ h.data \in [Handled -> Handled \cup {Null}]
  BY DEF HeapOK, HeapType
<1>2. PICK o, h2, m : o = h.data[c] /\ h2 = [h EXCEPT !.data[c] = Null] /\ m = release(h2, o)
  OBVIOUS
<1>3. o \in Handled /\ o # Null BY <1>1, <1>2
<1>4. Put(h, h2, c, Null) BY <1>2 DEF Put
<1>5. Put(m, k, c, n) BY <1>2, <1>4, ReleaseAfterClear
<1>6. /\ Plus(e, o) \in [Handled -> Nat]
      /\ \A p \in Handled : Plus(e, o)[p] = e[p] + Bit(p = o)
  BY <1>1, PlusIs
<1>7. /\ HeapOK(h2, Plus(e, o))
      /\ h2.life = h.life /\ h2.flag = h.flag /\ h2.data = [h.data EXCEPT ![c] = Null]
  <2>1. \A p \in Handled : Plus(e, o)[p] = e[p] + Bit(p = h.data[c]) - Bit(p = Null)
    BY <1>1, <1>2, <1>6, NullIsNoObject DEF Bit
  <2>2. Fits(c, Null) BY DEF Fits
  <2> QED BY <2>1, <2>2, <1>4, <1>6, PutGood
<1>8. Plus(e, o)[o] > 0 BY <1>1, <1>3, <1>6 DEF Bit
<1>9. HeapOK(m, e) /\ Dropped(h2, m, e)
  <2>1. HeapOK(m, Minus(Plus(e, o), o)) /\ Dropped(h2, m, Minus(Plus(e, o), o))
    BY <1>2, <1>3, <1>7, <1>8, ReleaseGood
  <2> QED BY <2>1, <1>1, MinusPlus
<1>10. \A p \in Handled : h2.data[p] = IF p = c THEN Null ELSE h.data[p] BY <1>1, <1>7
<1>11. m.data[c] = Null BY <1>9, <1>10 DEF Dropped, Less
<1>12. Less(h, m) /\ m.flag = h.flag BY <1>7, <1>9, <1>10 DEF Dropped, Less
<1> QED BY <1>5, <1>9, <1>11, <1>12 DEF Freed

(* From h to k the slot of c gets n, which loses its flag.                  *)
Stored(h, k, c, n) ==
  /\ \A p \in Handled : k.flag[p] => h.flag[p] /\ p # n
  /\ \A p \in Handled : k.data[p] \in IF p = c THEN {n} ELSE {h.data[p], Null}
  /\ \A p \in Objects : \/ k.life[p] = h.life[p]
                        \/ p \in Handled /\ h.life[p] = "live" /\ k.life[p] = "dead"

(* A handle is counted and stored in a slot that is empty.                  *)
LEMMA AttachGood ==
  ASSUME NEW h, NEW e, HeapOK(h, e), NEW c \in Handled, e[c] > 0, h.data[c] = Null,
         NEW n \in Handled \cup {Null}, Fits(c, n), n # Null => e[n] > 0,
         NEW k, Put(AddRefScriptObject(h, n), k, c, n)
  PROVE  HeapOK(k, e) /\ Stored(h, k, c, n)
<1>1. /\ HeapType(h) /\ e \in [Handled -> Nat] /\ LiveOnly(h, e)
      /\ h.data \in [Handled -> Handled \cup {Null}]
  BY DEF HeapOK, HeapType
<1>2. PICK m : m = AddRefScriptObject(h, n) OBVIOUS
<1>3. h.life[c] = "live" /\ (n # Null => h.life[n] = "live") BY <1>1 DEF LiveOnly
<1>4. HeapOK(m, Plus(e, n)) /\ Took(h, m, n) BY <1>2, <1>3, TakeGood
<1>5. \A p \in Handled : e[p] = Plus(e, n)[p] + Bit(p = m.data[c]) - Bit(p = n)
  <2>1. \A p \in Handled : Plus(e, n)[p] = e[p] + Bit(p = n) BY <1>1, PlusIs
  <2>2. \A p \in Handled : Bit(p = m.data[c]) = 0 BY <1>4, NullIsNoObject DEF Took, Bit
  <2> QED BY <2>1, <2>2, <1>1 DEF Bit
<1>6. n # Null => m.life[c] = "live" /\ m.life[n] = "live" BY <1>3, <1>4 DEF Took
<1>7. Put(m, k, c, n) BY <1>2
<1>8. /\ HeapOK(k, e) /\ k.life = m.life /\ k.flag = m.flag
      /\ k.data = [m.data EXCEPT ![c] = n]
  BY <1>1, <1>4, <1>5, <1>6, <1>7, PutGood
<1>9. \A p \in Handled : k.data[p] = IF p = c THEN n ELSE h.data[p]
  BY <1>1, <1>4, <1>8 DEF Took
<1> QED BY <1>4, <1>8, <1>9 DEF Took, Stored

(* What is stored after a slot was freed.                                   *)
LEMMA StoredAfterLess ==
  ASSUME NEW h, NEW m, NEW k, NEW c, NEW n, Less(h, m), Stored(m, k, c, n)
  PROVE  Stored(h, k, c, n)
BY DEF Less, Stored

(* copy_construct, of a container that is empty.                            *)
LEMMA ConstructGood ==
  ASSUME NEW h, NEW e, HeapOK(h, e), NEW c \in Handled, e[c] > 0, h.data[c] = Null,
         NEW n \in Handled \cup {Null}, Fits(c, n), n # Null => e[n] > 0,
         NEW k, k = copy_construct(h, c, n)
  PROVE  HeapOK(k, e) /\ Stored(h, k, c, n)
<1>1. PICK m : m = [h EXCEPT !.data[c] = n] OBVIOUS
<1>2. Put(h, m, c, n) BY <1>1 DEF Put
<1>3. k = AddRefScriptObject(m, n) BY <1>1 DEF copy_construct
<1>4. Put(AddRefScriptObject(h, n), k, c, n) BY <1>2, <1>3, TakeCommutes DEF HeapOK
<1> QED BY <1>4, AttachGood

(* copy_assign_from releases the old handle before it counts the new one,   *)
(* which a variable still holds.                                            *)
LEMMA AssignFromGood ==
  ASSUME NEW h, NEW e, HeapOK(h, e), NEW c \in Handled, e[c] > 0, h.data[c] # Null,
         NEW n \in Handled \cup {Null}, Fits(c, n), n # Null => e[n] > 0,
         NEW k, k = copy_assign_from(h, c, n)
  PROVE  HeapOK(k, e) /\ Stored(h, k, c, n)
<1>1. PICK g : g = [release(h, h.data[c]) EXCEPT !.data[c] = n] OBVIOUS
<1>2. k = AddRefScriptObject(g, n)
  BY <1>1 DEF copy_assign_from, ReleaseScriptObject
<1>3. Freed(h, e, g, c, n) BY <1>1, ReleaseSlot DEF Put
<1>4. PICK m : HeapOK(m, e) /\ Less(h, m) /\ m.data[c] = Null /\ Put(m, g, c, n)
  BY <1>3 DEF Freed
<1>5. Put(AddRefScriptObject(m, n), k, c, n) BY <1>2, <1>4, TakeCommutes DEF HeapOK
<1>6. HeapOK(k, e) /\ Stored(m, k, c, n) BY <1>4, <1>5, AttachGood
<1> QED BY <1>4, <1>6, StoredAfterLess

(* A member of a script object is assigned: the new handle is counted first.*)
LEMMA MemberGood ==
  ASSUME NEW h, NEW e, HeapOK(h, e), NEW c \in Handled, e[c] > 0,
         NEW n \in Handled \cup {Null}, Fits(c, n), n # Null => e[n] > 0,
         NEW k, Put(ReleaseScriptObject(AddRefScriptObject(h, n), h.data[c]), k, c, n)
  PROVE  HeapOK(k, e) /\ Stored(h, k, c, n)
<1>1. e \in [Handled -> Nat] /\ LiveOnly(h, e) BY DEF HeapOK
<1>2. CASE h.data[c] = Null
  <2>1. Put(AddRefScriptObject(h, n), k, c, n) BY <1>2 DEF ReleaseScriptObject
  <2> QED BY <2>1, <1>2, AttachGood
<1>3. CASE h.data[c] # Null
  <2>1. PICK g : g = AddRefScriptObject(h, n) OBVIOUS
  <2>2. n # Null => h.life[n] = "live" BY <1>1 DEF LiveOnly
  <2>3. HeapOK(g, Plus(e, n)) /\ Took(h, g, n) BY <2>1, <2>2, TakeGood
  <2>4. /\ Plus(e, n) \in [Handled -> Nat]
        /\ \A p \in Handled : Plus(e, n)[p] = e[p] + Bit(p = n)
    BY <1>1, PlusIs
  <2>5. Plus(e, n)[c] > 0 /\ (n # Null => Plus(e, n)[n] > 0) BY <1>1, <2>4 DEF Bit
  <2>6. g.data[c] # Null /\ Put(release(g, g.data[c]), k, c, n)
    BY <1>3, <2>1, <2>3 DEF Took, ReleaseScriptObject
  <2>7. Freed(g, Plus(e, n), k, c, n) BY <2>3, <2>5, <2>6, ReleaseSlot
  <2>8. PICK m : /\ HeapOK(m, Plus(e, n)) /\ Less(g, m) /\ m.flag = g.flag
                 /\ m.data[c] = Null /\ Put(m, k, c, n)
    BY <2>7 DEF Freed
  <2>9. n # Null => m.life[c] = "live" /\ m.life[n] = "live"
    BY <2>5, <2>8 DEF HeapOK, LiveOnly
  <2>10. \A p \in Handled : e[p] = Plus(e, n)[p] + Bit(p = m.data[c]) - Bit(p = n)
    <3>1. \A p \in Handled : Bit(p = m.data[c]) = 0 BY <2>8, NullIsNoObject DEF Bit
    <3> QED BY <3>1, <2>4, <1>1 DEF Bit
  <2>11. /\ HeapOK(k, e) /\ k.life = m.life /\ k.flag = m.flag
         /\ k.data = [m.data EXCEPT ![c] = n]
    BY <1>1, <2>8, <2>9, <2>10, PutGood
  <2>12. \A p \in Handled : k.data[p] = IF p = c THEN n ELSE m.data[p]
    BY <2>8, <2>11 DEF HeapOK, HeapType
  <2>13. Stored(h, k, c, n) BY <2>3, <2>8, <2>11, <2>12 DEF Took, Less, Stored
  <2> QED BY <2>11, <2>13
<1> QED BY <1>2, <1>3

(* destroy releases what a container holds.                                 *)
LEMMA DestroyGood ==
  ASSUME NEW h, NEW e, HeapOK(h, e), NEW c \in Handled, e[c] > 0,
         NEW k, k = destroy(h, c)
  PROVE  HeapOK(k, e) /\ Less(h, k) /\ k.flag = h.flag /\ k.data[c] = Null
<1>1. CASE h.data[c] = Null
  <2>1. k = h BY <1>1 DEF destroy
  <2>2. Less(h, h) BY DEF Less
  <2> QED BY <2>1, <2>2, <1>1
<1>2. CASE h.data[c] # Null
  <2>1. Put(release(h, h.data[c]), k, c, Null) BY <1>2 DEF destroy, Put
  <2>2. Freed(h, e, k, c, Null) BY <2>1, <1>2, ReleaseSlot
  <2>3. PICK m : /\ HeapOK(m, e) /\ Less(h, m) /\ m.flag = h.flag
                 /\ m.data[c] = Null /\ Put(m, k, c, Null)
    BY <2>2 DEF Freed
  <2>4. e \in [Handled -> Nat] /\ m.data \in [Handled -> Handled \cup {Null}]
    BY <2>3 DEF HeapOK, HeapType
  <2>5. \A p \in Handled : e[p] = e[p] + Bit(p = m.data[c]) - Bit(p = Null)
    BY <2>3, <2>4, NullIsNoObject DEF Bit
  <2>6. Fits(c, Null) BY DEF Fits
  <2>7. /\ HeapOK(k, e) /\ k.life = m.life /\ k.flag = m.flag
        /\ k.data = [m.data EXCEPT ![c] = Null]
    BY <2>3, <2>4, <2>5, <2>6, PutGood
  <2>8. \A p \in Handled : k.data[p] = m.data[p] BY <2>3, <2>4, <2>7
  <2> QED BY <2>3, <2>4, <2>7, <2>8 DEF Less
<1> QED BY <1>1, <1>2

(***************************************************************************)
(* The invariant.                                                          *)
(***************************************************************************)
Call(o, g, ti, rest, ex) == [obj |-> o, g |-> g, ti |-> ti, rest |-> rest, ex |-> ex]
Work(phase, todo, suspects, count) ==
  [phase |-> phase, todo |-> todo, suspects |-> suspects, count |-> count]

TypeInv ==
  /\ gcType \in [Containers -> BOOLEAN]
  /\ var \in [Vars -> Handled \cup {Null}]
  /\ owned \subseteq Values /\ known \subseteq Handled
  /\ call = Call(call.obj, call.g, call.ti, call.rest, call.ex)
  /\ gc = Work(gc.phase, gc.todo, gc.suspects, gc.count)
  /\ gc.count \in [Handled -> Int]

(* The function that runs, and how far it has come.                         *)
Creating ==
  /\ call.obj \in Containers \cup Values /\ call.obj \notin owned
  /\ call.g \in Creations
  /\ call.obj \in Values <=> call.g.kind \in ValueKinds
  /\ call.g.notify => call.ti = "typeinfo"
  /\ call.obj \in Containers =>
       /\ ~call.g.notify => ~gcType[call.obj]
       /\ call.g.notify /\ ~call.g.template => gcType[call.obj]

Unmade == call.rest = Steps(call.g) /\ life[call.obj] = "unborn"

MadeValue ==
  /\ call.obj \in Values
  /\ \/ call.rest = <<"destroy_if_ex">> /\ life[call.obj] = "live"
     \/ /\ call.rest = <<>>
        /\ ~call.ex => life[call.obj] = "live"
        /\ call.ex /\ call.g.kind \notin {"list_constructor", "ctor_fn"} =>
             life[call.obj] # "live"

(* Nobody else refers to the object, but the collector at the end.          *)
MadeHandle ==
  /\ call.obj \in Containers /\ life[call.obj] = "live"
  /\ \A x \in Vars : var[x] # call.obj
  /\ \A p \in Handled : data[p] # call.obj
  /\ data[call.obj] = Null
  /\ \/ call.rest = <<>> /\ (call.obj \in known <=> gcType[call.obj])
     \/ /\ call.obj \notin known /\ call.g.notify
        /\ call.rest \in {<<"delete_if_ex", "notify_gc">>, <<"notify_gc">>,
                          <<"notify_gc_if_necessary">>}

CallInv == \/ call = NoCall
           \/ Creating /\ (Unmade \/ MadeValue \/ MadeHandle)

(* The count of o is no less than the references of scripts and of the      *)
(* objects that are not in done.                                            *)
Over(o, done) == gc.count[o] >= V(o) + Cardinality(In(o) \ done)

(* Only objects in S refer to o.                                            *)
Cut(o, S) == V(o) = 0 /\ In(o) \subseteq S

GcInv ==
  /\ gc.todo \subseteq known /\ gc.suspects \subseteq known
  /\ gc.phase = "flag" => \A o \in gc.suspects : flag[o] => Over(o, {})
  /\ gc.phase = "count" =>
       /\ gc.todo \subseteq gc.suspects
       /\ \A o \in gc.suspects : flag[o] => Over(o, gc.suspects \ gc.todo)
  /\ gc.phase = "trace" =>
       \A o \in gc.suspects : flag[o] /\ gc.count[o] <= 0 => Cut(o, gc.suspects \cup gc.todo)
  /\ gc.phase = "break" => \A o \in gc.suspects : Cut(o, gc.suspects)
  /\ gc.phase = "destroy" => gc.suspects = {}

OwnedLive == \A v \in owned : life[v] = "live"

Inv == /\ TypeInv /\ HeapOK(heap, Ext) /\ CallInv /\ GcInv
       /\ CollectorIsTold /\ OwnedLive /\ FailedAreDestroyed

(***************************************************************************)
(* References from outside.                                                *)
(***************************************************************************)
LEMMA VIs ==
  ASSUME NEW o
  PROVE  /\ V(o) \in Nat
         /\ V(o) = 0 <=> o \notin Frame /\ \A x \in Vars : var[x] # o
         /\ V(o)' \in Nat
         /\ V(o)' = 0 <=> o \notin Frame' /\ \A x \in Vars : var'[x] # o
<1>1. PICK n, m, a, b : /\ n = Count(Vars, var, o) /\ m = Count(Vars, var', o)
                        /\ a = Bit(o \in Frame) /\ b = Bit(o \in Frame')
  OBVIOUS
<1>2. n \in Nat /\ (n = 0 <=> \A x \in Vars : var[x] # o) BY <1>1, Finite, CountIsNat
<1>3. m \in Nat /\ (m = 0 <=> \A x \in Vars : var'[x] # o) BY <1>1, Finite, CountIsNat
<1>4. /\ a \in Nat /\ (a = 0 <=> o \notin Frame)
      /\ b \in Nat /\ (b = 0 <=> o \notin Frame')
  BY <1>1 DEF Bit
<1>5. V(o) = n + a /\ V(o)' = m + b BY <1>1 DEF V, Count
<1> QED BY <1>2, <1>3, <1>4, <1>5

(* The references from outside are numbers, before and after a step.        *)
LEMMA ExtIs ==
  /\ Ext \in [Handled -> Nat] /\ \A o \in Handled : Ext[o] = V(o) + Bit(o \in known)
  /\ Ext' \in [Handled -> Nat] /\ \A o \in Handled : Ext'[o] = V(o)' + Bit(o \in known')
<1>1. \A o : V(o) + Bit(o \in known) \in Nat /\ V(o)' + Bit(o \in known') \in Nat
  BY VIs DEF Bit
<1>2. Ext = [o \in Handled |-> V(o) + Bit(o \in known)] BY DEF Ext
<1>3. Ext' = [o \in Handled |-> V(o)' + Bit(o \in known')] BY DEF Ext
<1> QED BY <1>1, <1>2, <1>3

(* Functions that agree on every object are the same.                       *)
LEMMA SameExt ==
  ASSUME NEW h, NEW e, HeapOK(h, e), \A o \in Handled : e[o] = Ext'[o]
  PROVE  HeapOK(h, Ext')
<1>1. e \in [Handled -> Nat] BY DEF HeapOK
<1>2. e = Ext' BY <1>1, ExtIs
<1> QED BY <1>2

(* The heap's fields are the variables.                                     *)
LEMMA HeapIs ==
  /\ heap.life = life /\ heap.rc = rc /\ heap.flag = flag /\ heap.data = data
  /\ heap'.life = life' /\ heap'.rc = rc' /\ heap'.flag = flag' /\ heap'.data = data'
BY DEF heap

(* The heap after a step is the one that the step says.                     *)
LEMMA SetHeapIs ==
  ASSUME NEW h, SetHeap(h), NEW e, HeapOK(h, e)
  PROVE  heap' = h
<1>1. h = Heap(h.life, h.rc, h.flag, h.data) BY DEF HeapOK, HeapType
<1>2. heap' = Heap(life', rc', flag', data') BY DEF heap, Heap
<1> QED BY <1>1, <1>2 DEF SetHeap

(* No function runs, and none holds a new object.                           *)
LEMMA NoFrame ==
  ASSUME call = NoCall, call' = NoCall
  PROVE  Frame = {} /\ Frame' = {}
BY DEF Frame

(* One variable is assigned.                                                *)
LEMMA VarReplaced ==
  ASSUME TypeInv, NEW x \in Vars, NEW n, ReplacedAt(var, x, n, var'), Frame' = Frame
  PROVE  \A o : V(o)' = V(o) - Bit(var[x] = o) + Bit(n = o)
<1> SUFFICES ASSUME NEW o PROVE V(o)' = V(o) - Bit(var[x] = o) + Bit(n = o)
  OBVIOUS
<1>1. PICK a, b, c : a = Count(Vars, var, o) /\ b = Count(Vars, var', o) /\ c = Bit(o \in Frame)
  OBVIOUS
<1>2. DOMAIN var = Vars BY DEF TypeInv
<1>3. Count(Vars, var', o) = Count(Vars, var, o) - Bit(var[x] = o) + Bit(n = o)
  BY <1>2, Finite, CountReplaced
<1>4. a \in Nat /\ b \in Nat /\ c \in Nat BY <1>1, Finite, CountIsNat DEF Bit
<1>5. V(o) = a + c /\ V(o)' = b + c BY <1>1 DEF V, Count
<1>6. Bit(var[x] = o) \in Nat /\ Bit(n = o) \in Nat BY DEF Bit
<1> QED BY <1>1, <1>3, <1>4, <1>5, <1>6

(***************************************************************************)
(* What scripts do while the collector works.                              *)
(***************************************************************************)
(* A script reaches o in one step.                                          *)
Touched(o) == V(o) > 0 \/ \E q \in In(o) : V(q) > 0

(* References to o go away; or the flag of o does, which a script touched.  *)
TameAt(o) ==
  /\ flag'[o] => flag[o]
  /\ \/ V(o)' <= V(o) /\ In(o)' \subseteq In(o)
     \/ ~flag'[o] /\ Touched(o)

Tame == \A o \in known : TameAt(o)

(* Fewer objects refer to o: the count of those outside of D is no more.    *)
LEMMA FewerIn ==
  ASSUME NEW o, In(o)' \subseteq In(o), NEW D
  PROVE  /\ Cardinality(In(o) \ D) \in Nat /\ Cardinality(In(o)' \ D) \in Nat
         /\ Cardinality(In(o)' \ D) <= Cardinality(In(o) \ D)
<1>1. PICK S, T : S = In(o) \ D /\ T = In(o)' \ D OBVIOUS
<1>2. S \in SUBSET Handled /\ T \in SUBSET S BY <1>1 DEF In
<1>3. IsFiniteSet(S) BY <1>2, Finite, FS_Subset
<1>4. IsFiniteSet(T) /\ Cardinality(T) <= Cardinality(S) BY <1>2, <1>3, FS_Subset
<1> QED BY <1>1, <1>3, <1>4, FS_CardinalityType

(* Where handles are only cleared, no object refers to o that did not.      *)
LEMMA InShrinks ==
  ASSUME NEW o \in Handled, \A p \in Handled : data'[p] \in {data[p], Null}
  PROVE  In(o)' \subseteq In(o)
BY NullIsNoObject DEF In

(* The bounds and cuts of the collector survive what scripts do: where a    *)
(* reference is added, the flag is gone; and suspects that only suspects    *)
(* refer to are out of every script's reach.                                *)
LEMMA TameKeepsGcInv ==
  ASSUME TypeInv, GcInv, gc' = gc, known \subseteq known', Tame
  PROVE  GcInv'
<1>1. PICK S, T : S = gc.suspects /\ T = gc.todo OBVIOUS
<1>2. S \subseteq known /\ T \subseteq known BY <1>1 DEF GcInv
<1>3. \A o \in S : gc.count[o] \in Int BY <1>1, <1>2 DEF TypeInv
<1>4. ASSUME NEW o \in S, NEW D, flag'[o], flag[o] => Over(o, D)
      PROVE  Over(o, D)'
  <2>1. V(o)' <= V(o) /\ In(o)' \subseteq In(o) /\ Over(o, D) BY <1>2, <1>4 DEF Tame, TameAt
  <2>2. /\ Cardinality(In(o) \ D) \in Nat /\ Cardinality(In(o)' \ D) \in Nat
        /\ Cardinality(In(o)' \ D) <= Cardinality(In(o) \ D)
    BY <2>1, FewerIn
  <2>3. V(o) \in Nat /\ V(o)' \in Nat BY VIs
  <2>4. gc.count[o] >= V(o) + Cardinality(In(o) \ D) BY <2>1 DEF Over
  <2>5. gc.count[o] >= V(o)' + Cardinality(In(o)' \ D) BY <2>1, <2>2, <2>3, <2>4, <1>3
  <2> QED BY <2>5 DEF Over
<1>5. ASSUME NEW o \in S, NEW D, flag'[o], flag[o] => Cut(o, D)
      PROVE  Cut(o, D)'
  <2>1. V(o)' <= V(o) /\ In(o)' \subseteq In(o) /\ Cut(o, D) BY <1>2, <1>5 DEF Tame, TameAt
  <2>2. V(o) \in Nat /\ V(o)' \in Nat BY VIs
  <2> QED BY <2>1, <2>2 DEF Cut
<1>6. ASSUME \A o \in S : Cut(o, S), NEW o \in S
      PROVE  Cut(o, S)'
  <2>1. V(o) = 0 /\ \A q \in In(o) : V(q) = 0 BY <1>6 DEF Cut
  <2>2. ~Touched(o) BY <2>1 DEF Touched
  <2>3. V(o)' <= V(o) /\ In(o)' \subseteq In(o) BY <2>2, <1>2 DEF Tame, TameAt
  <2>4. V(o)' \in Nat BY VIs
  <2> QED BY <2>1, <2>3, <2>4, <1>6 DEF Cut
<1>7. gc.phase = "flag" => \A o \in S : flag'[o] => Over(o, {})'
  BY <1>1, <1>4 DEF GcInv
<1>8. gc.phase = "count" => /\ T \subseteq S
                            /\ \A o \in S : flag'[o] => Over(o, S \ T)'
  BY <1>1, <1>4 DEF GcInv
<1>9. gc.phase = "trace" => \A o \in S : flag'[o] /\ gc.count[o] <= 0 => Cut(o, S \cup T)'
  BY <1>1, <1>5 DEF GcInv
<1>10. gc.phase = "break" => \A o \in S : Cut(o, S)'
  BY <1>1, <1>6 DEF GcInv
<1>11. gc.phase = "destroy" => S = {} BY <1>1 DEF GcInv
<1>12. S \subseteq known' /\ T \subseteq known' BY <1>2
<1>13. S = gc'.suspects /\ T = gc'.todo /\ gc'.phase = gc.phase /\ gc'.count = gc.count BY <1>1
<1> QED BY <1>7, <1>8, <1>9, <1>10, <1>11, <1>12, <1>13 DEF GcInv, Over, Cut

(***************************************************************************)
(* Scripts at work.                                                        *)
(***************************************************************************)
Fades ==
  \A p \in Objects : \/ life'[p] = life[p]
                     \/ p \in Handled /\ life[p] = "live" /\ life'[p] = "dead"

(* A step of a script that creates nothing.                                 *)
LEMMA QuietKeepsInv ==
  ASSUME Inv, call = NoCall, UNCHANGED <<gcType, owned, call, lost, known, gc>>,
         var' \in [Vars -> Handled \cup {Null}], HeapOK(heap', Ext'), Fades, Tame
  PROVE  Inv'
<1>1. TypeInv' BY DEF Inv, TypeInv
<1>2. CallInv' BY DEF CallInv
<1>3. GcInv' BY TameKeepsGcInv DEF Inv
<1>4. Frame = {} /\ Frame' = {} BY NoFrame
<1>5. CollectorIsTold'
  <2>1. \A c \in Containers : c \in Objects BY DEF Objects, Handled
  <2> QED BY <2>1, <1>4 DEF Inv, CollectorIsTold, Fades
<1>6. OwnedLive'
  <2>1. \A v \in owned : v \in Objects /\ v \notin Handled
    BY CollectionAssumption DEF Inv, TypeInv, Objects, Handled
  <2> QED BY <2>1 DEF Inv, OwnedLive, Fades
<1>7. FailedAreDestroyed' BY DEF Inv, FailedAreDestroyed
<1> QED BY <1>1, <1>2, <1>3, <1>5, <1>6, <1>7 DEF Inv

(* What is in a variable has a reference from outside, and lives.           *)
LEMMA InVariable ==
  ASSUME Inv, NEW x \in Vars, var[x] # Null
  PROVE  /\ var[x] \in Handled /\ V(var[x]) > 0 /\ Ext[var[x]] > 0
         /\ life[var[x]] = "live"
<1>1. PICK o : o = var[x] OBVIOUS
<1>2. o \in Handled BY <1>1 DEF Inv, TypeInv
<1>3. V(o) \in Nat /\ V(o) # 0 BY <1>1, VIs
<1>4. Ext[o] = V(o) + Bit(o \in known) BY <1>2, ExtIs
<1>5. Ext[o] > 0 BY <1>3, <1>4 DEF Bit
<1>6. life[o] = "live" BY <1>2, <1>5, HeapIs DEF Inv, HeapOK, LiveOnly
<1> QED BY <1>1, <1>2, <1>3, <1>5, <1>6

(* The references from outside after an assignment of a variable.           *)
LEMMA ExtReplaced ==
  ASSUME TypeInv, NEW x \in Vars, NEW n, ReplacedAt(var, x, n, var'), Frame' = Frame,
         known' = known
  PROVE  \A o \in Handled : Ext'[o] = Ext[o] - Bit(o = var[x]) + Bit(o = n)
<1> SUFFICES ASSUME NEW o \in Handled
             PROVE  Ext'[o] = Ext[o] - Bit(o = var[x]) + Bit(o = n)
  OBVIOUS
<1>1. V(o)' = V(o) - Bit(var[x] = o) + Bit(n = o) BY VarReplaced
<1>2. Ext[o] = V(o) + Bit(o \in known) /\ Ext'[o] = V(o)' + Bit(o \in known) BY ExtIs
<1>3. V(o) \in Nat /\ V(o)' \in Nat BY VIs
<1>4. /\ Bit(var[x] = o) = Bit(o = var[x]) /\ Bit(n = o) = Bit(o = n)
      /\ Bit(o = var[x]) \in Nat /\ Bit(o = n) \in Nat /\ Bit(o \in known) \in Nat
  BY DEF Bit
<1> QED BY <1>1, <1>2, <1>3, <1>4

(* A handle is assigned to a variable: counted first, then released.        *)
LEMMA AssignVariableKeepsInv ==
  ASSUME Inv, NEW x \in Vars, NEW y \in Vars, AssignVariable(x, y)
  PROVE  Inv'
<1>1. /\ call = NoCall /\ UNCHANGED <<gcType, owned, call, lost, known, gc>>
      /\ SetHeap(ReleaseScriptObject(AddRefScriptObject(heap, var[y]), var[x]))
      /\ var' = [var EXCEPT ![x] = var[y]]
  BY DEF AssignVariable
<1>2. TypeInv /\ HeapOK(heap, Ext) /\ Ext \in [Handled -> Nat] BY DEF Inv, HeapOK
<1>3. PICK n, o : n = var[y] /\ o = var[x] OBVIOUS
<1>4. n \in Handled \cup {Null} /\ o \in Handled \cup {Null}
      /\ var' \in [Vars -> Handled \cup {Null}]
  BY <1>1, <1>2, <1>3 DEF TypeInv
<1>a. ReplacedAt(var, x, n, var') BY <1>1, <1>3 DEF ReplacedAt
<1>5. Frame = {} /\ Frame' = {} BY <1>1, NoFrame
<1>6. PICK g, h : g = AddRefScriptObject(heap, n) /\ h = ReleaseScriptObject(g, o) OBVIOUS
<1>7. HeapOK(g, Plus(Ext, n)) /\ Took(heap, g, n)
  <2>1. n # Null => heap.life[n] = "live" BY <1>3, InVariable, HeapIs
  <2> QED BY <2>1, <1>2, <1>4, <1>6, TakeGood
<1>8. /\ Plus(Ext, n) \in [Handled -> Nat]
      /\ \A p \in Handled : Plus(Ext, n)[p] = Ext[p] + Bit(p = n)
  BY <1>2, PlusIs
<1>9. o # Null => Plus(Ext, n)[o] > 0
  <2>1. o # Null => o \in Handled /\ Ext[o] > 0 BY <1>3, InVariable
  <2> QED BY <2>1, <1>2, <1>8 DEF Bit
<1>10. PICK f : f = Minus(Plus(Ext, n), o) OBVIOUS
<1>11. HeapOK(h, f) /\ Dropped(g, h, f)
  BY <1>4, <1>6, <1>7, <1>9, <1>10, DropGood
<1>12. \A p \in Handled : f[p] = Ext'[p]
  <2>1. \A p \in Handled : f[p] = Plus(Ext, n)[p] - Bit(p = o)
    <3>1. PICK e : e = Plus(Ext, n) OBVIOUS
    <3>2. e \in [Handled -> Nat] /\ (o \in Handled => e[o] > 0)
      BY <3>1, <1>8, <1>9, NullIsNoObject
    <3>3. \A p \in Handled : Minus(e, o)[p] = e[p] - Bit(p = o) BY <3>2, MinusIs
    <3> QED BY <3>1, <3>3, <1>10
  <2>2. \A p \in Handled : Ext'[p] = Ext[p] - Bit(p = o) + Bit(p = n)
    <3>1. known' = known /\ Frame' = Frame BY <1>1, <1>5
    <3> QED BY <3>1, <1>a, <1>2, <1>3, ExtReplaced
  <2> QED BY <2>1, <2>2, <1>2, <1>8 DEF Bit
<1>13. SetHeap(h) BY <1>1, <1>3, <1>6
<1>14. heap' = h /\ HeapOK(heap', Ext')
  BY <1>11, <1>12, <1>13, SetHeapIs, SameExt
<1>15. /\ Fades /\ \A p \in Handled : data'[p] \in {data[p], Null}
       /\ \A p \in Handled : flag'[p] => flag[p] /\ p # n
  BY <1>7, <1>11, <1>14, HeapIs DEF Took, Dropped, Less, Fades
<1>16. Tame
  <2> SUFFICES ASSUME NEW p \in known PROVE TameAt(p) BY DEF Tame
  <2>1. p \in Handled BY <1>2 DEF TypeInv
  <2>2. CASE p = n
    <3>1. V(n) > 0 BY <2>1, <2>2, <1>3, InVariable, NullIsNoObject
    <3> QED BY <3>1, <2>1, <2>2, <1>15 DEF TameAt, Touched
  <2>3. CASE p # n
    <3>1. V(p)' = V(p) - Bit(o = p) + Bit(n = p) BY <1>a, <1>2, <1>3, <1>5, VarReplaced
    <3>2. V(p) \in Nat /\ V(p)' \in Nat BY VIs
    <3>3. V(p)' <= V(p) BY <3>1, <3>2, <2>3 DEF Bit
    <3>4. In(p)' \subseteq In(p) BY <2>1, <1>15, InShrinks
    <3> QED BY <3>3, <3>4, <2>1, <1>15 DEF TameAt
  <2> QED BY <2>2, <2>3
<1> QED BY <1>1, <1>4, <1>14, <1>15, <1>16, QuietKeepsInv

(* A variable goes out of scope.                                            *)
LEMMA LeaveScopeKeepsInv ==
  ASSUME Inv, NEW x \in Vars, LeaveScope(x)
  PROVE  Inv'
<1>1. /\ call = NoCall /\ UNCHANGED <<gcType, owned, call, lost, known, gc>>
      /\ var[x] # Null /\ SetHeap(ReleaseScriptObject(heap, var[x]))
      /\ var' = [var EXCEPT ![x] = Null]
  BY DEF LeaveScope
<1>2. TypeInv /\ HeapOK(heap, Ext) /\ Ext \in [Handled -> Nat] BY DEF Inv, HeapOK
<1>3. PICK o : o = var[x] OBVIOUS
<1>4. o \in Handled /\ Ext[o] > 0 BY <1>1, <1>3, InVariable
<1>5. var' \in [Vars -> Handled \cup {Null}] BY <1>1, <1>2 DEF TypeInv
<1>a. ReplacedAt(var, x, Null, var') BY <1>1 DEF ReplacedAt
<1>6. Frame = {} /\ Frame' = {} BY <1>1, NoFrame
<1>7. PICK h, f : h = ReleaseScriptObject(heap, o) /\ f = Minus(Ext, o) OBVIOUS
<1>8. HeapOK(h, f) /\ Dropped(heap, h, f) BY <1>2, <1>4, <1>7, DropGood
<1>9. \A p \in Handled : f[p] = Ext'[p]
  <2>1. \A p \in Handled : f[p] = Ext[p] - Bit(p = o) BY <1>2, <1>4, <1>7, MinusIs
  <2>2. \A p \in Handled : Ext'[p] = Ext[p] - Bit(p = o) + Bit(p = Null)
    <3>1. known' = known /\ Frame' = Frame BY <1>1, <1>6
    <3> QED BY <3>1, <1>a, <1>2, <1>3, ExtReplaced
  <2>3. \A p \in Handled : Bit(p = Null) = 0 BY NullIsNoObject DEF Bit
  <2> QED BY <2>1, <2>2, <2>3, <1>2 DEF Bit
<1>10. SetHeap(h) BY <1>1, <1>3, <1>7
<1>11. heap' = h /\ HeapOK(heap', Ext') BY <1>8, <1>9, <1>10, SetHeapIs, SameExt
<1>12. /\ Fades /\ \A p \in Handled : data'[p] \in {data[p], Null}
       /\ \A p \in Handled : flag'[p] => flag[p]
  BY <1>8, <1>11, HeapIs DEF Dropped, Less, Fades
<1>13. Tame
  <2> SUFFICES ASSUME NEW p \in known PROVE TameAt(p) BY DEF Tame
  <2>1. p \in Handled BY <1>2 DEF TypeInv
  <2>2. V(p)' = V(p) - Bit(o = p) + Bit(Null = p) BY <1>a, <1>2, <1>3, <1>6, VarReplaced
  <2>3. V(p) \in Nat /\ V(p)' \in Nat BY VIs
  <2>4. V(p)' <= V(p) BY <2>1, <2>2, <2>3, NullIsNoObject DEF Bit
  <2>5. In(p)' \subseteq In(p) BY <2>1, <1>12, InShrinks
  <2> QED BY <2>1, <2>4, <2>5, <1>12 DEF TameAt
<1> QED BY <1>1, <1>5, <1>11, <1>12, <1>13, QuietKeepsInv

(* Where neither variables nor the frame change, the references of scripts  *)
(* do not.                                                                  *)
LEMMA VSame ==
  ASSUME var' = var, Frame' = Frame
  PROVE  \A o : V(o)' = V(o)
BY DEF V, Count

(* Nor do those from outside, if the collector knows the same objects.      *)
LEMMA ExtSame ==
  ASSUME var' = var, Frame' = Frame, known' = known
  PROVE  Ext' = Ext
<1>1. \A o \in Handled : Ext'[o] = Ext[o] BY VSame, ExtIs
<1> QED BY <1>1, ExtIs

(* copy() and the assignment of a member.                                   *)
LEMMA StoreKeepsInv ==
  ASSUME Inv, NEW x \in Vars, NEW y \in Vars, Store(x, y)
  PROVE  Inv'
<1>1. PICK c, n : c = var[x] /\ n = var[y] OBVIOUS
<1>2. /\ call = NoCall /\ UNCHANGED <<gcType, var, owned, call, lost, known, gc>>
      /\ c \in Containers \cup Scripts
  BY <1>1 DEF Store
<1>3. TypeInv /\ HeapOK(heap, Ext) /\ Ext \in [Handled -> Nat] BY DEF Inv, HeapOK
<1>4. c \in Handled /\ n \in Handled \cup {Null} BY <1>1, <1>2, <1>3 DEF TypeInv, Handled
<1>5. Ext[c] > 0 /\ (n # Null => Ext[n] > 0 /\ V(n) > 0)
  BY <1>1, <1>4, NullIsNoObject, InVariable
<1>6. PICK k : HeapOK(k, Ext) /\ Stored(heap, k, c, n) /\ SetHeap(k)
  <2>1. CASE /\ c \in Containers /\ n \in Scripts \cup {Null}
             /\ SetHeap(IF data[c] = Null THEN copy_construct(heap, c, n)
                                          ELSE copy_assign_from(heap, c, n))
    <3>1. Fits(c, n) BY <2>1, CollectionAssumption DEF Fits
    <3>2. CASE data[c] = Null
      <4>1. SetHeap(copy_construct(heap, c, n)) BY <2>1, <3>2
      <4>2. heap.data[c] = Null BY <3>2, HeapIs
      <4>3. /\ HeapOK(copy_construct(heap, c, n), Ext)
            /\ Stored(heap, copy_construct(heap, c, n), c, n)
        BY <1>3, <1>4, <1>5, <3>1, <4>2, ConstructGood
      <4> QED BY <4>1, <4>3
    <3>3. CASE data[c] # Null
      <4>1. SetHeap(copy_assign_from(heap, c, n)) BY <2>1, <3>3
      <4>2. heap.data[c] # Null BY <3>3, HeapIs
      <4>3. /\ HeapOK(copy_assign_from(heap, c, n), Ext)
            /\ Stored(heap, copy_assign_from(heap, c, n), c, n)
        BY <1>3, <1>4, <1>5, <3>1, <4>2, AssignFromGood
      <4> QED BY <4>1, <4>3
    <3> QED BY <3>2, <3>3
  <2>2. CASE /\ c \in Scripts /\ n \in Containers \cup {Null}
             /\ SetHeap([ReleaseScriptObject(AddRefScriptObject(heap, n), data[c])
                           EXCEPT !.data[c] = n])
    <3>1. Fits(c, n) BY <2>2, CollectionAssumption DEF Fits
    <3>2. PICK k : /\ Put(ReleaseScriptObject(AddRefScriptObject(heap, n), data[c]), k, c, n)
                   /\ SetHeap(k)
      BY <2>2 DEF Put
    <3>3. Put(ReleaseScriptObject(AddRefScriptObject(heap, n), heap.data[c]), k, c, n)
      BY <3>2, HeapIs
    <3>4. HeapOK(k, Ext) /\ Stored(heap, k, c, n)
      BY <1>3, <1>4, <1>5, <3>1, <3>3, MemberGood
    <3> QED BY <3>2, <3>4
  <2> QED BY <2>1, <2>2, <1>1 DEF Store
<1>7. Frame = {} /\ Frame' = {} BY <1>2, NoFrame
<1>8. heap' = k BY <1>6, SetHeapIs
<1>9. HeapOK(heap', Ext') BY <1>2, <1>6, <1>7, <1>8, ExtSame
<1>10. /\ Fades /\ \A p \in Handled : flag'[p] => flag[p] /\ p # n
       /\ \A p \in Handled : data'[p] \in IF p = c THEN {n} ELSE {data[p], Null}
  BY <1>6, <1>8, HeapIs DEF Stored, Fades
<1>11. Tame
  <2> SUFFICES ASSUME NEW p \in known PROVE TameAt(p) BY DEF Tame
  <2>1. p \in Handled /\ p # Null BY <1>3, NullIsNoObject DEF TypeInv
  <2>2. CASE p = n BY <2>1, <2>2, <1>5, <1>10 DEF TameAt, Touched
  <2>3. CASE p # n
    <3>1. V(p)' = V(p) /\ V(p) \in Nat BY <1>2, <1>7, VSame, VIs
    <3>2. In(p)' \subseteq In(p) BY <2>1, <2>3, <1>10 DEF In
    <3> QED BY <3>1, <3>2, <2>1, <1>10 DEF TameAt
  <2> QED BY <2>2, <2>3
<1>12. var' \in [Vars -> Handled \cup {Null}] BY <1>2, <1>3 DEF TypeInv
<1> QED BY <1>2, <1>9, <1>10, <1>11, <1>12, QuietKeepsInv

(* What is in a variable keeps a reference when another one is emptied.     *)
LEMMA InAnotherVariable ==
  ASSUME Inv, NEW x \in Vars, NEW y \in Vars, x # y, var[x] \in Handled
  PROVE  Ext[var[x]] - Bit(var[x] = var[y]) > 0
<1>1. PICK g, c : ReplacedAt(var, y, Null, g) /\ c = var[x] BY DEF ReplacedAt
<1>2. DOMAIN var = Vars BY DEF Inv, TypeInv
<1>3. g[x] = c BY <1>1, <1>2 DEF ReplacedAt
<1>4. PICK a, b : a = Count(Vars, var, c) /\ b = Count(Vars, g, c) OBVIOUS
<1>5. a \in Nat /\ b \in Nat /\ b # 0 BY <1>3, <1>4, Finite, CountIsNat
<1>6. b = a - Bit(var[y] = c) + Bit(Null = c)
  <2>1. Count(Vars, g, c) = Count(Vars, var, c) - Bit(var[y] = c) + Bit(Null = c)
    BY <1>1, <1>2, Finite, CountReplaced
  <2> QED BY <2>1, <1>4
<1>7. Bit(Null = c) = 0 /\ Bit(var[y] = c) = Bit(var[x] = var[y]) /\ Bit(var[y] = c) \in Nat
  BY <1>1, NullIsNoObject DEF Bit
<1>8. Ext[c] = a + Bit(c \in Frame) + Bit(c \in known) BY <1>1, <1>4, ExtIs DEF V
<1>9. Bit(c \in Frame) \in Nat /\ Bit(c \in known) \in Nat BY DEF Bit
<1> QED BY <1>1, <1>5, <1>6, <1>7, <1>8, <1>9

(* copy_assign_to releases what the variable holds before it counts the new *)
(* handle, which its container keeps alive: another variable holds that.    *)
LEMMA LoadKeepsInv ==
  ASSUME Inv, NEW x \in Vars, NEW y \in Vars, Load(x, y)
  PROVE  Inv'
<1>1. PICK c, o, d : c = var[x] /\ o = var[y] /\ d = data[c] OBVIOUS
<1>2. /\ call = NoCall /\ UNCHANGED <<gcType, owned, call, lost, known, gc>>
      /\ x # y /\ c \in Handled /\ d # Null
      /\ SetHeap(copy_assign_to(heap, c, o)) /\ var' = [var EXCEPT ![y] = d]
  BY <1>1 DEF Load
<1>3. /\ TypeInv /\ HeapOK(heap, Ext) /\ Ext \in [Handled -> Nat]
      /\ data \in [Handled -> Handled \cup {Null}]
  BY HeapIs DEF Inv, HeapOK, HeapType
<1>4. d \in Handled /\ o \in Handled \cup {Null} /\ var' \in [Vars -> Handled \cup {Null}]
  BY <1>1, <1>2, <1>3 DEF TypeInv
<1>5. Frame = {} /\ Frame' = {} BY <1>2, NoFrame
<1>6. PICK g, f : g = ReleaseScriptObject(heap, o) /\ f = Minus(Ext, o) OBVIOUS
<1>7. o # Null => Ext[o] > 0 BY <1>1, InVariable
<1>8. HeapOK(g, f) /\ Dropped(heap, g, f) BY <1>3, <1>4, <1>6, <1>7, DropGood
<1>9. f \in [Handled -> Nat] /\ \A p \in Handled : f[p] = Ext[p] - Bit(p = o)
  <2>1. o \in Handled => Ext[o] > 0 BY <1>7, NullIsNoObject
  <2> QED BY <2>1, <1>3, <1>6, MinusIs
<1>10. f[c] > 0 /\ V(c) > 0
  <2>1. Ext[c] - Bit(c = o) > 0 BY <1>1, <1>2, InAnotherVariable
  <2>2. V(c) > 0 BY <1>1, <1>2, InVariable, NullIsNoObject
  <2> QED BY <2>1, <2>2, <1>2, <1>9
<1>11. g.data[c] = d /\ g.life[d] = "live"
  <2>1. g.data[c] = d BY <1>1, <1>2, <1>8, <1>10, HeapIs DEF Dropped
  <2> QED BY <2>1, <1>2, <1>8 DEF HeapOK, LiveOnly
<1>12. PICK h : h = AddRefScriptObject(g, d) OBVIOUS
<1>13. HeapOK(h, Plus(f, d)) /\ Took(g, h, d) BY <1>4, <1>8, <1>11, <1>12, TakeGood
<1>a. ReplacedAt(var, y, d, var') BY <1>2 DEF ReplacedAt
<1>14. \A p \in Handled : Plus(f, d)[p] = Ext'[p]
  <2>1. \A p \in Handled : Plus(f, d)[p] = f[p] + Bit(p = d) BY <1>9, PlusIs
  <2>2. \A p \in Handled : Ext'[p] = Ext[p] - Bit(p = o) + Bit(p = d)
    <3>1. known' = known /\ Frame' = Frame BY <1>2, <1>5
    <3> QED BY <3>1, <1>a, <1>1, <1>3, ExtReplaced
  <2> QED BY <2>1, <2>2, <1>9
<1>15. SetHeap(h)
  <2>1. copy_assign_to(heap, c, o) = h BY <1>1, <1>6, <1>12, HeapIs DEF copy_assign_to
  <2> QED BY <2>1, <1>2
<1>16. heap' = h /\ HeapOK(heap', Ext') BY <1>13, <1>14, <1>15, SetHeapIs, SameExt
<1>17. /\ Fades /\ \A p \in Handled : data'[p] \in {data[p], Null}
       /\ \A p \in Handled : flag'[p] => flag[p] /\ p # d
  BY <1>8, <1>13, <1>16, HeapIs DEF Took, Dropped, Less, Fades
<1>18. Tame
  <2> SUFFICES ASSUME NEW p \in known PROVE TameAt(p) BY DEF Tame
  <2>1. p \in Handled BY <1>3 DEF TypeInv
  <2>2. CASE p = d
    <3>1. c \in In(d) BY <1>1, <1>2 DEF In
    <3> QED BY <3>1, <2>1, <2>2, <1>10, <1>17 DEF TameAt, Touched
  <2>3. CASE p # d
    <3>1. V(p)' = V(p) - Bit(o = p) + Bit(d = p) BY <1>a, <1>1, <1>3, <1>5, VarReplaced
    <3>2. V(p) \in Nat /\ V(p)' \in Nat BY VIs
    <3>3. V(p)' <= V(p) BY <3>1, <3>2, <2>3 DEF Bit
    <3>4. In(p)' \subseteq In(p) BY <2>1, <1>17, InShrinks
    <3> QED BY <3>3, <3>4, <2>1, <1>17 DEF TameAt
  <2> QED BY <2>2, <2>3
<1> QED BY <1>2, <1>4, <1>16, <1>17, <1>18, QuietKeepsInv

(***************************************************************************)
(* The generated functions.                                                *)
(***************************************************************************)
LEMMA KindsDiffer ==
  /\ \A k \in ValueKinds : k \notin HandleKinds
  /\ "factory" \in HandleKinds /\ "list_factory" \in HandleKinds
BY DEF ValueKinds, HandleKinds

(* The steps of each kind of function.                                      *)
LEMMA StepsAre ==
  ASSUME NEW g \in Creations
  PROVE  /\ g.kind \in {"constructor", "array_constructor", "array_copy"} =>
              Steps(g) = <<"new", "destroy_if_ex">>
         /\ g.kind \in {"list_constructor", "ctor_fn"} => Steps(g) = <<"new">>
         /\ g.kind = "factory" /\ g.notify => Steps(g) = <<"new", "delete_if_ex", "notify_gc">>
         /\ g.kind = "list_factory" /\ g.notify => Steps(g) = <<"new", "notify_gc_if_necessary">>
         /\ g.kind \in HandleKinds /\ ~g.notify => Steps(g) = <<"new">>
<1>1. ASSUME g.kind = "constructor" PROVE Steps(g) = <<"new", "destroy_if_ex">>
  BY <1>1, Zenon DEF Steps, constructor
<1>2. ASSUME g.kind = "array_constructor" PROVE Steps(g) = <<"new", "destroy_if_ex">>
  <2>1. g.kind # "constructor" BY <1>2
  <2> QED BY <1>2, <2>1, Zenon DEF Steps, array_constructor
<1>3. ASSUME g.kind = "array_copy" PROVE Steps(g) = <<"new", "destroy_if_ex">>
  <2>1. g.kind # "constructor" /\ g.kind # "array_constructor" BY <1>3
  <2> QED BY <1>3, <2>1, Zenon DEF Steps, arr_copy_constructor
<1>4. ASSUME g.kind = "list_constructor" PROVE Steps(g) = <<"new">>
  <2>1. g.kind # "constructor" /\ g.kind # "array_constructor" /\ g.kind # "array_copy" BY <1>4
  <2> QED BY <1>4, <2>1, Zenon DEF Steps, list_constructor
<1>5. ASSUME g.kind = "ctor_fn" PROVE Steps(g) = <<"new">>
  <2>1. /\ g.kind # "constructor" /\ g.kind # "array_constructor" /\ g.kind # "array_copy"
        /\ g.kind # "list_constructor"
    BY <1>5
  <2> QED BY <1>5, <2>1, Zenon DEF Steps, ctor_fn_wrapper
<1>6. ASSUME g.kind = "factory" PROVE Steps(g) = IF g.notify THEN factory_notify_gc ELSE factory
  <2>1. /\ g.kind # "constructor" /\ g.kind # "array_constructor" /\ g.kind # "array_copy"
        /\ g.kind # "list_constructor" /\ g.kind # "ctor_fn"
    BY <1>6
  <2> QED BY <1>6, <2>1, Zenon DEF Steps
<1>7. ASSUME g.kind = "list_factory"
      PROVE  Steps(g) = IF g.notify THEN list_factory_notify_gc ELSE list_factory_default
  <2>1. /\ g.kind # "constructor" /\ g.kind # "array_constructor" /\ g.kind # "array_copy"
        /\ g.kind # "list_constructor" /\ g.kind # "ctor_fn" /\ g.kind # "factory"
    BY <1>7
  <2> QED BY <1>7, <2>1, Zenon DEF Steps
<1> QED BY <1>1, <1>2, <1>3, <1>4, <1>5, <1>6, <1>7 DEF HandleKinds, factory_notify_gc, factory,
           list_factory_notify_gc, list_factory_default

(* A function that tells the collector has type information.                *)
LEMMA TypeInfoIs ==
  ASSUME NEW g \in Creations, g.notify, NEW generic \in BOOLEAN
  PROVE  TypeInfoOf(g, generic) = "typeinfo"
<1>1. CASE g.template BY <1>1 DEF TypeInfoOf
<1>2. CASE ~g.template
  <2>1. aux_for_policy(g) = "typeinfo" BY <1>2 DEF aux_for_policy
  <2>2. g.kind \in HandleKinds BY DEF Creations
  <2>3. register_factory(g, generic).aux = "typeinfo"
    <3>1. CASE generic
      <4>1. register_factory(g, generic) = [conv |-> "GENERIC", aux |-> aux_for_policy(g)]
        BY <3>1, Zenon DEF register_factory
      <4> QED BY <4>1, <2>1
    <3>2. CASE ~generic
      <4>1. register_factory(g, generic) = [conv |-> "CDECL_OBJLAST", aux |-> aux_for_policy(g)]
        BY <3>2, <1>2, Zenon DEF register_factory
      <4> QED BY <4>1, <2>1
    <3> QED BY <3>1, <3>2
  <2>4. list_factory(g, generic).aux = "typeinfo"
    <3>1. CASE generic
      <4>1. list_factory(g, generic) = [conv |-> "GENERIC", aux |-> aux_for_policy(g)]
        BY <3>1, Zenon DEF list_factory
      <4> QED BY <4>1, <2>1
    <3>2. CASE ~generic
      <4>1. list_factory(g, generic) = [conv |-> "CDECL_OBJLAST", aux |-> aux_for_policy(g)]
        BY <3>2, <1>2, Zenon DEF list_factory
      <4> QED BY <4>1, <2>1
    <3> QED BY <3>1, <3>2
  <2>5. Registration(g, generic).aux = "typeinfo"
    <3>1. CASE g.kind = "factory"
      <4>1. Registration(g, generic) = register_factory(g, generic)
        BY <3>1, Zenon DEF Registration
      <4> QED BY <4>1, <2>3
    <3>2. CASE g.kind = "list_factory"
      <4>1. g.kind # "factory" BY <3>2
      <4>2. Registration(g, generic) = list_factory(g, generic)
        BY <3>2, <4>1, Zenon DEF Registration
      <4> QED BY <4>2, <2>4
    <3> QED BY <3>1, <3>2, <2>2 DEF HandleKinds
  <2> QED BY <2>5, <1>2 DEF TypeInfoOf
<1> QED BY <1>1, <1>2

(* What is left of a function after its next step.                          *)
LEMMA Rests ==
  /\ Head(<<"new">>) = "new" /\ Tail(<<"new">>) = <<>>
  /\ Head(<<"new", "destroy_if_ex">>) = "new" /\ Tail(<<"new", "destroy_if_ex">>) = <<"destroy_if_ex">>
  /\ Head(<<"new", "delete_if_ex", "notify_gc">>) = "new"
  /\ Tail(<<"new", "delete_if_ex", "notify_gc">>) = <<"delete_if_ex", "notify_gc">>
  /\ Head(<<"new", "notify_gc_if_necessary">>) = "new"
  /\ Tail(<<"new", "notify_gc_if_necessary">>) = <<"notify_gc_if_necessary">>
  /\ Head(<<"destroy_if_ex">>) = "destroy_if_ex" /\ Tail(<<"destroy_if_ex">>) = <<>>
  /\ Head(<<"delete_if_ex", "notify_gc">>) = "delete_if_ex"
  /\ Tail(<<"delete_if_ex", "notify_gc">>) = <<"notify_gc">>
  /\ Head(<<"notify_gc">>) = "notify_gc" /\ Tail(<<"notify_gc">>) = <<>>
  /\ Head(<<"notify_gc_if_necessary">>) = "notify_gc_if_necessary"
  /\ Tail(<<"notify_gc_if_necessary">>) = <<>>
OBVIOUS

(* A function with steps to go is not at its end.                           *)
LEMMA NotEmpty ==
  /\ <<"new">> # <<>> /\ <<"new", "destroy_if_ex">> # <<>> /\ <<"delete_if_ex", "notify_gc">> # <<>>
  /\ <<"new", "delete_if_ex", "notify_gc">> # <<>>  /\ <<"new", "notify_gc_if_necessary">> # <<>>
OBVIOUS

(* Who is in the frame, before and after a step.                            *)
LEMMA FrameIs ==
  /\ \A o : o \in Frame <=> /\ call # NoCall /\ life[call.obj] = "live"
                            /\ call.obj \in Handled /\ o = call.obj
  /\ \A o : o \in Frame' <=> /\ call' # NoCall /\ life'[call'.obj] = "live"
                             /\ call'.obj \in Handled /\ o = call'.obj
BY DEF Frame

(* The absence of a call is not the creation of an object.                  *)
LEMMA NoCallIs ==
  /\ NoCall.obj = Null /\ NoCall.rest = <<>>
  /\ NoCall = Call(NoCall.obj, NoCall.g, NoCall.ti, NoCall.rest, NoCall.ex)
  /\ \A o \in Containers \cup Values : o # Null /\ o \in Objects
BY CollectionAssumption DEF NoCall, Call, Objects, Handled

(* The fields of a call that is given by them.                              *)
LEMMA CallFields ==
  ASSUME NEW o, NEW g, NEW ti, NEW rest, NEW ex, NEW c, c = Call(o, g, ti, rest, ex)
  PROVE  c.obj = o /\ c.g = g /\ c.ti = ti /\ c.rest = rest /\ c.ex = ex
BY DEF Call

(* What the function does next tells how far it has come.                   *)
LEMMA Stage ==
  ASSUME Inv
  PROVE  /\ NextStep("new") => Creating /\ Unmade
         /\ NextStep("destroy_if_ex") =>
              Creating /\ MadeValue /\ call.rest = <<"destroy_if_ex">>
         /\ NextStep("delete_if_ex") =>
              Creating /\ MadeHandle /\ call.rest = <<"delete_if_ex", "notify_gc">>
         /\ NextStep("notify_gc") =>
              Creating /\ MadeHandle /\ call.rest = <<"notify_gc">>
         /\ NextStep("notify_gc_if_necessary") =>
              Creating /\ MadeHandle /\ call.rest = <<"notify_gc_if_necessary">>
         /\ call # NoCall /\ call.rest = <<>> => Creating /\ (MadeValue \/ MadeHandle)
<1>1. CASE call = NoCall BY <1>1, NoCallIs DEF NextStep
<1>2. CASE call # NoCall
  <2>1. Creating /\ (Unmade \/ MadeValue \/ MadeHandle) BY <1>2 DEF Inv, CallInv
  <2>2. CASE Unmade
    <3>1. /\ call.g \in Creations
          /\ call.g.kind \in ValueKinds \cup HandleKinds /\ call.g.notify \in BOOLEAN
      BY <2>1 DEF Creating, Creations
    <3>2. Steps(call.g) \in {<<"new">>, <<"new", "destroy_if_ex">>,
                             <<"new", "delete_if_ex", "notify_gc">>,
                             <<"new", "notify_gc_if_necessary">>}
      BY <3>1, StepsAre DEF ValueKinds, HandleKinds
    <3>3. call.rest # <<>> /\ Head(call.rest) = "new"
      BY <2>2, <3>2, Rests, NotEmpty DEF Unmade
    <3> QED BY <2>1, <2>2, <3>3 DEF NextStep
  <2>3. CASE MadeValue
    <3>1. call.rest \in {<<"destroy_if_ex">>, <<>>} BY <2>3 DEF MadeValue
    <3> QED BY <2>1, <2>3, <3>1, Rests DEF NextStep
  <2>4. CASE MadeHandle
    <3>1. call.rest \in {<<>>, <<"delete_if_ex", "notify_gc">>, <<"notify_gc">>,
                         <<"notify_gc_if_necessary">>}
      BY <2>4 DEF MadeHandle
    <3> QED BY <2>1, <2>4, <3>1, Rests DEF NextStep
  <2> QED BY <2>1, <2>2, <2>3, <2>4
<1> QED BY <1>1, <1>2

(* What does not live has no references.                                    *)
LEMMA NotLive ==
  ASSUME Inv, NEW o \in Handled, life[o] # "live"
  PROVE  /\ Ext[o] = 0 /\ V(o) = 0 /\ o \notin known /\ rc[o] = 0
         /\ data[o] = Null /\ \A q \in Handled : data[q] # o
         /\ Count(Handled, data, o) = 0
<1>1. HeapType(heap) /\ Balanced(heap, Ext) /\ LiveOnly(heap, Ext) BY DEF Inv, HeapOK
<1>2. Ext[o] = V(o) + Bit(o \in known) /\ Ext[o] \in Nat /\ V(o) \in Nat BY ExtIs, VIs
<1>3. Ext[o] = 0 BY <1>1, <1>2, HeapIs DEF LiveOnly
<1>4. V(o) = 0 /\ o \notin known BY <1>2, <1>3 DEF Bit
<1>5. data[o] = Null /\ \A q \in Handled : data[q] # o
  BY <1>1, HeapIs, NullIsNoObject DEF LiveOnly
<1>6. Count(Handled, data, o) = 0 BY <1>5, Finite, CountIsNat
<1>7. rc[o] = Ext[o] + Count(Handled, data, o) BY <1>1, HeapIs DEF Balanced
<1> QED BY <1>3, <1>4, <1>5, <1>6, <1>7

(* An object comes to life, with as many references as it is given.         *)
LEMMA BornGood ==
  ASSUME Inv, NEW o \in Handled, life[o] # "live", NEW m \in [Handled -> Nat],
         \A p \in Handled : p # o => m[p] = Ext[p],
         life' = [life EXCEPT ![o] = "live"], rc' \in [Handled -> Int],
         \A p \in Handled : rc'[p] = IF p = o THEN m[o] ELSE rc[p],
         flag' = flag, data' = data
  PROVE  HeapOK(heap', m)
<1>1. /\ HeapType(heap) /\ Balanced(heap, Ext) /\ LiveOnly(heap, Ext)
      /\ life \in [Objects -> Lives] /\ o \in Objects
  BY HeapIs, NullIsNoObject DEF Inv, HeapOK, HeapType
<1>2. data[o] = Null /\ Count(Handled, data, o) = 0 BY NotLive
<1>3. life' \in [Objects -> Lives] /\ life'[o] = "live"
      /\ \A p \in Objects : p # o => life'[p] = life[p]
  BY <1>1 DEF Lives
<1>4. HeapType(heap')
  <2>1. heap' = Heap(life', rc', flag', data') BY DEF heap, Heap
  <2> QED BY <2>1, <1>1, <1>3, HeapIs DEF HeapType
<1>5. Balanced(heap', m)
  <2> SUFFICES ASSUME NEW p \in Handled PROVE rc'[p] = m[p] + Count(Handled, data, p)
    BY HeapIs DEF Balanced
  <2>1. CASE p = o BY <2>1, <1>2
  <2>2. CASE p # o BY <2>2, <1>1, HeapIs DEF Balanced
  <2> QED BY <2>1, <2>2
<1>6. LiveOnly(heap', m)
  <2>1. \A p \in Handled : m[p] > 0 => life'[p] = "live"
    BY <1>1, <1>3, HeapIs, NullIsNoObject DEF LiveOnly
  <2>2. ASSUME NEW p \in Handled, data[p] # Null
        PROVE  life'[p] = "live" /\ life'[data[p]] = "live"
    <3>1. life[p] = "live" /\ life[data[p]] = "live" BY <2>2, <1>1, HeapIs DEF LiveOnly
    <3>2. p \in Objects /\ data[p] \in Objects
      BY <2>2, <1>1, HeapIs, NullIsNoObject DEF HeapType
    <3> QED BY <3>1, <3>2, <1>3
  <2> QED BY <2>1, <2>2, HeapIs DEF LiveOnly
<1> QED BY <1>4, <1>5, <1>6 DEF HeapOK

(* A value is made or destroyed.                                            *)
LEMMA ValueGood ==
  ASSUME Inv, NEW v \in Values, NEW l \in Lives, life' = [life EXCEPT ![v] = l],
         rc' = rc, flag' = flag, data' = data
  PROVE  HeapOK(heap', Ext)
<1>1. HeapType(heap) /\ Balanced(heap, Ext) /\ LiveOnly(heap, Ext) /\ Ext \in [Handled -> Nat]
      /\ life \in [Objects -> Lives]
  BY HeapIs DEF Inv, HeapOK, HeapType
<1>2. \A p \in Handled : p # v /\ p \in Objects
  BY CollectionAssumption, NullIsNoObject DEF Handled
<1>3. life' \in [Objects -> Lives] /\ \A p \in Handled : life'[p] = life[p]
  BY <1>1, <1>2
<1>4. HeapType(heap')
  <2>1. heap' = Heap(life', rc', flag', data') BY DEF heap, Heap
  <2> QED BY <2>1, <1>1, <1>3, HeapIs DEF HeapType
<1>5. Balanced(heap', Ext) BY <1>1, HeapIs DEF Balanced
<1>6. LiveOnly(heap', Ext)
  <2>1. \A p \in Handled : data[p] # Null => data[p] \in Handled BY <1>1, HeapIs DEF HeapType
  <2> QED BY <2>1, <1>1, <1>3, HeapIs DEF LiveOnly
<1> QED BY <1>1, <1>4, <1>5, <1>6 DEF HeapOK

(* The collector need not notice a step that touches no handles.            *)
LEMMA TameSame ==
  ASSUME \A o \in known : V(o)' <= V(o), flag' = flag, data' = data
  PROVE  Tame
BY DEF Tame, TameAt, In

(* References from outside when the function that creates begins or ends.   *)
LEMMA VFrame ==
  ASSUME NEW p
  PROVE  /\ var' = var => V(p)' = V(p) - Bit(p \in Frame) + Bit(p \in Frame')
         /\ \A x \in Vars : \A n : TypeInv /\ ReplacedAt(var, x, n, var') =>
              V(p)' = V(p) - Bit(p \in Frame) + Bit(p \in Frame') - Bit(var[x] = p) + Bit(n = p)
<1>1. PICK a, b, c, d : /\ a = Count(Vars, var, p) /\ b = Count(Vars, var', p)
                        /\ c = Bit(p \in Frame) /\ d = Bit(p \in Frame')
  OBVIOUS
<1>2. a \in Nat /\ b \in Nat BY <1>1, Finite, CountIsNat
<1>3. c \in Nat /\ d \in Nat BY <1>1 DEF Bit
<1>4. V(p) = a + c /\ V(p)' = b + d BY <1>1 DEF V, Count
<1>5. var' = var => V(p)' = V(p) - c + d BY <1>1, <1>2, <1>3, <1>4
<1>6. ASSUME NEW x \in Vars, NEW n, TypeInv, ReplacedAt(var, x, n, var')
      PROVE  V(p)' = V(p) - c + d - Bit(var[x] = p) + Bit(n = p)
  <2>1. DOMAIN var = Vars BY <1>6 DEF TypeInv
  <2>2. Count(Vars, var', p) = Count(Vars, var, p) - Bit(var[x] = p) + Bit(n = p)
    BY <2>1, <1>6, Finite, CountReplaced
  <2>3. Bit(var[x] = p) \in Nat /\ Bit(n = p) \in Nat BY DEF Bit
  <2> QED BY <2>2, <2>3, <1>1, <1>2, <1>3, <1>4
<1> QED BY <1>1, <1>5, <1>6

(* The collector has been told when only o has changed.                     *)
LEMMA ToldKept ==
  ASSUME CollectorIsTold, NEW o,
         \A c \in Containers : c # o =>
           /\ life'[c] = life[c] /\ gcType'[c] = gcType[c]
           /\ c \in known' <=> c \in known
           /\ c \notin Frame /\ c \notin Frame',
         o \in Containers /\ life'[o] = "live" /\ o \notin Frame' =>
           (o \in known' <=> gcType'[o])
  PROVE  CollectorIsTold'
BY DEF CollectorIsTold

(* What happens to a value concerns neither counters nor the collector.     *)
LEMMA ValueKeeps ==
  ASSUME Inv, NEW v \in Values, NEW l \in Lives, life' = [life EXCEPT ![v] = l],
         rc' = rc, UNCHANGED <<flag, data, gcType, var, known, gc>>,
         Frame = {}, Frame' = {}
  PROVE  HeapOK(heap', Ext') /\ GcInv' /\ CollectorIsTold'
<1>1. \A p : V(p)' = V(p) /\ V(p) \in Nat BY VSame, VIs
<1>2. HeapOK(heap', Ext')
  <2>1. Ext' = Ext BY ExtSame
  <2> QED BY <2>1, ValueGood
<1>3. GcInv'
  <2>1. \A o \in known : V(o)' <= V(o) BY <1>1
  <2>2. Tame BY <2>1, TameSame
  <2> QED BY <2>2, TameKeepsGcInv DEF Inv
<1>4. CollectorIsTold'
  <2>1. life \in [Objects -> Lives] BY HeapIs DEF Inv, HeapOK, HeapType
  <2>2. \A c \in Containers : c \in Objects /\ c # v
    BY CollectionAssumption DEF Objects, Handled
  <2>3. \A c \in Containers : life'[c] = life[c] BY <2>1, <2>2
  <2> QED BY <2>3 DEF Inv, CollectorIsTold
<1> QED BY <1>2, <1>3, <1>4

(* A value of a script that ends.                                           *)
LEMMA LeaveValueKeepsInv ==
  ASSUME Inv, NEW v \in Values, LeaveValue(v)
  PROVE  Inv'
<1>1. /\ call = NoCall /\ v \in owned /\ life' = [life EXCEPT ![v] = Dying(@)]
      /\ owned' = owned \ {v}
      /\ UNCHANGED <<rc, flag, data, gcType, var, call, lost, known, gc>>
  BY DEF LeaveValue
<1>2. life[v] = "live" BY <1>1 DEF Inv, OwnedLive
<1>3. life' = [life EXCEPT ![v] = "dead"] BY <1>1, <1>2 DEF Dying
<1>4. Frame = {} /\ Frame' = {} BY <1>1, NoFrame
<1>5. HeapOK(heap', Ext') /\ GcInv' /\ CollectorIsTold'
  <2>1. "dead" \in Lives BY DEF Lives
  <2> QED BY <2>1, <1>1, <1>3, <1>4, ValueKeeps
<1>6. TypeInv' BY <1>1 DEF Inv, TypeInv
<1>7. CallInv' BY <1>1 DEF CallInv
<1>8. OwnedLive'
  <2>1. life \in [Objects -> Lives] /\ owned \subseteq Objects
    BY HeapIs DEF Inv, HeapOK, HeapType, TypeInv, Objects
  <2> QED BY <2>1, <1>1, <1>3 DEF Inv, OwnedLive
<1>9. FailedAreDestroyed' BY <1>1 DEF Inv, FailedAreDestroyed
<1> QED BY <1>5, <1>6, <1>7, <1>8, <1>9 DEF Inv

(* A script object is created: the collector and a variable refer to it.    *)
LEMMA CreateScriptObjectKeepsInv ==
  ASSUME Inv, NEW o \in Scripts, CreateScriptObject(o)
  PROVE  Inv'
<1>1. /\ call = NoCall /\ life[o] # "live" /\ o \in Handled
      /\ known' = known \cup {o} /\ life' = [life EXCEPT ![o] = "live"]
      /\ rc' = [rc EXCEPT ![o] = 2]
      /\ UNCHANGED <<flag, data, gcType, owned, call, lost, gc>>
  BY DEF CreateScriptObject, Handled
<1>2. /\ TypeInv /\ Ext \in [Handled -> Nat] /\ rc \in [Handled -> Int]
      /\ life \in [Objects -> Lives]
  BY HeapIs DEF Inv, HeapOK, HeapType
<1>3. PICK x \in Vars : var[x] = Null /\ var' = [var EXCEPT ![x] = o]
  BY DEF CreateScriptObject
<1>4. Ext[o] = 0 /\ V(o) = 0 /\ o \notin known BY <1>1, NotLive
<1>5. Frame = {} /\ Frame' = {} BY <1>1, NoFrame
<1>6. ASSUME NEW p \in Handled
      PROVE  V(p)' = V(p) + Bit(o = p) /\ V(p) \in Nat
  <2>1. ReplacedAt(var, x, o, var') BY <1>3 DEF ReplacedAt
  <2>2. V(p)' = V(p) - Bit(var[x] = p) + Bit(o = p) BY <1>2, <1>5, <2>1, VarReplaced
  <2>3. V(p) \in Nat BY VIs
  <2>4. Bit(var[x] = p) = 0 BY <1>3, NullIsNoObject DEF Bit
  <2> QED BY <2>2, <2>3, <2>4 DEF Bit
<1>7. Ext'[o] = 2 /\ \A p \in Handled : p # o => Ext'[p] = Ext[p]
  <2>1. V(o)' = 1 BY <1>1, <1>4, <1>6 DEF Bit
  <2>2. Ext'[o] = V(o)' + Bit(o \in known') BY <1>1, ExtIs
  <2>3. Ext'[o] = 2 BY <2>1, <2>2, <1>1 DEF Bit
  <2>4. ASSUME NEW p \in Handled, p # o PROVE Ext'[p] = Ext[p]
    <3>1. V(p)' = V(p) BY <2>4, <1>6 DEF Bit
    <3>2. p \in known' <=> p \in known BY <2>4, <1>1
    <3> QED BY <3>1, <3>2, ExtIs
  <2> QED BY <2>3, <2>4
<1>8. HeapOK(heap', Ext')
  <2>1. rc' \in [Handled -> Int] /\ \A p \in Handled : rc'[p] = IF p = o THEN Ext'[o] ELSE rc[p]
    BY <1>1, <1>2, <1>7
  <2>2. Ext' \in [Handled -> Nat] BY ExtIs
  <2> QED BY <2>1, <2>2, <1>1, <1>7, BornGood
<1>9. Tame
  <2>1. \A p \in known : p \in Handled /\ p # o BY <1>2, <1>4 DEF TypeInv
  <2>2. \A p \in known : V(p)' <= V(p) BY <2>1, <1>6 DEF Bit
  <2> QED BY <2>2, <1>1, TameSame
<1>10. GcInv' BY <1>1, <1>9, TameKeepsGcInv DEF Inv
<1>11. TypeInv' BY <1>1, <1>2, <1>3 DEF TypeInv
<1>12. CallInv' BY <1>1 DEF CallInv
<1>13. CollectorIsTold'
  <2>1. \A c \in Containers : c # o /\ c \in Objects
    BY CollectionAssumption DEF Objects, Handled
  <2>2. \A c \in Containers : life'[c] = life[c] BY <2>1, <1>1, <1>2
  <2> QED BY <2>1, <2>2, <1>1, <1>5 DEF Inv, CollectorIsTold
<1>14. OwnedLive'
  <2>1. \A v \in owned : v # o /\ v \in Objects
    BY CollectionAssumption DEF Inv, TypeInv, Objects, Handled
  <2> QED BY <2>1, <1>1, <1>2 DEF Inv, OwnedLive
<1>15. FailedAreDestroyed' BY <1>1 DEF Inv, FailedAreDestroyed
<1> QED BY <1>8, <1>10, <1>11, <1>12, <1>13, <1>14, <1>15 DEF Inv

(* A generated function is called.                                          *)
LEMMA BeginKeepsInv ==
  ASSUME Inv, NEW g \in Creations, NEW o \in Containers \cup Values, Begin(g, o)
  PROVE  Inv'
<1>1. /\ call = NoCall /\ life[o] = "unborn" /\ (o \in Values) = (g.kind \in ValueKinds)
      /\ UNCHANGED <<life, rc, flag, data, var, owned, lost, known, gc>>
  BY DEF Begin
<1>2. PICK generic \in BOOLEAN : call' = Call(o, g, TypeInfoOf(g, generic), Steps(g), FALSE)
  BY DEF Begin, Call
<1>3. /\ call'.obj = o /\ call'.g = g /\ call'.rest = Steps(g)
      /\ call'.ti = TypeInfoOf(g, generic) /\ call'.ex = FALSE
      /\ call' = Call(call'.obj, call'.g, call'.ti, call'.rest, call'.ex)
  <2>1. PICK c, ti, rest, ex : /\ c = call' /\ ti = TypeInfoOf(g, generic)
                               /\ rest = Steps(g) /\ ex = FALSE
    OBVIOUS
  <2>2. c = Call(o, g, ti, rest, ex) BY <1>2, <2>1
  <2>3. c.obj = o /\ c.g = g /\ c.ti = ti /\ c.rest = rest /\ c.ex = ex
    BY <2>2, CallFields
  <2> QED BY <2>1, <2>2, <2>3
<1>4. Frame = {} /\ Frame' = {} BY <1>1, <1>3, FrameIs
<1>5. TypeInv BY DEF Inv
<1>6. o \in Values => o \notin Containers BY CollectionAssumption
<1>7. /\ gcType' \in [Containers -> BOOLEAN]
      /\ \A c \in Containers : c # o => gcType'[c] = gcType[c]
      /\ o \in Containers => /\ ~g.notify => ~gcType'[o]
                             /\ g.notify /\ ~g.template => gcType'[o]
  <2>1. CASE o \in Values
    <3>1. gcType' = gcType BY <2>1 DEF Begin
    <3> QED BY <3>1, <2>1, <1>5, <1>6 DEF TypeInv
  <2>2. CASE o \in Containers
    <3>1. PICK collected \in BOOLEAN :
            /\ ~g.notify => ~collected
            /\ g.notify /\ ~g.template => collected
            /\ gcType' = [gcType EXCEPT ![o] = collected]
      BY <2>2 DEF Begin
    <3> QED BY <3>1, <2>2, <1>5 DEF TypeInv
  <2> QED BY <2>1, <2>2
<1>8. TypeInv' BY <1>1, <1>3, <1>5, <1>7 DEF TypeInv
<1>9. Creating'
  <2>1. o \notin owned BY <1>1 DEF Inv, OwnedLive
  <2>2. g.notify => TypeInfoOf(g, generic) = "typeinfo" BY TypeInfoIs
  <2> QED BY <2>1, <2>2, <1>1, <1>3, <1>7 DEF Creating
<1>10. Unmade' BY <1>1, <1>3 DEF Unmade
<1>11. HeapOK(heap', Ext') /\ GcInv'
  <2>1. heap' = heap BY <1>1 DEF heap
  <2>2. Ext' = Ext BY <1>1, <1>4, ExtSame
  <2>3. \A p : V(p)' = V(p) /\ V(p) \in Nat BY <1>1, <1>4, VSame, VIs
  <2>4. \A p \in known : V(p)' <= V(p) BY <2>3
  <2>5. Tame BY <2>4, <1>1, TameSame
  <2> QED BY <2>1, <2>2, <2>5, <1>1, TameKeepsGcInv DEF Inv
<1>12. CollectorIsTold'
  <2>1. life'[o] # "live" BY <1>1
  <2> QED BY <2>1, <1>1, <1>4, <1>7, ToldKept DEF Inv
<1>13. OwnedLive' /\ FailedAreDestroyed' BY <1>1 DEF Inv, OwnedLive, FailedAreDestroyed
<1> QED BY <1>8, <1>9, <1>10, <1>11, <1>12, <1>13 DEF Inv, CallInv

(* The function goes on, with what is left of it.                           *)
Goes(rest, ex) ==
  /\ call'.obj = call.obj /\ call'.g = call.g /\ call'.ti = call.ti
  /\ call'.rest = rest /\ call'.ex = ex
  /\ call' = Call(call'.obj, call'.g, call'.ti, call'.rest, call'.ex)
  /\ call # NoCall /\ call' # NoCall

(* The next step of a function is done.                                     *)
LEMMA CallGoes ==
  ASSUME TypeInv, Creating
  PROVE  /\ Done => Goes(Tail(call.rest), call.ex)
         /\ \A ex : call' = [call EXCEPT !.rest = Tail(@), !.ex = ex] =>
              Goes(Tail(call.rest), ex)
<1>1. PICK c, o, g, ti, rest, e, t :
        /\ c = call /\ o = c.obj /\ g = c.g /\ ti = c.ti /\ rest = c.rest /\ e = c.ex
        /\ t = Tail(rest)
  OBVIOUS
<1>2. c = Call(o, g, ti, rest, e) BY <1>1 DEF TypeInv
<1>3. o # Null BY <1>1, NoCallIs DEF Creating
<1>4. [c EXCEPT !.rest = t] = Call(o, g, ti, t, e) BY <1>2 DEF Call
<1>5. ASSUME NEW ex PROVE [c EXCEPT !.rest = t, !.ex = ex] = Call(o, g, ti, t, ex)
  <2>1. [c EXCEPT !.rest = t, !.ex = ex] = [Call(o, g, ti, t, e) EXCEPT !.ex = ex] BY <1>4
  <2>2. [Call(o, g, ti, t, e) EXCEPT !.ex = ex] = Call(o, g, ti, t, ex) BY DEF Call
  <2> QED BY <2>1, <2>2
<1>6. ASSUME NEW ex, NEW d, d = Call(o, g, ti, t, ex), call' = d
      PROVE  Goes(t, ex)
  <2>1. d.obj = o /\ d.g = g /\ d.ti = ti /\ d.rest = t /\ d.ex = ex BY <1>6, CallFields
  <2>2. d # NoCall /\ c # NoCall BY <2>1, <1>1, <1>3, NoCallIs
  <2> QED BY <2>1, <2>2, <1>1, <1>6 DEF Goes
<1>7. Done => call' = Call(o, g, ti, t, e) BY <1>1, <1>4 DEF Done
<1>8. ASSUME NEW ex, call' = [call EXCEPT !.rest = Tail(@), !.ex = ex]
      PROVE  call' = Call(o, g, ti, t, ex)
  BY <1>1, <1>5, <1>8
<1> QED BY <1>1, <1>6, <1>7, <1>8

(* Who is created is still who was.                                         *)
LEMMA StillCreating ==
  ASSUME Creating, NEW rest, NEW ex, Goes(rest, ex), owned' = owned, gcType' = gcType
  PROVE  Creating'
BY DEF Creating, Goes

(* The kinds of functions that create handles, and those that do not.       *)
LEMMA KindOf ==
  ASSUME Creating
  PROVE  /\ call.obj \in Values =>
              /\ call.obj \notin Handled
              /\ call.g.kind \in {"constructor", "array_constructor", "array_copy",
                                  "list_constructor", "ctor_fn"}
         /\ call.obj \notin Values =>
              call.obj \in Containers /\ call.g.kind \in {"factory", "list_factory"}
         /\ call.obj \in Objects /\ call.obj # Null /\ call.g.notify \in BOOLEAN
<1>1. call.g.kind \in ValueKinds \cup HandleKinds /\ call.g.notify \in BOOLEAN
  BY DEF Creating, Creations
<1>2. call.obj \in Values => call.obj \notin Handled BY CollectionAssumption DEF Handled
<1> QED BY <1>1, <1>2, NoCallIs DEF Creating, ValueKinds, HandleKinds

(* The object is constructed.                                               *)
LEMMA NewKeepsInv ==
  ASSUME Inv, New
  PROVE  Inv'
<1>1. PICK o : o = call.obj OBVIOUS
<1>2. /\ NextStep("new") /\ life' = [life EXCEPT ![o] = "live"]
      /\ rc' = [p \in Handled |-> IF p = o THEN 1 ELSE rc[p]]
      /\ UNCHANGED <<flag, data, gcType, var, owned, lost, known, gc>>
  BY <1>1 DEF New
<1>3. Creating /\ Unmade BY <1>2, Stage
<1>4. /\ TypeInv /\ rc \in [Handled -> Int] /\ life \in [Objects -> Lives]
      /\ Ext \in [Handled -> Nat]
  BY HeapIs DEF Inv, HeapOK, HeapType
<1>5. PICK ex \in BOOLEAN : Goes(Tail(Steps(call.g)), ex)
  BY <1>3, <1>4, CallGoes DEF New, Unmade
<1>6. life[o] = "unborn" /\ life'[o] = "live" BY <1>1, <1>2, <1>3, <1>4, KindOf DEF Unmade
<1>7. Frame = {} BY <1>1, <1>6, FrameIs
<1>8. TypeInv' BY <1>2, <1>4, <1>5 DEF TypeInv, Goes
<1>9. Creating' BY <1>2, <1>3, <1>5, StillCreating
<1>10. OwnedLive'
  <2>1. o \notin owned /\ owned \subseteq Objects BY <1>1, <1>3, <1>4 DEF Creating, TypeInv, Objects
  <2> QED BY <2>1, <1>2, <1>4 DEF Inv, OwnedLive
<1>11. FailedAreDestroyed' BY <1>2 DEF Inv, FailedAreDestroyed
<1>12. CASE o \in Values
  <2>1. o \notin Handled BY <1>1, <1>3, <1>12, KindOf
  <2>2. rc' = rc BY <2>1, <1>2, <1>4
  <2>3. Frame' = {} BY <2>1, <1>1, <1>5, FrameIs DEF Goes
  <2>4. HeapOK(heap', Ext') /\ GcInv' /\ CollectorIsTold'
    <3>1. "live" \in Lives BY DEF Lives
    <3> QED BY <3>1, <2>2, <2>3, <1>2, <1>7, <1>12, ValueKeeps
  <2>5. MadeValue'
    <3>1. \/ Tail(Steps(call.g)) = <<"destroy_if_ex">>
          \/ /\ Tail(Steps(call.g)) = <<>>
             /\ call.g.kind \in {"list_constructor", "ctor_fn"}
      <4>1. call.g \in Creations BY <1>3 DEF Creating
      <4>2. call.g.kind \in {"constructor", "array_constructor", "array_copy",
                             "list_constructor", "ctor_fn"}
        BY <1>1, <1>3, <1>12, KindOf
      <4> QED BY <4>1, <4>2, StepsAre, Rests
    <3> QED BY <3>1, <1>1, <1>5, <1>6, <1>12 DEF MadeValue, Goes
  <2> QED BY <2>4, <2>5, <1>8, <1>9, <1>10, <1>11 DEF Inv, CallInv
<1>13. CASE o \notin Values
  <2>1. o \in Containers /\ o \in Handled BY <1>1, <1>3, <1>13, KindOf DEF Handled
  <2>2. /\ Ext[o] = 0 /\ V(o) = 0 /\ o \notin known /\ data[o] = Null
        /\ \A q \in Handled : data[q] # o
    BY <2>1, <1>6, NotLive
  <2>3. Frame' = {o}
    <3>1. call'.obj = o /\ call' # NoCall BY <1>1, <1>5 DEF Goes
    <3> QED BY <3>1, <2>1, <1>6, FrameIs
  <2>4. ASSUME NEW p PROVE V(p)' = V(p) + Bit(p = o) /\ V(p) \in Nat
    <3>1. V(p)' = V(p) - Bit(p \in Frame) + Bit(p \in Frame') BY <1>2, VFrame
    <3>2. Bit(p \in Frame) = 0 /\ Bit(p \in Frame') = Bit(p = o) BY <2>3, <1>7 DEF Bit
    <3>3. V(p) \in Nat BY VIs
    <3> QED BY <3>1, <3>2, <3>3 DEF Bit
  <2>5. Ext'[o] = 1 /\ \A p \in Handled : p # o => Ext'[p] = Ext[p]
    <3>1. V(o)' = 1 BY <2>2, <2>4 DEF Bit
    <3>2. Ext'[o] = V(o)' + Bit(o \in known') BY <2>1, ExtIs
    <3>3. Ext'[o] = 1 BY <3>1, <3>2, <2>2, <1>2 DEF Bit
    <3>4. ASSUME NEW p \in Handled, p # o PROVE Ext'[p] = Ext[p]
      <4>1. V(p)' = V(p) BY <3>4, <2>4 DEF Bit
      <4> QED BY <4>1, <1>2, ExtIs
    <3> QED BY <3>3, <3>4
  <2>6. HeapOK(heap', Ext')
    <3>1. rc' \in [Handled -> Int] /\ \A p \in Handled : rc'[p] = IF p = o THEN Ext'[o] ELSE rc[p]
      BY <1>2, <1>4, <2>5
    <3>2. Ext' \in [Handled -> Nat] BY ExtIs
    <3> QED BY <3>1, <3>2, <2>1, <2>5, <1>2, <1>6, BornGood
  <2>7. GcInv'
    <3>1. \A p \in known : p # o BY <2>2
    <3>2. \A p \in known : V(p)' <= V(p) BY <3>1, <2>4 DEF Bit
    <3>3. Tame BY <3>2, <1>2, TameSame
    <3> QED BY <3>3, <1>2, <1>4, TameKeepsGcInv DEF Inv
  <2>8. CollectorIsTold'
    <3>1. \A c \in Containers : c \in Objects BY DEF Objects, Handled
    <3>2. \A c \in Containers : c # o => life'[c] = life[c] BY <3>1, <1>2, <1>4
    <3> QED BY <3>2, <2>3, <1>2, <1>7, ToldKept DEF Inv
  <2>9. MadeHandle'
    <3>1. call.g \in Creations /\ call.g.notify \in BOOLEAN /\ call.g.kind \in {"factory", "list_factory"}
      BY <1>1, <1>3, <1>13, KindOf DEF Creating
    <3>2. \/ call.g.notify /\ Tail(Steps(call.g)) \in {<<"delete_if_ex", "notify_gc">>,
                                                      <<"notify_gc_if_necessary">>}
          \/ ~call.g.notify /\ Tail(Steps(call.g)) = <<>>
      BY <3>1, StepsAre, Rests, KindsDiffer
    <3>3. ~call.g.notify => ~gcType[o] BY <1>1, <1>3, <2>1 DEF Creating
    <3>4. \A x \in Vars : var[x] # o BY <2>2, VIs
    <3> QED BY <3>2, <3>3, <3>4, <2>1, <2>2, <1>1, <1>2, <1>5, <1>6 DEF MadeHandle, Goes
  <2> QED BY <2>6, <2>7, <2>8, <2>9, <1>8, <1>9, <1>10, <1>11 DEF Inv, CallInv
<1> QED BY <1>12, <1>13

(* The guard of a constructor ends.                                         *)
LEMMA DestroyIfExKeepsInv ==
  ASSUME Inv, destroy_if_ex
  PROVE  Inv'
<1>1. PICK o : o = call.obj OBVIOUS
<1>2. /\ NextStep("destroy_if_ex") /\ Done
      /\ life' = IF call.ex THEN [life EXCEPT ![o] = Dying(@)] ELSE life
      /\ UNCHANGED <<rc, flag, data, gcType, var, owned, lost, known, gc>>
  BY <1>1 DEF destroy_if_ex
<1>3. Creating /\ MadeValue /\ call.rest = <<"destroy_if_ex">> BY <1>2, Stage
<1>4. TypeInv /\ life \in [Objects -> Lives] BY HeapIs DEF Inv, HeapOK, HeapType
<1>5. Goes(<<>>, call.ex)
  <2>1. Goes(Tail(call.rest), call.ex) BY <1>2, <1>3, <1>4, CallGoes
  <2> QED BY <2>1, <1>3, Rests
<1>6. o \in Values /\ o \in Objects /\ o \notin Handled /\ o \notin owned
  BY <1>1, <1>3, KindOf DEF MadeValue, Creating
<1>7. life[o] = "live" BY <1>1, <1>3, Rests DEF MadeValue
<1>8. PICK l \in Lives : life' = [life EXCEPT ![o] = l] /\ (call.ex => l = "dead")
                         /\ (~call.ex => l = "live")
  <2>1. CASE call.ex
    <3>1. life' = [life EXCEPT ![o] = "dead"] BY <2>1, <1>2, <1>7 DEF Dying
    <3> QED BY <3>1, <2>1 DEF Lives
  <2>2. CASE ~call.ex
    <3>1. life' = [life EXCEPT ![o] = "live"] BY <2>2, <1>2, <1>4, <1>6, <1>7
    <3> QED BY <3>1, <2>2 DEF Lives
  <2> QED BY <2>1, <2>2
<1>9. Frame = {} /\ Frame' = {} BY <1>1, <1>5, <1>6, FrameIs DEF Goes
<1>10. HeapOK(heap', Ext') /\ GcInv' /\ CollectorIsTold' BY <1>2, <1>6, <1>8, <1>9, ValueKeeps
<1>11. TypeInv' BY <1>2, <1>4, <1>5 DEF TypeInv, Goes
<1>12. Creating' BY <1>2, <1>3, <1>5, StillCreating
<1>13. MadeValue'
  <2>1. life'[o] = l BY <1>4, <1>6, <1>8
  <2> QED BY <2>1, <1>1, <1>5, <1>6, <1>8 DEF MadeValue, Goes
<1>14. OwnedLive'
  <2>1. owned \subseteq Objects BY <1>4 DEF TypeInv, Objects
  <2> QED BY <2>1, <1>2, <1>4, <1>6, <1>8 DEF Inv, OwnedLive
<1>15. FailedAreDestroyed' BY <1>2 DEF Inv, FailedAreDestroyed
<1> QED BY <1>10, <1>11, <1>12, <1>13, <1>14, <1>15 DEF Inv, CallInv

(* A factory fails: nobody refers to what it deletes.                       *)
LEMMA DeletedGood ==
  ASSUME Inv, NEW o \in Handled, data[o] = Null, \A q \in Handled : data[q] # o,
         life' = [life EXCEPT ![o] = "dead"], rc' = [rc EXCEPT ![o] = 0],
         flag' = flag, data' = data,
         NEW m \in [Handled -> Nat], m[o] = 0, \A p \in Handled : p # o => m[p] = Ext[p]
  PROVE  HeapOK(heap', m)
<1>1. /\ HeapType(heap) /\ Balanced(heap, Ext) /\ LiveOnly(heap, Ext)
      /\ life \in [Objects -> Lives] /\ rc \in [Handled -> Int] /\ o \in Objects
  BY HeapIs, NullIsNoObject DEF Inv, HeapOK, HeapType
<1>2. Count(Handled, data, o) = 0 BY Finite, CountIsNat
<1>3. /\ life' \in [Objects -> Lives] /\ rc' \in [Handled -> Int] /\ rc'[o] = 0
      /\ \A p \in Objects : p # o => life'[p] = life[p]
      /\ \A p \in Handled : p # o => rc'[p] = rc[p]
  BY <1>1 DEF Lives
<1>4. HeapType(heap')
  <2>1. heap' = Heap(life', rc', flag', data') BY DEF heap, Heap
  <2> QED BY <2>1, <1>1, <1>3, HeapIs DEF HeapType
<1>5. Balanced(heap', m)
  <2> SUFFICES ASSUME NEW p \in Handled PROVE rc'[p] = m[p] + Count(Handled, data, p)
    BY HeapIs DEF Balanced
  <2>1. CASE p = o BY <2>1, <1>2, <1>3
  <2>2. CASE p # o BY <2>2, <1>1, <1>3, HeapIs DEF Balanced
  <2> QED BY <2>1, <2>2
<1>6. LiveOnly(heap', m)
  <2>1. \A p \in Handled : m[p] > 0 => life'[p] = "live"
    BY <1>1, <1>3, HeapIs, NullIsNoObject DEF LiveOnly
  <2>2. ASSUME NEW p \in Handled, data[p] # Null
        PROVE  life'[p] = "live" /\ life'[data[p]] = "live"
    <3>1. life[p] = "live" /\ life[data[p]] = "live" BY <2>2, <1>1, HeapIs DEF LiveOnly
    <3>2. p \in Objects /\ data[p] \in Objects
      BY <2>2, <1>1, HeapIs, NullIsNoObject DEF HeapType
    <3>3. p # o /\ data[p] # o BY <2>2
    <3> QED BY <3>1, <3>2, <3>3, <1>3
  <2> QED BY <2>1, <2>2, HeapIs DEF LiveOnly
<1> QED BY <1>4, <1>5, <1>6 DEF HeapOK

(* An object that its factory has made is in the frame of the factory.      *)
LEMMA FrameOfHandle ==
  ASSUME Inv, Creating, MadeHandle, call # NoCall
  PROVE  /\ call.obj \in Containers /\ call.obj \in Handled /\ call.obj \in Objects
         /\ Frame = {call.obj} /\ V(call.obj) = 1
<1>1. PICK o : o = call.obj OBVIOUS
<1>2. o \in Containers /\ o \in Handled /\ o \in Objects /\ life[o] = "live"
  BY <1>1 DEF MadeHandle, Handled, Objects
<1>3. Frame = {o} BY <1>1, <1>2, FrameIs
<1>4. Count(Vars, var, o) = 0
  <2>1. \A x \in Vars : var[x] # o BY <1>1 DEF MadeHandle
  <2> QED BY <2>1, Finite, CountIsNat
<1>5. V(o) = 1 BY <1>3, <1>4 DEF V, Bit
<1> QED BY <1>1, <1>2, <1>3, <1>5

(* The guard of a factory ends.                                             *)
LEMMA DeleteIfExKeepsInv ==
  ASSUME Inv, delete_if_ex
  PROVE  Inv'
<1>1. PICK o : o = call.obj OBVIOUS
<1>2. NextStep("delete_if_ex") /\ UNCHANGED <<gcType, var, owned, lost, known, gc>>
  BY DEF delete_if_ex
<1>3. Creating /\ MadeHandle /\ call.rest = <<"delete_if_ex", "notify_gc">> BY <1>2, Stage
<1>4. /\ TypeInv /\ life \in [Objects -> Lives] /\ rc \in [Handled -> Int]
      /\ HeapOK(heap, Ext)
  BY HeapIs DEF Inv, HeapOK, HeapType
<1>5. call # NoCall /\ o # Null BY <1>1, <1>3, KindOf, NoCallIs
<1>6. o \in Containers /\ o \in Handled /\ o \in Objects /\ Frame = {o} /\ V(o) = 1
  BY <1>1, <1>3, <1>5, FrameOfHandle
<1>7. life[o] = "live" /\ o \notin known /\ data[o] = Null /\ \A q \in Handled : data[q] # o
  BY <1>1, <1>3, NotEmpty DEF MadeHandle
<1>8. FailedAreDestroyed' BY <1>2 DEF Inv, FailedAreDestroyed
<1>9. o \notin owned /\ owned \subseteq Objects
  BY <1>1, <1>3, <1>4 DEF Creating, TypeInv, Objects
<1>10. CASE call.ex
  <2>1. /\ life' = [life EXCEPT ![o] = "dead"] /\ rc' = [rc EXCEPT ![o] = 0]
        /\ flag' = flag /\ data' = data /\ call' = NoCall
    <3>1. SetHeap([heap EXCEPT !.life[o] = Dying(@), !.rc[o] = 0]) /\ call' = NoCall
      BY <1>1, <1>10 DEF delete_if_ex
    <3>2. /\ [heap EXCEPT !.life[o] = Dying(@), !.rc[o] = 0].life = [life EXCEPT ![o] = Dying(life[o])]
          /\ [heap EXCEPT !.life[o] = Dying(@), !.rc[o] = 0].rc = [rc EXCEPT ![o] = 0]
          /\ [heap EXCEPT !.life[o] = Dying(@), !.rc[o] = 0].flag = flag
          /\ [heap EXCEPT !.life[o] = Dying(@), !.rc[o] = 0].data = data
      BY DEF heap
    <3>3. Dying(life[o]) = "dead" BY <1>7 DEF Dying
    <3> QED BY <3>1, <3>2, <3>3 DEF SetHeap
  <2>2. Frame' = {} BY <2>1, FrameIs
  <2>3. ASSUME NEW p PROVE V(p)' = V(p) - Bit(p = o) /\ V(p) \in Nat
    <3>1. V(p)' = V(p) - Bit(p \in Frame) + Bit(p \in Frame') BY <1>2, VFrame
    <3>2. Bit(p \in Frame') = 0 /\ Bit(p \in Frame) = Bit(p = o) BY <2>2, <1>6 DEF Bit
    <3>3. V(p) \in Nat BY VIs
    <3> QED BY <3>1, <3>2, <3>3 DEF Bit
  <2>4. Ext'[o] = 0 /\ \A p \in Handled : p # o => Ext'[p] = Ext[p]
    <3>1. V(o)' = 0 BY <2>3, <1>6 DEF Bit
    <3>2. Ext'[o] = V(o)' + Bit(o \in known') BY <1>6, ExtIs
    <3>3. Ext'[o] = 0 BY <3>1, <3>2, <1>2, <1>7 DEF Bit
    <3>4. ASSUME NEW p \in Handled, p # o PROVE Ext'[p] = Ext[p]
      <4>1. V(p)' = V(p) BY <3>4, <2>3 DEF Bit
      <4> QED BY <4>1, <1>2, ExtIs
    <3> QED BY <3>3, <3>4
  <2>5. HeapOK(heap', Ext')
    <3>1. Ext' \in [Handled -> Nat] BY ExtIs
    <3> QED BY <3>1, <2>1, <2>4, <1>6, <1>7, DeletedGood
  <2>6. GcInv'
    <3>1. \A p \in known : V(p)' <= V(p) BY <2>3 DEF Bit
    <3>2. Tame BY <3>1, <2>1, TameSame
    <3> QED BY <3>2, <1>2, <1>4, TameKeepsGcInv DEF Inv
  <2>7. CollectorIsTold'
    <3>1. \A c \in Containers : c \in Objects BY DEF Objects, Handled
    <3>2. \A c \in Containers : c # o => life'[c] = life[c] BY <3>1, <2>1, <1>4
    <3>3. life'[o] # "live" BY <2>1, <1>4, <1>6
    <3> QED BY <3>2, <3>3, <2>2, <1>2, <1>6, ToldKept DEF Inv
  <2>8. TypeInv' BY <2>1, <1>2, <1>4, NoCallIs DEF TypeInv
  <2>9. CallInv' BY <2>1 DEF CallInv
  <2>10. OwnedLive' BY <2>1, <1>2, <1>4, <1>9 DEF Inv, OwnedLive
  <2> QED BY <2>5, <2>6, <2>7, <2>8, <2>9, <2>10, <1>8 DEF Inv
<1>11. CASE ~call.ex
  <2>1. Done /\ UNCHANGED <<life, rc, flag, data>> BY <1>11 DEF delete_if_ex
  <2>2. Goes(<<"notify_gc">>, call.ex)
    <3>1. Goes(Tail(call.rest), call.ex) BY <2>1, <1>3, <1>4, CallGoes
    <3> QED BY <3>1, <1>3, Rests
  <2>3. Frame' = {o}
    <3>1. call'.obj = o /\ call' # NoCall BY <1>1, <2>2 DEF Goes
    <3> QED BY <3>1, <2>1, <1>6, <1>7, FrameIs
  <2>4. HeapOK(heap', Ext')
    <3>1. heap' = heap BY <2>1 DEF heap
    <3>2. Ext' = Ext BY <2>3, <1>2, <1>6, ExtSame
    <3> QED BY <3>1, <3>2, <1>4
  <2>5. GcInv'
    <3>1. \A p : V(p)' = V(p) /\ V(p) \in Nat BY <2>3, <1>2, <1>6, VSame, VIs
    <3>2. \A p \in known : V(p)' <= V(p) BY <3>1
    <3>3. Tame BY <3>2, <2>1, TameSame
    <3> QED BY <3>3, <1>2, <1>4, TameKeepsGcInv DEF Inv
  <2>6. CollectorIsTold' BY <2>1, <2>3, <1>2, <1>6 DEF Inv, CollectorIsTold
  <2>7. TypeInv' BY <2>2, <1>2, <1>4 DEF TypeInv, Goes
  <2>8. Creating' BY <2>2, <1>2, <1>3, StillCreating
  <2>9. MadeHandle'
    <3>1. call.g.notify BY <1>3, NotEmpty DEF MadeHandle
    <3> QED BY <3>1, <2>1, <2>2, <1>1, <1>2, <1>3, <1>7 DEF MadeHandle, Goes
  <2>10. OwnedLive' BY <2>1, <1>2 DEF Inv, OwnedLive
  <2> QED BY <2>4, <2>5, <2>6, <2>7, <2>8, <2>9, <2>10, <1>8 DEF Inv, CallInv
<1> QED BY <1>10, <1>11

(* A factory whose policy it is tells the collector exactly if the flag of  *)
(* the type says that it is collected.                                      *)
LEMMA ToldIf ==
  ASSUME Inv, Creating, MadeHandle, call.g.notify
  PROVE  /\ notify_gc(call.g, call.ti, gcType[call.obj]) <=> gcType[call.obj]
         /\ notify_gc_if_necessary(call.g, call.ti, gcType[call.obj]) <=> gcType[call.obj]
<1>1. call.ti = "typeinfo" /\ (~call.g.template => gcType[call.obj])
  BY DEF Creating, MadeHandle
<1>2. call.ti # "null" BY <1>1
<1> QED BY <1>1, <1>2 DEF notify_gc, notify_gc_if_necessary

(* The collector is told of the object, with a reference of its own.        *)
LEMMA NotifyKeepsInv ==
  ASSUME Inv, Notify
  PROVE  Inv'
<1>1. PICK o : o = call.obj OBVIOUS
<1>2. Done /\ UNCHANGED <<gcType, var, owned, lost, gc>> BY DEF Notify
<1>3. /\ Creating /\ MadeHandle /\ o \notin known /\ call.g.notify
      /\ Tail(call.rest) = <<>>
  <2>1. CASE NextStep("notify_gc")
    <3>1. <<"notify_gc">> # <<>> OBVIOUS
    <3> QED BY <2>1, <3>1, <1>1, Stage, Rests DEF MadeHandle
  <2>2. CASE NextStep("notify_gc_if_necessary")
    <3>1. <<"notify_gc_if_necessary">> # <<>> OBVIOUS
    <3> QED BY <2>2, <3>1, <1>1, Stage, Rests DEF MadeHandle
  <2> QED BY <2>1, <2>2 DEF Notify
<1>4. /\ TypeInv /\ life \in [Objects -> Lives] /\ HeapOK(heap, Ext) /\ Ext \in [Handled -> Nat]
  BY HeapIs DEF Inv, HeapOK, HeapType
<1>5. Goes(<<>>, call.ex) BY <1>2, <1>3, <1>4, CallGoes
<1>6. o \in Containers /\ o \in Handled /\ o \in Objects /\ o # Null /\ Frame = {o}
  BY <1>1, <1>3, <1>5, FrameOfHandle, KindOf DEF Goes
<1>7. life[o] = "live" /\ data[o] = Null /\ \A q \in Handled : data[q] # o
  BY <1>1, <1>3 DEF MadeHandle
<1>8. IF gcType[o] THEN known' = known \cup {o} /\ SetHeap(addref(heap, o))
                   ELSE UNCHANGED <<known, life, rc, flag, data>>
  <2>1. IF IF NextStep("notify_gc")
           THEN notify_gc(call.g, call.ti, gcType[o])
           ELSE notify_gc_if_necessary(call.g, call.ti, gcType[o])
        THEN known' = known \cup {o} /\ SetHeap(addref(heap, o))
        ELSE UNCHANGED <<known, life, rc, flag, data>>
    BY <1>1 DEF Notify, NotifyGarbageCollectorOfNewObject
  <2>2. /\ notify_gc(call.g, call.ti, gcType[o]) <=> gcType[o]
        /\ notify_gc_if_necessary(call.g, call.ti, gcType[o]) <=> gcType[o]
    BY <1>1, <1>3, ToldIf
  <2> QED BY <2>1, <2>2
<1>9. /\ HeapOK(heap', Ext') /\ life' = life /\ data' = data /\ Frame' = {o}
      /\ \A p \in known : flag'[p] <=> flag[p]
      /\ known \subseteq known' /\ (o \in known' <=> gcType[o])
      /\ \A p : p # o => (p \in known' <=> p \in known)
  <2>1. life' = life => Frame' = {o}
    <3>1. call'.obj = o /\ call' # NoCall BY <1>1, <1>5 DEF Goes
    <3> QED BY <3>1, <1>6, <1>7, FrameIs
  <2>2. CASE gcType[o]
    <3>1. PICK k : k = AddRefScriptObject(heap, o) OBVIOUS
    <3>2. k = addref(heap, o) BY <3>1, <1>6 DEF AddRefScriptObject
    <3>3. HeapOK(k, Plus(Ext, o)) /\ Took(heap, k, o)
      BY <3>1, <1>4, <1>6, <1>7, TakeGood, HeapIs
    <3>4. SetHeap(k) /\ known' = known \cup {o} BY <3>2, <2>2, <1>8
    <3>5. heap' = k BY <3>3, <3>4, SetHeapIs
    <3>6. /\ life' = life /\ data' = data
          /\ \A p \in Handled : flag'[p] <=> flag[p] /\ p # o
      BY <3>3, <3>5, HeapIs DEF Took
    <3>7. \A p \in Handled : Plus(Ext, o)[p] = Ext'[p]
      <4> SUFFICES ASSUME NEW p \in Handled PROVE Plus(Ext, o)[p] = Ext'[p] OBVIOUS
      <4>1. Plus(Ext, o)[p] = Ext[p] + Bit(p = o) BY <1>4, PlusIs
      <4>2. Ext[p] = V(p) + Bit(p \in known) /\ Ext'[p] = V(p)' + Bit(p \in known') BY ExtIs
      <4>3. V(p)' = V(p) /\ V(p) \in Nat BY <2>1, <3>6, <1>2, <1>6, VSame, VIs
      <4>4. CASE p = o BY <4>1, <4>2, <4>3, <4>4, <3>4, <1>3 DEF Bit
      <4>5. CASE p # o BY <4>1, <4>2, <4>3, <4>5, <3>4 DEF Bit
      <4> QED BY <4>4, <4>5
    <3>8. HeapOK(heap', Ext') BY <3>3, <3>5, <3>7, SameExt
    <3>9. \A p \in known : p \in Handled /\ p # o BY <1>3, <1>4 DEF TypeInv
    <3> QED BY <3>4, <3>6, <3>8, <3>9, <2>1, <2>2
  <2>3. CASE ~gcType[o]
    <3>1. UNCHANGED <<known, life, rc, flag, data>> BY <2>3, <1>8
    <3>2. heap' = heap BY <3>1 DEF heap
    <3>3. Frame' = {o} BY <3>1, <2>1
    <3>4. Ext' = Ext BY <3>1, <3>3, <1>2, <1>6, ExtSame
    <3> QED BY <3>1, <3>2, <3>3, <3>4, <2>3, <1>3, <1>4
  <2> QED BY <2>2, <2>3
<1>10. GcInv'
  <2>1. \A p : V(p)' = V(p) /\ V(p) \in Nat BY <1>2, <1>6, <1>9, VSame, VIs
  <2>2. Tame BY <2>1, <1>9 DEF Tame, TameAt, In
  <2> QED BY <2>2, <1>2, <1>4, <1>9, TameKeepsGcInv DEF Inv
<1>11. CollectorIsTold' BY <1>2, <1>6, <1>9, ToldKept DEF Inv
<1>12. TypeInv'
  <2>1. known' \subseteq Handled BY <1>4, <1>6, <1>9 DEF TypeInv
  <2> QED BY <2>1, <1>2, <1>4, <1>5 DEF TypeInv, Goes
<1>13. Creating' BY <1>2, <1>3, <1>5, StillCreating
<1>14. MadeHandle' BY <1>1, <1>2, <1>3, <1>5, <1>7, <1>9 DEF MadeHandle, Goes
<1>15. OwnedLive' /\ FailedAreDestroyed'
  BY <1>2, <1>9 DEF Inv, OwnedLive, FailedAreDestroyed
<1> QED BY <1>9, <1>10, <1>11, <1>12, <1>13, <1>14, <1>15 DEF Inv, CallInv

(* A value whose constructor raised an exception is left alone only if it   *)
(* is alive, that is, if its function had no guard.                         *)
LEMMA ReturnValueKeepsInv ==
  ASSUME Inv, Return, call.obj \in Values
  PROVE  Inv'
<1>1. PICK o : o = call.obj OBVIOUS
<1>2. /\ call # NoCall /\ call.rest = <<>> /\ call' = NoCall
      /\ UNCHANGED <<gcType, known, gc>>
  BY DEF Return
<1>3. Creating BY <1>2, Stage
<1>4. o \in Values /\ o \notin Handled /\ o \in Objects BY <1>1, <1>3, KindOf
<1>5. /\ owned' = IF call.ex THEN owned ELSE owned \cup {o}
      /\ lost' = IF call.ex /\ life[o] = "live" THEN lost \cup {call.g.kind} ELSE lost
      /\ UNCHANGED <<life, rc, flag, data, var>>
  BY <1>1, <1>4 DEF Return
<1>6. MadeValue
  <2>1. ~MadeHandle BY <1>1, <1>4 DEF MadeHandle, Handled
  <2> QED BY <2>1, <1>2, Stage
<1>7. /\ ~call.ex => life[o] = "live"
      /\ call.ex /\ call.g.kind \notin {"list_constructor", "ctor_fn"} => life[o] # "live"
  <2>1. <<"destroy_if_ex">> # <<>> OBVIOUS
  <2> QED BY <2>1, <1>1, <1>2, <1>6 DEF MadeValue
<1>8. TypeInv /\ life \in [Objects -> Lives] BY HeapIs DEF Inv, HeapOK, HeapType
<1>9. Frame = {} /\ Frame' = {} BY <1>1, <1>2, <1>4, FrameIs
<1>10. HeapOK(heap', Ext') /\ GcInv' /\ CollectorIsTold'
  <2>1. PICK l \in Lives : life' = [life EXCEPT ![o] = l]
    <3>1. life[o] \in Lives /\ life' = [life EXCEPT ![o] = life[o]] BY <1>4, <1>5, <1>8
    <3> QED BY <3>1
  <2> QED BY <2>1, <1>2, <1>4, <1>5, <1>9, ValueKeeps
<1>11. TypeInv'
  <2>1. owned' \subseteq Values BY <1>4, <1>5, <1>8 DEF TypeInv
  <2> QED BY <2>1, <1>2, <1>5, <1>8, NoCallIs DEF TypeInv
<1>12. CallInv' BY <1>2 DEF CallInv
<1>13. OwnedLive' BY <1>5, <1>7 DEF Inv, OwnedLive
<1>14. FailedAreDestroyed' BY <1>5, <1>7 DEF Inv, FailedAreDestroyed
<1> QED BY <1>10, <1>11, <1>12, <1>13, <1>14 DEF Inv

(* A factory returns: its reference is a variable's, or is released.        *)
LEMMA ReturnHandleKeepsInv ==
  ASSUME Inv, Return, call.obj \notin Values
  PROVE  Inv'
<1>1. PICK o : o = call.obj OBVIOUS
<1>2. /\ call # NoCall /\ call.rest = <<>> /\ call' = NoCall
      /\ UNCHANGED <<gcType, known, gc>>
  BY DEF Return
<1>3. Creating /\ MadeHandle
  <2>1. Creating /\ (MadeValue \/ MadeHandle) BY <1>2, Stage
  <2> QED BY <2>1 DEF MadeValue
<1>4. /\ o \in Containers /\ o \in Handled /\ o \in Objects /\ Frame = {o} /\ V(o) = 1
  BY <1>1, <1>2, <1>3, FrameOfHandle
<1>5. o \in known <=> gcType[o]
  <2>1. /\ <<"delete_if_ex", "notify_gc">> # <<>> /\ <<"notify_gc">> # <<>>
        /\ <<"notify_gc_if_necessary">> # <<>>
    OBVIOUS
  <2> QED BY <2>1, <1>1, <1>2, <1>3 DEF MadeHandle
<1>6. /\ TypeInv /\ HeapOK(heap, Ext) /\ Ext \in [Handled -> Nat] /\ life \in [Objects -> Lives]
  BY HeapIs DEF Inv, HeapOK, HeapType
<1>7. Frame' = {} BY <1>2, FrameIs
<1>8. /\ UNCHANGED <<owned, lost>> /\ var' \in [Vars -> Handled \cup {Null}]
      /\ HeapOK(heap', Ext') /\ Fades /\ Tame
  <2>1. CASE SetHeap(release(heap, o)) /\ UNCHANGED <<var, owned, lost>>
    <3>1. ASSUME NEW p PROVE V(p)' = V(p) - Bit(p = o) /\ V(p) \in Nat /\ V(p)' \in Nat
      <4>1. V(p)' = V(p) - Bit(p \in Frame) + Bit(p \in Frame') BY <2>1, VFrame
      <4>2. Bit(p \in Frame') = 0 /\ Bit(p \in Frame) = Bit(p = o) BY <1>4, <1>7 DEF Bit
      <4>3. V(p) \in Nat /\ V(p)' \in Nat /\ Bit(p = o) \in Nat BY VIs DEF Bit
      <4> QED BY <4>1, <4>2, <4>3
    <3>2. Ext[o] > 0
      <4>1. Ext[o] = V(o) + Bit(o \in known) BY <1>4, ExtIs
      <4> QED BY <4>1, <1>4 DEF Bit
    <3>3. PICK k, f : k = release(heap, o) /\ f = Minus(Ext, o) OBVIOUS
    <3>4. HeapOK(k, f) /\ Dropped(heap, k, f) BY <1>4, <1>6, <3>2, <3>3, ReleaseGood
    <3>5. \A p \in Handled : f[p] = Ext'[p]
      <4> SUFFICES ASSUME NEW p \in Handled PROVE f[p] = Ext'[p] OBVIOUS
      <4>1. f[p] = Ext[p] - Bit(p = o) BY <1>6, <3>2, <3>3, MinusIs
      <4>2. Ext[p] = V(p) + Bit(p \in known) /\ Ext'[p] = V(p)' + Bit(p \in known)
        BY <1>2, ExtIs
      <4>3. Bit(p = o) \in Nat /\ Bit(p \in known) \in Nat BY DEF Bit
      <4> QED BY <4>1, <4>2, <4>3, <3>1
    <3>6. heap' = k BY <2>1, <3>3, <3>4, SetHeapIs
    <3>7. HeapOK(heap', Ext') BY <3>4, <3>5, <3>6, SameExt
    <3>8. /\ Fades /\ \A p \in Handled : data'[p] \in {data[p], Null}
          /\ \A p \in Handled : flag'[p] => flag[p]
      BY <3>4, <3>6, HeapIs DEF Dropped, Less, Fades
    <3>9. Tame
      <4> SUFFICES ASSUME NEW p \in known PROVE TameAt(p) BY DEF Tame
      <4>1. p \in Handled BY <1>6 DEF TypeInv
      <4>2. V(p)' <= V(p) BY <3>1 DEF Bit
      <4>3. In(p)' \subseteq In(p) BY <4>1, <3>8, InShrinks
      <4> QED BY <4>1, <4>2, <4>3, <3>8 DEF TameAt
    <3> QED BY <2>1, <3>7, <3>8, <3>9, <1>6 DEF TypeInv
  <2>2. CASE /\ \E x \in Vars : var[x] = Null /\ var' = [var EXCEPT ![x] = o]
             /\ UNCHANGED <<life, rc, flag, data, owned, lost>>
    <3>1. PICK x \in Vars : var[x] = Null /\ var' = [var EXCEPT ![x] = o] BY <2>2
    <3>2. ReplacedAt(var, x, o, var') BY <3>1 DEF ReplacedAt
    <3>3. ASSUME NEW p \in Handled PROVE V(p)' = V(p) /\ V(p) \in Nat
      <4>1. V(p)' = V(p) - Bit(p \in Frame) + Bit(p \in Frame') - Bit(var[x] = p) + Bit(o = p)
        BY <1>6, <3>2, VFrame
      <4>2. /\ Bit(p \in Frame') = 0 /\ Bit(p \in Frame) = Bit(o = p) /\ Bit(var[x] = p) = 0
            /\ Bit(o = p) \in Nat
        BY <1>4, <1>7, <3>1, NullIsNoObject DEF Bit
      <4>3. V(p) \in Nat BY VIs
      <4> QED BY <4>1, <4>2, <4>3
    <3>4. \A p \in Handled : Ext[p] = Ext'[p] BY <3>3, <1>2, ExtIs
    <3>5. heap' = heap BY <2>2 DEF heap
    <3>6. HeapOK(heap', Ext') BY <3>4, <3>5, <1>6, SameExt
    <3>7. Fades BY <2>2 DEF Fades
    <3>8. Tame
      <4>1. \A p \in known : p \in Handled BY <1>6 DEF TypeInv
      <4>2. \A p \in known : V(p)' <= V(p) BY <4>1, <3>3
      <4> QED BY <4>2, <2>2, TameSame
    <3>9. var' \in [Vars -> Handled \cup {Null}] BY <3>1, <1>4, <1>6 DEF TypeInv
    <3> QED BY <2>2, <3>6, <3>7, <3>8, <3>9
  <2>3. o \notin Values BY <1>1
  <2> QED BY <2>1, <2>2, <2>3, <1>1 DEF Return
<1>9. GcInv' BY <1>2, <1>6, <1>8, TameKeepsGcInv DEF Inv
<1>10. TypeInv' BY <1>2, <1>6, <1>8, NoCallIs DEF TypeInv
<1>11. CallInv' BY <1>2 DEF CallInv
<1>12. CollectorIsTold'
  <2> SUFFICES ASSUME NEW c \in Containers, life'[c] = "live"
               PROVE  c \in known' <=> gcType'[c]
    BY DEF CollectorIsTold
  <2>1. life[c] = "live"
    <3>1. c \in Objects BY DEF Objects, Handled
    <3> QED BY <3>1, <1>8 DEF Fades
  <2>2. CASE c = o BY <2>2, <1>2, <1>5
  <2>3. CASE c # o BY <2>1, <2>3, <1>2, <1>4 DEF Inv, CollectorIsTold
  <2> QED BY <2>2, <2>3
<1>13. OwnedLive'
  <2>1. \A v \in owned : v \in Objects /\ v \notin Handled
    BY <1>6, CollectionAssumption DEF TypeInv, Objects, Handled
  <2> QED BY <2>1, <1>8 DEF Inv, OwnedLive, Fades
<1>14. FailedAreDestroyed' BY <1>8 DEF Inv, FailedAreDestroyed
<1> QED BY <1>8, <1>9, <1>10, <1>11, <1>12, <1>13, <1>14 DEF Inv

(***************************************************************************)
(* The collector at work.                                                  *)
(***************************************************************************)
(* References from outside remain: scripts do nothing meanwhile.            *)
LEMMA OutsideRemains ==
  ASSUME Inv, UNCHANGED <<var, call>>, Fades,
         \A p \in Handled : V(p) > 0 => life'[p] = life[p]
  PROVE  Frame' = Frame /\ \A p : V(p)' = V(p) /\ V(p) \in Nat
<1>1. PICK o : o = call.obj OBVIOUS
<1>2. CASE o \in Handled
  <2>1. o \in Objects BY <1>2, NullIsNoObject
  <2>2. life'[o] = "live" => life[o] = "live" BY <2>1 DEF Fades
  <2>3. o \in Frame => life'[o] = "live"
    <3>1. o \in Frame => V(o) > 0 BY VIs
    <3>2. o \in Frame => life[o] = "live" BY <1>1, FrameIs
    <3> QED BY <3>1, <3>2, <1>2
  <2>4. o \in Frame <=> o \in Frame' BY <2>2, <2>3, <1>1, FrameIs
  <2> QED BY <2>4, <1>1, FrameIs, VSame, VIs
<1>3. CASE o \notin Handled
  <2>1. Frame = {} /\ Frame' = {} BY <1>1, <1>3, FrameIs
  <2> QED BY <2>1, VSame, VIs
<1> QED BY <1>2, <1>3

(* A step of the collector.                                                 *)
LEMMA CollectorKeepsInv ==
  ASSUME Inv, UNCHANGED <<gcType, var, owned, call, lost>>, Fades,
         \A p \in Handled : V(p) > 0 => life'[p] = life[p],
         \A p \in Handled : data'[p] \in {data[p], Null},
         known' \subseteq known, \A p \in known : p \in known' \/ life'[p] # "live",
         HeapOK(heap', Ext'),
         gc' = Work(gc'.phase, gc'.todo, gc'.suspects, gc'.count),
         gc'.count \in [Handled -> Int], GcInv'
  PROVE  Inv'
<1>1. Frame' = Frame BY OutsideRemains
<1>2. TypeInv BY DEF Inv
<1>3. TypeInv' BY <1>2 DEF TypeInv
<1>4. CallInv'
  <2>1. CASE call = NoCall BY <2>1 DEF CallInv
  <2>2. CASE call # NoCall
    <3>1. Creating /\ (Unmade \/ MadeValue \/ MadeHandle) BY <2>2 DEF Inv, CallInv
    <3>2. Creating' BY <3>1 DEF Creating
    <3>3. PICK o : o = call.obj /\ o \in Objects BY <3>1, KindOf
    <3>4. CASE Unmade
      <4>1. life'[o] = "unborn" BY <3>3, <3>4 DEF Unmade, Fades
      <4>2. Unmade' BY <3>3, <3>4, <4>1 DEF Unmade
      <4> QED BY <3>2, <4>2 DEF CallInv
    <3>5. CASE MadeValue
      <4>1. o \notin Handled BY <3>1, <3>3, <3>5, KindOf DEF MadeValue
      <4>2. life'[o] = life[o] BY <3>3, <4>1 DEF Fades
      <4>3. MadeValue' BY <3>3, <3>5, <4>2 DEF MadeValue
      <4> QED BY <3>2, <4>3 DEF CallInv
    <3>6. CASE MadeHandle
      <4>1. o \in Containers /\ o \in Handled /\ V(o) = 1
        BY <2>2, <3>1, <3>3, <3>6, FrameOfHandle
      <4>2. life'[o] = life[o] BY <4>1
      <4>3. /\ life[o] = "live" /\ data[o] = Null
            /\ \A p \in Handled : data[p] # o
        BY <3>3, <3>6 DEF MadeHandle
      <4>4. data'[o] = Null /\ \A p \in Handled : data'[p] # o
        BY <4>1, <4>3, NullIsNoObject
      <4>5. o \in known' <=> o \in known BY <4>2, <4>3
      <4>6. MadeHandle' BY <3>3, <3>6, <4>1, <4>2, <4>3, <4>4, <4>5 DEF MadeHandle
      <4> QED BY <3>2, <4>6 DEF CallInv
    <3> QED BY <3>1, <3>4, <3>5, <3>6
  <2> QED BY <2>1, <2>2
<1>5. CollectorIsTold'
  <2> SUFFICES ASSUME NEW c \in Containers, life'[c] = "live", c \notin Frame
               PROVE  c \in known' <=> gcType[c]
    BY <1>1 DEF CollectorIsTold
  <2>1. life[c] = "live"
    <3>1. c \in Objects BY DEF Objects, Handled
    <3> QED BY <3>1 DEF Fades
  <2>2. c \in known <=> gcType[c] BY <2>1 DEF Inv, CollectorIsTold
  <2>3. c \in known' <=> c \in known OBVIOUS
  <2> QED BY <2>2, <2>3
<1>6. OwnedLive'
  <2>1. \A v \in owned : v \in Objects /\ v \notin Handled
    BY <1>2, CollectionAssumption DEF TypeInv, Objects, Handled
  <2> QED BY <2>1 DEF Inv, OwnedLive, Fades
<1>7. FailedAreDestroyed' BY DEF Inv, FailedAreDestroyed
<1> QED BY <1>3, <1>4, <1>5, <1>6, <1>7 DEF Inv

(* A step that looks at objects, or sets their flags.                       *)
Looks ==
  /\ UNCHANGED <<gcType, var, owned, call, lost, life, rc, data, known>>
  /\ flag' \in [Handled -> BOOLEAN]

(* Such a step leaves all references alone.                                 *)
LEMMA LookSame ==
  ASSUME Looks
  PROVE  \A o : V(o)' = V(o) /\ V(o) \in Nat /\ In(o)' = In(o)
<1>1. Frame' = Frame BY DEF Looks, Frame
<1>2. \A o : In(o)' = In(o) BY DEF Looks, In
<1> QED BY <1>1, <1>2, VSame, VIs DEF Looks

(* So only the collector's own bounds need an argument.                     *)
LEMMA LookKeepsInv ==
  ASSUME Inv, Looks, gc' = Work(gc'.phase, gc'.todo, gc'.suspects, gc'.count),
         gc'.count \in [Handled -> Int], GcInv'
  PROVE  Inv'
<1>1. HeapOK(heap', Ext')
  <2>1. Frame' = Frame BY DEF Looks, Frame
  <2>2. Ext' = Ext BY <2>1, ExtSame DEF Looks
  <2>3. heap' = Heap(life', rc', flag', data') BY DEF heap, Heap
  <2>4. HeapType(heap') BY <2>3, HeapIs DEF Inv, HeapOK, HeapType, Looks
  <2>5. Balanced(heap', Ext) /\ LiveOnly(heap', Ext)
    BY HeapIs DEF Inv, HeapOK, Balanced, LiveOnly, Looks
  <2> QED BY <2>2, <2>4, <2>5 DEF Inv, HeapOK
<1>2. Fades BY DEF Fades, Looks
<1> QED BY <1>1, <1>2, CollectorKeepsInv DEF Looks

(* What the collector's work is made of.                                    *)
LEMMA WorkFields ==
  ASSUME NEW phase, NEW todo, NEW suspects, NEW count, NEW w,
         w = Work(phase, todo, suspects, count)
  PROVE  /\ w.phase = phase /\ w.todo = todo /\ w.suspects = suspects /\ w.count = count
         /\ w = Work(w.phase, w.todo, w.suspects, w.count)
BY DEF Work

(* What the collector knows has its reference, and is an object that lives. *)
LEMMA KnownIsCounted ==
  ASSUME Inv, NEW o \in known
  PROVE  /\ o \in Handled /\ Ext[o] = V(o) + 1 /\ V(o) \in Nat
         /\ Cardinality(In(o)) \in Nat /\ rc[o] = V(o) + 1 + Cardinality(In(o))
<1>1. o \in Handled BY DEF Inv, TypeInv
<1>2. Ext[o] = V(o) + Bit(o \in known) /\ V(o) \in Nat BY <1>1, ExtIs, VIs
<1>3. Ext[o] = V(o) + 1 BY <1>2 DEF Bit
<1>4. Balanced(heap, Ext) BY DEF Inv, HeapOK
<1>5. rc[o] = Ext[o] + Count(Handled, data, o) BY <1>1, <1>4, HeapIs DEF Balanced
<1>6. Count(Handled, data, o) = Cardinality(In(o)) BY DEF Count, In
<1>7. Count(Handled, data, o) \in Nat BY Finite, CountIsNat
<1> QED BY <1>1, <1>2, <1>3, <1>5, <1>6, <1>7

(* A cycle starts with everything that the collector knows.                 *)
LEMMA StartCycleKeepsInv ==
  ASSUME Inv, Looks, StartCycle
  PROVE  Inv'
<1>1. PICK w, z : w = gc' /\ z = Idle.count OBVIOUS
<1>2. w = Work("flag", known, {}, z)
  BY <1>1 DEF StartCycle, Idle, Work
<1>3. /\ w.phase = "flag" /\ w.todo = known /\ w.suspects = {} /\ w.count = z
      /\ w = Work(w.phase, w.todo, w.suspects, w.count)
  BY <1>2, WorkFields
<1>4. z \in [Handled -> Int] BY <1>1 DEF Idle
<1>5. GcInv' BY <1>1, <1>3 DEF GcInv, Looks
<1> QED BY <1>1, <1>3, <1>4, <1>5, LookKeepsInv

(* The count starts as the references that are not the collector's.         *)
LEMMA SetFlagKeepsInv ==
  ASSUME Inv, Looks, NEW o \in Handled, SetFlag(o)
  PROVE  Inv'
<1>1. PICK S, T, c, w : /\ S = gc.suspects /\ T = gc.todo /\ c = gc.count /\ w = gc'
                        /\ gc = Work(gc.phase, T, S, c)
  BY DEF Inv, TypeInv
<1>2. /\ gc.phase = "flag" /\ o \in T /\ flag' = [flag EXCEPT ![o] = TRUE]
      /\ gc' = [gc EXCEPT !.todo = @ \ {o}, !.suspects = @ \cup {o}, !.count[o] = rc[o] - 1]
  BY <1>1 DEF SetFlag
<1>3. /\ S \subseteq known /\ T \subseteq known /\ c \in [Handled -> Int]
      /\ \A p \in S : flag[p] => Over(p, {})
      /\ flag \in [Handled -> BOOLEAN] /\ rc \in [Handled -> Int] /\ known \subseteq Handled
  BY <1>1, <1>2, HeapIs DEF Inv, GcInv, TypeInv, HeapOK, HeapType
<1>4. PICK d : d = [c EXCEPT ![o] = rc[o] - 1] OBVIOUS
<1>5. w = Work("flag", T \ {o}, S \cup {o}, d)
  <2>1. gc = Work("flag", T, S, c) BY <1>1, <1>2
  <2>2. PICK a, b, n : a = T \ {o} /\ b = S \cup {o} /\ n = rc[o] - 1 OBVIOUS
  <2>3. w = [[[Work("flag", T, S, c) EXCEPT !.todo = a] EXCEPT !.suspects = b]
               EXCEPT !.count[o] = n]
    BY <2>1, <2>2, <1>1, <1>2
  <2>4. [Work("flag", T, S, c) EXCEPT !.todo = a] = Work("flag", a, S, c) BY DEF Work
  <2>5. [Work("flag", a, S, c) EXCEPT !.suspects = b] = Work("flag", a, b, c) BY DEF Work
  <2>6. [Work("flag", a, b, c) EXCEPT !.count[o] = n]
          = Work("flag", a, b, [c EXCEPT ![o] = n])
    BY DEF Work
  <2> QED BY <2>2, <2>3, <2>4, <2>5, <2>6, <1>4
<1>6. /\ w.phase = "flag" /\ w.todo = T \ {o} /\ w.suspects = S \cup {o} /\ w.count = d
      /\ w = Work(w.phase, w.todo, w.suspects, w.count)
  <2>1. PICK a, b : a = T \ {o} /\ b = S \cup {o} OBVIOUS
  <2>2. w = Work("flag", a, b, d) BY <1>5, <2>1
  <2> QED BY <2>1, <2>2, WorkFields
<1>7. d \in [Handled -> Int] BY <1>3, <1>4
<1>8. \A p : V(p)' = V(p) /\ V(p) \in Nat /\ In(p)' = In(p) BY LookSame
<1>9. ASSUME NEW p \in S \cup {o}, flag'[p] PROVE Over(p, {})'
  <2>1. CASE p = o
    <3>1. rc[o] = V(o) + 1 + Cardinality(In(o)) /\ V(o) \in Nat /\ Cardinality(In(o)) \in Nat
      BY <1>2, <1>3, KnownIsCounted
    <3>2. w.count[o] = rc[o] - 1 BY <1>3, <1>4, <1>6
    <3>3. In(o) \ {} = In(o) OBVIOUS
    <3>4. w.count[o] >= V(o)' + Cardinality(In(o)' \ {}) BY <3>1, <3>2, <3>3, <1>8
    <3> QED BY <3>4, <2>1, <1>1 DEF Over
  <2>2. CASE p # o
    <3>1. p \in S /\ flag[p] /\ p \in Handled BY <2>2, <1>2, <1>3, <1>9
    <3>2. c[p] >= V(p) + Cardinality(In(p) \ {}) BY <3>1, <1>1, <1>3 DEF Over
    <3>3. w.count[p] = c[p] BY <3>1, <2>2, <1>3, <1>4, <1>6
    <3>4. w.count[p] >= V(p)' + Cardinality(In(p)' \ {}) BY <3>2, <3>3, <1>8
    <3> QED BY <3>4, <1>1 DEF Over
  <2> QED BY <2>1, <2>2
<1>10. GcInv'
  <2>1. S \cup {o} \subseteq known' /\ T \ {o} \subseteq known' BY <1>2, <1>3 DEF Looks
  <2> QED BY <2>1, <1>1, <1>6, <1>9 DEF GcInv
<1> QED BY <1>1, <1>6, <1>7, <1>10, LookKeepsInv

(* What an object refers to is subtracted once, when the object is done.    *)
LEMMA CountReferencesKeepsInv ==
  ASSUME Inv, Looks, NEW o \in Handled, CountReferences(o)
  PROVE  Inv'
<1>1. PICK S, T, c, w : /\ S = gc.suspects /\ T = gc.todo /\ c = gc.count /\ w = gc'
                        /\ gc = Work(gc.phase, T, S, c)
  BY DEF Inv, TypeInv
<1>2. PICK d : d = [p \in Handled |-> IF flag[o] /\ p \in S \cap enum_refs(o)
                                      THEN c[p] - 1 ELSE c[p]]
  OBVIOUS
<1>3. /\ gc.phase = "count" /\ o \in T /\ flag' = flag
      /\ gc' = [gc EXCEPT !.todo = @ \ {o}, !.count = d]
  BY <1>1, <1>2 DEF CountReferences
<1>4. /\ S \subseteq known /\ T \subseteq S /\ c \in [Handled -> Int]
      /\ \A p \in S : flag[p] => Over(p, S \ T)
      /\ known \subseteq Handled
  BY <1>1, <1>3 DEF Inv, GcInv, TypeInv
<1>5. PICK U : U = T \ {o} OBVIOUS
<1>6. w = Work("count", U, S, d)
  <2>1. w = [[Work("count", T, S, c) EXCEPT !.todo = U] EXCEPT !.count = d]
    BY <1>1, <1>3, <1>5
  <2>2. [Work("count", T, S, c) EXCEPT !.todo = U] = Work("count", U, S, c) BY DEF Work
  <2>3. [Work("count", U, S, c) EXCEPT !.count = d] = Work("count", U, S, d) BY DEF Work
  <2> QED BY <2>1, <2>2, <2>3
<1>7. /\ w.phase = "count" /\ w.todo = U /\ w.suspects = S /\ w.count = d
      /\ w = Work(w.phase, w.todo, w.suspects, w.count)
  BY <1>6, WorkFields
<1>8. d \in [Handled -> Int] BY <1>2, <1>4
<1>9. \A p : V(p)' = V(p) /\ V(p) \in Nat /\ In(p)' = In(p) BY LookSame
<1>10. ASSUME NEW p \in S, flag[p] PROVE Over(p, S \ U)'
  <2>1. p \in Handled /\ p # Null BY <1>4, NullIsNoObject
  <2>2. PICK A, B : A = In(p) \ (S \ T) /\ B = In(p) \ (S \ U) OBVIOUS
  <2>3. B = A \ {o} BY <2>2, <1>3, <1>4, <1>5
  <2>4. IsFiniteSet(A)
    <3>1. A \in SUBSET Handled BY <2>2 DEF In
    <3> QED BY <3>1, Finite, FS_Subset
  <2>5. /\ Cardinality(A) \in Nat
        /\ Cardinality(B) = IF o \in A THEN Cardinality(A) - 1 ELSE Cardinality(A)
    BY <2>3, <2>4, FS_RemoveElement, FS_CardinalityType
  <2>6. c[p] >= V(p) + Cardinality(A) BY <2>2, <1>1, <1>4, <1>10 DEF Over
  <2>7. d[p] < c[p] => d[p] = c[p] - 1 /\ o \in A
    <3>1. d[p] = IF flag[o] /\ p \in S \cap enum_refs(o) THEN c[p] - 1 ELSE c[p]
      BY <1>2, <2>1
    <3>2. p \in enum_refs(o) => data[o] = p BY DEF enum_refs
    <3>3. data[o] = p => o \in A BY <2>2, <1>3 DEF In
    <3>4. c[p] \in Int BY <1>4, <2>1
    <3> QED BY <3>1, <3>2, <3>3, <3>4
  <2>8. d[p] >= c[p] \/ d[p] < c[p] BY <1>4, <1>8, <2>1
  <2>9. c[p] \in Int /\ d[p] \in Int BY <1>4, <1>8, <2>1
  <2>10. d[p] >= V(p) + Cardinality(B) BY <2>5, <2>6, <2>7, <2>8, <2>9, <1>9
  <2> QED BY <2>2, <2>10, <1>1, <1>7, <1>9 DEF Over
<1>11. GcInv'
  <2>1. S \subseteq known' /\ U \subseteq known' /\ U \subseteq S BY <1>4, <1>5 DEF Looks
  <2>2. \A p \in S : flag'[p] => Over(p, S \ U)' BY <1>3, <1>10
  <2> QED BY <2>1, <2>2, <1>1, <1>7 DEF GcInv, Over
<1> QED BY <1>1, <1>7, <1>8, <1>11, LookKeepsInv

(* What lives is no suspect any more, and is looked at later.               *)
LEMMA FindLiveKeepsInv ==
  ASSUME Inv, Looks, NEW o \in Handled, FindLive(o)
  PROVE  Inv'
<1>1. PICK S, T, c, w : /\ S = gc.suspects /\ T = gc.todo /\ c = gc.count /\ w = gc'
                        /\ gc = Work(gc.phase, T, S, c)
  BY DEF Inv, TypeInv
<1>2. /\ gc.phase = "trace" /\ o \in S /\ flag' = flag
      /\ gc' = [gc EXCEPT !.suspects = @ \ {o}, !.todo = @ \cup {o}]
  BY <1>1 DEF FindLive
<1>3. /\ S \subseteq known /\ T \subseteq known /\ c \in [Handled -> Int]
      /\ \A p \in S : flag[p] /\ c[p] <= 0 => Cut(p, S \cup T)
  BY <1>1, <1>2 DEF Inv, GcInv, TypeInv
<1>4. PICK A, B : A = S \ {o} /\ B = T \cup {o} OBVIOUS
<1>5. w = Work("trace", B, A, c)
  <2>1. w = [[Work("trace", T, S, c) EXCEPT !.suspects = A] EXCEPT !.todo = B]
    BY <1>1, <1>2, <1>4
  <2>2. [Work("trace", T, S, c) EXCEPT !.suspects = A] = Work("trace", T, A, c) BY DEF Work
  <2>3. [Work("trace", T, A, c) EXCEPT !.todo = B] = Work("trace", B, A, c) BY DEF Work
  <2> QED BY <2>1, <2>2, <2>3
<1>6. /\ w.phase = "trace" /\ w.todo = B /\ w.suspects = A /\ w.count = c
      /\ w = Work(w.phase, w.todo, w.suspects, w.count)
  BY <1>5, WorkFields
<1>7. \A p : V(p)' = V(p) /\ V(p) \in Nat /\ In(p)' = In(p) BY LookSame
<1>8. A \cup B = S \cup T /\ A \subseteq known /\ B \subseteq known BY <1>2, <1>3, <1>4
<1>9. \A p \in A : flag'[p] /\ c[p] <= 0 => Cut(p, A \cup B)'
  BY <1>2, <1>3, <1>4, <1>7, <1>8 DEF Cut
<1>10. GcInv' BY <1>1, <1>6, <1>8, <1>9 DEF GcInv, Looks, Cut
<1> QED BY <1>1, <1>3, <1>6, <1>10, LookKeepsInv

(* What an object that lives refers to lives, and no suspect is left that   *)
(* the object refers to.                                                    *)
LEMMA TraceLiveKeepsInv ==
  ASSUME Inv, Looks, NEW o \in Handled, TraceLive(o)
  PROVE  Inv'
<1>1. PICK S, T, c, w : /\ S = gc.suspects /\ T = gc.todo /\ c = gc.count /\ w = gc'
                        /\ gc = Work(gc.phase, T, S, c)
  BY DEF Inv, TypeInv
<1>2. PICK F : F = enum_refs(o) \cap S OBVIOUS
<1>3. /\ gc.phase = "trace" /\ o \in T /\ flag' = flag
      /\ gc' = [gc EXCEPT !.suspects = @ \ F, !.todo = (@ \ {o}) \cup F]
  BY <1>1, <1>2 DEF TraceLive
<1>4. /\ S \subseteq known /\ T \subseteq known /\ c \in [Handled -> Int]
      /\ \A p \in S : flag[p] /\ c[p] <= 0 => Cut(p, S \cup T)
      /\ known \subseteq Handled
  BY <1>1, <1>3 DEF Inv, GcInv, TypeInv
<1>5. PICK A, B : A = S \ F /\ B = (T \ {o}) \cup F OBVIOUS
<1>6. w = Work("trace", B, A, c)
  <2>1. w = [[Work("trace", T, S, c) EXCEPT !.suspects = A] EXCEPT !.todo = B]
    BY <1>1, <1>3, <1>5
  <2>2. [Work("trace", T, S, c) EXCEPT !.suspects = A] = Work("trace", T, A, c) BY DEF Work
  <2>3. [Work("trace", T, A, c) EXCEPT !.todo = B] = Work("trace", B, A, c) BY DEF Work
  <2> QED BY <2>1, <2>2, <2>3
<1>7. /\ w.phase = "trace" /\ w.todo = B /\ w.suspects = A /\ w.count = c
      /\ w = Work(w.phase, w.todo, w.suspects, w.count)
  BY <1>6, WorkFields
<1>8. \A p : V(p)' = V(p) /\ V(p) \in Nat /\ In(p)' = In(p) BY LookSame
<1>9. A \subseteq known /\ B \subseteq known BY <1>2, <1>4, <1>5
<1>10. ASSUME NEW p \in A, flag[p], c[p] <= 0 PROVE Cut(p, A \cup B)'
  <2>1. Cut(p, S \cup T) BY <1>4, <1>5, <1>10
  <2>2. o \notin In(p)
    <3>1. p # Null BY <1>4, <1>9, NullIsNoObject
    <3>2. data[o] = p => p \in F BY <3>1, <1>2, <1>5 DEF enum_refs
    <3> QED BY <3>2, <1>5 DEF In
  <2>3. In(p) \subseteq A \cup B BY <2>1, <2>2, <1>5 DEF Cut
  <2> QED BY <2>1, <2>3, <1>8 DEF Cut
<1>11. GcInv'
  <2>1. \A p \in A : flag'[p] /\ c[p] <= 0 => Cut(p, A \cup B)' BY <1>3, <1>10
  <2> QED BY <2>1, <1>1, <1>7, <1>9 DEF GcInv, Looks, Cut
<1> QED BY <1>1, <1>4, <1>7, <1>11, LookKeepsInv

(* The collector goes on: what is subtracted everywhere is what scripts and *)
(* live objects refer to, and what is left when all that is traced has no   *)
(* references but those of other suspects.                                  *)
LEMMA NextPhaseKeepsInv ==
  ASSUME Inv, Looks, NextPhase
  PROVE  Inv'
<1>1. PICK S, T, c, w : /\ S = gc.suspects /\ T = gc.todo /\ c = gc.count /\ w = gc'
                        /\ gc = Work(gc.phase, T, S, c)
  BY DEF Inv, TypeInv
<1>2. /\ S \subseteq known /\ T \subseteq known /\ c \in [Handled -> Int]
      /\ known \subseteq Handled /\ known' = known
  BY <1>1 DEF Inv, GcInv, TypeInv, Looks
<1>3. \A p : V(p)' = V(p) /\ V(p) \in Nat /\ In(p)' = In(p) BY LookSame
<1>4. PICK z : z = Idle.count OBVIOUS
<1>5. z \in [Handled -> Int] BY <1>4 DEF Idle
<1>6. CASE /\ gc.phase = "flag" /\ T = {}
           /\ gc' = [gc EXCEPT !.phase = "count", !.todo = S]
  <2>1. w = Work("count", S, S, c)
    <3>1. w = [[Work("flag", T, S, c) EXCEPT !.phase = "count"] EXCEPT !.todo = S]
      BY <1>1, <1>6
    <3>2. [Work("flag", T, S, c) EXCEPT !.phase = "count"] = Work("count", T, S, c) BY DEF Work
    <3>3. [Work("count", T, S, c) EXCEPT !.todo = S] = Work("count", S, S, c) BY DEF Work
    <3> QED BY <3>1, <3>2, <3>3
  <2>2. /\ w.phase = "count" /\ w.todo = S /\ w.suspects = S /\ w.count = c
        /\ w = Work(w.phase, w.todo, w.suspects, w.count)
    BY <2>1, WorkFields
  <2>3. flag' = flag BY <1>1, <2>2 DEF NextPhase
  <2>4. \A p \in S : flag[p] => Over(p, {}) BY <1>1, <1>6 DEF Inv, GcInv
  <2>5. S \ S = {} OBVIOUS
  <2>6. \A p \in S : flag'[p] => w.count[p] >= V(p)' + Cardinality(In(p)' \ (S \ S))
    BY <2>2, <2>3, <2>4, <2>5, <1>1, <1>3 DEF Over
  <2>7. GcInv' BY <2>2, <2>6, <1>1, <1>2 DEF GcInv, Over
  <2> QED BY <2>2, <2>7, <1>1, <1>2, LookKeepsInv
<1>7. CASE /\ gc.phase = "count" /\ T = {} /\ gc' = [gc EXCEPT !.phase = "trace"]
  <2>1. w = Work("trace", {}, S, c)
    <3>1. w = [Work("count", {}, S, c) EXCEPT !.phase = "trace"] BY <1>1, <1>7
    <3>2. [Work("count", {}, S, c) EXCEPT !.phase = "trace"] = Work("trace", {}, S, c) BY DEF Work
    <3> QED BY <3>1, <3>2
  <2>2. /\ w.phase = "trace" /\ w.todo = {} /\ w.suspects = S /\ w.count = c
        /\ w = Work(w.phase, w.todo, w.suspects, w.count)
    BY <2>1, WorkFields
  <2>3. flag' = flag BY <1>1, <2>2 DEF NextPhase
  <2>4. \A p \in S : flag[p] => Over(p, S)
    <3>1. S \ T = S BY <1>7
    <3>2. \A p \in S : flag[p] => Over(p, S \ T) BY <1>1, <1>7 DEF Inv, GcInv
    <3> QED BY <3>1, <3>2
  <2>5. ASSUME NEW p \in S, flag'[p], c[p] <= 0 PROVE V(p)' = 0 /\ In(p)' \subseteq S
    <3>1. PICK A : A = In(p) \ S OBVIOUS
    <3>2. c[p] >= V(p) + Cardinality(A) BY <2>3, <2>4, <2>5, <3>1, <1>1 DEF Over
    <3>3. IsFiniteSet(A)
      <4>1. A \in SUBSET Handled BY <3>1 DEF In
      <4> QED BY <4>1, Finite, FS_Subset
    <3>4. Cardinality(A) \in Nat /\ (Cardinality(A) = 0 <=> A = {})
      BY <3>3, FS_CardinalityType, FS_EmptySet
    <3>5. c[p] \in Int /\ V(p) \in Nat BY <1>2, <1>3
    <3>6. V(p) = 0 /\ Cardinality(A) = 0 BY <3>2, <3>4, <3>5, <2>5
    <3> QED BY <3>1, <3>4, <3>6, <1>3
  <2>6. \A p \in S : flag'[p] /\ w.count[p] <= 0 => V(p)' = 0 /\ In(p)' \subseteq S \cup {}
    BY <2>2, <2>5
  <2>7. GcInv' BY <2>2, <2>6, <1>1, <1>2 DEF GcInv, Cut
  <2> QED BY <2>2, <2>7, <1>1, <1>2, LookKeepsInv
<1>8. CASE /\ gc.phase = "trace" /\ T = {} /\ \A o \in S : ~SurelyLive(o)
           /\ gc' = [gc EXCEPT !.phase = "break", !.count = Idle.count]
  <2>1. w = Work("break", {}, S, z)
    <3>1. w = [[Work("trace", {}, S, c) EXCEPT !.phase = "break"] EXCEPT !.count = z]
      BY <1>1, <1>4, <1>8
    <3>2. [Work("trace", {}, S, c) EXCEPT !.phase = "break"] = Work("break", {}, S, c) BY DEF Work
    <3>3. [Work("break", {}, S, c) EXCEPT !.count = z] = Work("break", {}, S, z) BY DEF Work
    <3> QED BY <3>1, <3>2, <3>3
  <2>2. /\ w.phase = "break" /\ w.todo = {} /\ w.suspects = S /\ w.count = z
        /\ w = Work(w.phase, w.todo, w.suspects, w.count)
    BY <2>1, WorkFields
  <2>3. \A p \in S : flag[p] /\ c[p] <= 0
    <3>1. \A p \in S : c[p] \in Int BY <1>2
    <3> QED BY <3>1, <1>1, <1>8 DEF SurelyLive
  <2>4. \A p \in S : Cut(p, S \cup T) BY <2>3, <1>1, <1>8 DEF Inv, GcInv
  <2>5. \A p \in S : V(p)' = 0 /\ In(p)' \subseteq S BY <2>4, <1>3, <1>8 DEF Cut
  <2>6. GcInv' BY <2>2, <2>5, <1>1, <1>2 DEF GcInv, Cut
  <2> QED BY <2>2, <2>6, <1>1, <1>5, LookKeepsInv
<1>9. CASE /\ gc.phase = "break" /\ S = {}
           /\ gc' = [gc EXCEPT !.phase = "destroy", !.todo = known]
  <2>1. w = Work("destroy", known, {}, c)
    <3>1. w = [[Work("break", T, {}, c) EXCEPT !.phase = "destroy"] EXCEPT !.todo = known]
      BY <1>1, <1>9
    <3>2. [Work("break", T, {}, c) EXCEPT !.phase = "destroy"] = Work("destroy", T, {}, c)
      BY DEF Work
    <3>3. [Work("destroy", T, {}, c) EXCEPT !.todo = known] = Work("destroy", known, {}, c)
      BY DEF Work
    <3> QED BY <3>1, <3>2, <3>3
  <2>2. /\ w.phase = "destroy" /\ w.todo = known /\ w.suspects = {} /\ w.count = c
        /\ w = Work(w.phase, w.todo, w.suspects, w.count)
    BY <2>1, WorkFields
  <2>3. GcInv' BY <2>2, <1>1, <1>2 DEF GcInv
  <2> QED BY <2>2, <2>3, <1>1, <1>2, LookKeepsInv
<1>10. CASE gc.phase = "destroy" /\ T = {} /\ gc' = Idle
  <2>1. w = Work("idle", {}, {}, z) BY <1>1, <1>4, <1>10 DEF Idle, Work
  <2>2. /\ w.phase = "idle" /\ w.todo = {} /\ w.suspects = {} /\ w.count = z
        /\ w = Work(w.phase, w.todo, w.suspects, w.count)
    BY <2>1, WorkFields
  <2>3. GcInv' BY <2>2, <1>1 DEF GcInv
  <2> QED BY <2>2, <2>3, <1>1, <1>5, LookKeepsInv
<1> QED BY <1>1, <1>6, <1>7, <1>8, <1>9, <1>10 DEF NextPhase

(* A suspect releases what it refers to, and has no references but those of *)
(* other suspects.                                                          *)
LEMMA BreakCycleKeepsInv ==
  ASSUME Inv, UNCHANGED <<gcType, var, owned, call, lost>>, NEW o \in Handled, BreakCycle(o)
  PROVE  Inv'
<1>1. PICK S, T, c, w : /\ S = gc.suspects /\ T = gc.todo /\ c = gc.count /\ w = gc'
                        /\ gc = Work(gc.phase, T, S, c)
  BY DEF Inv, TypeInv
<1>2. /\ gc.phase = "break" /\ o \in S /\ known' = known
      /\ gc' = [gc EXCEPT !.suspects = @ \ {o}]
  BY <1>1 DEF BreakCycle
<1>3. PICK k : k = destroy(heap, o) /\ SetHeap(k) BY DEF BreakCycle
<1>4. /\ S \subseteq known /\ T \subseteq known /\ c \in [Handled -> Int]
      /\ \A p \in S : Cut(p, S)
      /\ known \subseteq Handled /\ HeapOK(heap, Ext)
      /\ data \in [Handled -> Handled \cup {Null}]
  BY <1>1, <1>2, HeapIs DEF Inv, GcInv, TypeInv, HeapOK, HeapType
<1>5. Ext[o] > 0 BY <1>2, <1>4, KnownIsCounted
<1>6. HeapOK(k, Ext) /\ Less(heap, k) /\ k.data[o] = Null
  BY <1>3, <1>4, <1>5, DestroyGood
<1>7. heap' = k BY <1>3, <1>6, SetHeapIs
<1>8. /\ Fades /\ data'[o] = Null
      /\ \A p \in Handled : data'[p] \in {data[p], Null}
  BY <1>6, <1>7, HeapIs DEF Less, Fades
<1>9. ASSUME NEW p \in Handled, V(p) > 0 PROVE life'[p] = life[p]
  <2>1. Ext[p] = V(p) + Bit(p \in known) /\ V(p) \in Nat BY ExtIs, VIs
  <2>2. Ext[p] > 0 BY <2>1, <1>9 DEF Bit
  <2>3. life[p] = "live" /\ life'[p] = "live"
    BY <2>2, <1>4, <1>6, <1>7, HeapIs DEF HeapOK, LiveOnly
  <2> QED BY <2>3
<1>10. Frame' = Frame /\ \A p : V(p)' = V(p) /\ V(p) \in Nat BY <1>8, <1>9, OutsideRemains
<1>11. HeapOK(heap', Ext')
  <2>1. Ext' = Ext BY <1>2, <1>10, ExtSame
  <2> QED BY <2>1, <1>6, <1>7
<1>12. PICK A : A = S \ {o} OBVIOUS
<1>13. w = Work("break", T, A, c)
  <2>1. w = [Work("break", T, S, c) EXCEPT !.suspects = A] BY <1>1, <1>2, <1>12
  <2>2. [Work("break", T, S, c) EXCEPT !.suspects = A] = Work("break", T, A, c) BY DEF Work
  <2> QED BY <2>1, <2>2
<1>14. /\ w.phase = "break" /\ w.todo = T /\ w.suspects = A /\ w.count = c
       /\ w = Work(w.phase, w.todo, w.suspects, w.count)
  BY <1>13, WorkFields
<1>15. ASSUME NEW p \in A PROVE V(p)' = 0 /\ In(p)' \subseteq A
  <2>1. V(p) = 0 /\ In(p) \subseteq S BY <1>4, <1>12 DEF Cut
  <2>2. p \in Handled /\ p # Null BY <1>4, <1>12, NullIsNoObject
  <2>3. In(p)' \subseteq In(p) BY <2>2, <1>8, InShrinks
  <2>4. o \notin In(p)' BY <2>2, <1>8 DEF In
  <2> QED BY <2>1, <2>3, <2>4, <1>10, <1>12
<1>16. GcInv'
  <2>1. A \subseteq known' /\ T \subseteq known' BY <1>2, <1>4, <1>12
  <2> QED BY <2>1, <1>1, <1>14, <1>15 DEF GcInv, Cut
<1>17. known' \subseteq known /\ \A p \in known : p \in known' BY <1>2
<1> QED BY <1>1, <1>4, <1>8, <1>9, <1>11, <1>14, <1>16, <1>17, CollectorKeepsInv

(* The collector releases its reference when it is the last.                *)
LEMMA DestroyGarbageKeepsInv ==
  ASSUME Inv, UNCHANGED <<gcType, var, owned, call, lost>>, NEW o \in Handled, DestroyGarbage(o)
  PROVE  Inv'
<1>1. PICK S, T, c, w : /\ S = gc.suspects /\ T = gc.todo /\ c = gc.count /\ w = gc'
                        /\ gc = Work(gc.phase, T, S, c)
  BY DEF Inv, TypeInv
<1>2. /\ gc.phase = "destroy" /\ o \in T
      /\ gc' = [gc EXCEPT !.todo = @ \ {o}]
  BY <1>1 DEF DestroyGarbage
<1>3. /\ S = {} /\ T \subseteq known /\ c \in [Handled -> Int]
      /\ known \subseteq Handled /\ HeapOK(heap, Ext) /\ Ext \in [Handled -> Nat]
      /\ data \in [Handled -> Handled \cup {Null}]
  BY <1>1, <1>2, HeapIs DEF Inv, GcInv, TypeInv, HeapOK, HeapType
<1>4. PICK B : B = T \ {o} OBVIOUS
<1>5. w = Work("destroy", B, S, c)
  <2>1. w = [Work("destroy", T, S, c) EXCEPT !.todo = B] BY <1>1, <1>2, <1>4
  <2>2. [Work("destroy", T, S, c) EXCEPT !.todo = B] = Work("destroy", B, S, c) BY DEF Work
  <2> QED BY <2>1, <2>2
<1>6. /\ w.phase = "destroy" /\ w.todo = B /\ w.suspects = S /\ w.count = c
      /\ w = Work(w.phase, w.todo, w.suspects, w.count)
  BY <1>5, WorkFields
<1>7. B \subseteq known' => GcInv' BY <1>1, <1>3, <1>6 DEF GcInv
<1>8. CASE rc[o] # 1
  <2>1. UNCHANGED <<life, rc, flag, data, known>> BY <1>8 DEF DestroyGarbage
  <2>2. Looks BY <2>1, HeapIs DEF Looks, Inv, HeapOK, HeapType
  <2>3. B \subseteq known' BY <2>1, <1>3, <1>4
  <2> QED BY <2>2, <2>3, <1>1, <1>3, <1>6, <1>7, LookKeepsInv
<1>9. CASE rc[o] = 1
  <2>1. known' = known \ {o} BY <1>9 DEF DestroyGarbage
  <2>2. PICK k, f : k = release(heap, o) /\ SetHeap(k) /\ f = Minus(Ext, o)
    BY <1>9 DEF DestroyGarbage
  <2>3. Ext[o] = V(o) + 1 /\ V(o) = 0
    <3>1. /\ Ext[o] = V(o) + 1 /\ rc[o] = V(o) + 1 + Cardinality(In(o))
          /\ V(o) \in Nat /\ Cardinality(In(o)) \in Nat
      BY <1>2, <1>3, KnownIsCounted
    <3> QED BY <3>1, <1>9
  <2>4. HeapOK(k, f) /\ Dropped(heap, k, f)
    <3>1. Ext[o] > 0 BY <2>3
    <3> QED BY <3>1, <2>2, <1>3, ReleaseGood
  <2>5. heap' = k BY <2>2, <2>4, SetHeapIs
  <2>6. /\ Fades /\ \A p \in Handled : data'[p] \in {data[p], Null}
    BY <2>4, <2>5, HeapIs DEF Dropped, Less, Fades
  <2>7. \A p \in Handled : f[p] = Ext[p] - Bit(p = o)
    BY <1>3, <2>2, <2>3, MinusIs
  <2>8. ASSUME NEW p \in Handled, V(p) > 0 PROVE life'[p] = life[p]
    <3>1. p # o BY <2>3, <2>8
    <3>2. Ext[p] = V(p) + Bit(p \in known) /\ V(p) \in Nat BY ExtIs, VIs
    <3>3. f[p] > 0 BY <3>1, <3>2, <2>7, <2>8 DEF Bit
    <3> QED BY <3>3, <2>4, <2>5, HeapIs DEF Dropped
  <2>9. Frame' = Frame /\ \A p : V(p)' = V(p) /\ V(p) \in Nat BY <2>6, <2>8, OutsideRemains
  <2>10. \A p \in Handled : f[p] = Ext'[p]
    <3> SUFFICES ASSUME NEW p \in Handled PROVE f[p] = Ext'[p] OBVIOUS
    <3>1. Ext[p] = V(p) + Bit(p \in known) /\ Ext'[p] = V(p)' + Bit(p \in known') BY ExtIs
    <3>2. V(p)' = V(p) /\ V(p) \in Nat BY <2>9
    <3>3. CASE p = o
      <4>1. Bit(p \in known) = 1 /\ Bit(p \in known') = 0 /\ Bit(p = o) = 1
        BY <3>3, <2>1, <1>2, <1>3 DEF Bit
      <4> QED BY <4>1, <3>1, <3>2, <2>7
    <3>4. CASE p # o
      <4>1. Bit(p = o) = 0 /\ (p \in known' <=> p \in known) BY <3>4, <2>1 DEF Bit
      <4>2. Ext[p] \in Nat BY <1>3
      <4> QED BY <4>1, <4>2, <3>1, <3>2, <2>7
    <3> QED BY <3>3, <3>4
  <2>11. HeapOK(heap', Ext') BY <2>4, <2>5, <2>10, SameExt
  <2>12. life'[o] # "live"
    <3>1. PICK D, h : D = Doomed(heap, o) /\ h = heap OBVIOUS
    <3>2. D \in SUBSET Handled /\ Settled(heap, o, D) BY <3>1, <1>3, HeapIs, DoomedIsLeast
    <3>3. o \in D BY <3>2, <1>9, HeapIs DEF Settled
    <3>4. D = Doomed(h, o) /\ k = release(h, o) BY <3>1, <2>2
    <3>5. /\ k = Heap(k.life, k.rc, k.flag, k.data)
          /\ k.life = [p \in Objects |-> IF p \in D THEN Dying(h.life[p]) ELSE h.life[p]]
          /\ k.rc = [p \in Handled |-> h.rc[p] - Cardinality({q \in D : h.data[q] = p})
                                               - (IF p = o THEN 1 ELSE 0)]
          /\ k.flag = h.flag
          /\ k.data = [p \in Handled |-> IF p \in D THEN Null ELSE h.data[p]]
      BY <3>4, ReleaseIs
    <3>6. k.life[o] = Dying(h.life[o]) BY <3>3, <3>5, NullIsNoObject
    <3> QED BY <3>6, <2>5, HeapIs DEF Dying
  <2>13. known' \subseteq known /\ \A p \in known : p \in known' \/ life'[p] # "live"
    BY <2>1, <2>12
  <2>14. B \subseteq known' BY <2>1, <1>3, <1>4
  <2> QED BY <2>6, <2>8, <2>11, <2>13, <2>14, <1>1, <1>3, <1>6, <1>7, CollectorKeepsInv
<1> QED BY <1>8, <1>9

(* The collector's steps keep the invariant.                                *)
LEMMA CollectorStepKeepsInv ==
  ASSUME Inv, Collector
  PROVE  Inv'
<1>1. UNCHANGED <<gcType, var, owned, call, lost>> BY DEF Collector
<1>2. flag \in [Handled -> BOOLEAN] BY HeapIs DEF Inv, HeapOK, HeapType
<1>3. CASE StartCycle
  <2>1. Looks BY <1>1, <1>2, <1>3 DEF StartCycle, Looks
  <2> QED BY <2>1, <1>3, StartCycleKeepsInv
<1>4. CASE NextPhase
  <2>1. flag' \in [Handled -> BOOLEAN] /\ UNCHANGED <<life, rc, data, known>>
    BY <1>2, <1>4 DEF NextPhase
  <2>2. Looks BY <2>1, <1>1 DEF Looks
  <2> QED BY <2>2, <1>4, NextPhaseKeepsInv
<1>5. ASSUME NEW o \in Handled, SetFlag(o) PROVE Inv'
  <2>1. Looks BY <1>1, <1>2, <1>5 DEF SetFlag, Looks
  <2> QED BY <2>1, <1>5, SetFlagKeepsInv
<1>6. ASSUME NEW o \in Handled, CountReferences(o) PROVE Inv'
  <2>1. Looks BY <1>1, <1>2, <1>6 DEF CountReferences, Looks
  <2> QED BY <2>1, <1>6, CountReferencesKeepsInv
<1>7. ASSUME NEW o \in Handled, FindLive(o) PROVE Inv'
  <2>1. Looks BY <1>1, <1>2, <1>7 DEF FindLive, Looks
  <2> QED BY <2>1, <1>7, FindLiveKeepsInv
<1>8. ASSUME NEW o \in Handled, TraceLive(o) PROVE Inv'
  <2>1. Looks BY <1>1, <1>2, <1>8 DEF TraceLive, Looks
  <2> QED BY <2>1, <1>8, TraceLiveKeepsInv
<1>9. ASSUME NEW o \in Handled, BreakCycle(o) PROVE Inv'
  BY <1>1, <1>9, BreakCycleKeepsInv
<1>10. ASSUME NEW o \in Handled, DestroyGarbage(o) PROVE Inv'
  BY <1>1, <1>10, DestroyGarbageKeepsInv
<1> QED BY <1>3, <1>4, <1>5, <1>6, <1>7, <1>8, <1>9, <1>10 DEF Collector

(***************************************************************************)
(* The invariant of the specification.                                     *)
(***************************************************************************)
(* At first nothing exists.                                                 *)
LEMMA InitInv == Init => Inv
<1> SUFFICES ASSUME Init PROVE Inv OBVIOUS
<1>1. /\ life = [o \in Objects |-> "unborn"] /\ rc = [o \in Handled |-> 0]
      /\ flag = [o \in Handled |-> FALSE] /\ data = [o \in Handled |-> Null]
      /\ gcType = [c \in Containers |-> FALSE] /\ var = [x \in Vars |-> Null]
      /\ owned = {} /\ lost = {} /\ known = {} /\ call = NoCall /\ gc = Idle
  BY DEF Init
<1>2. gc = Work("idle", {}, {}, Idle.count) /\ Idle.count \in [Handled -> Int]
  BY <1>1 DEF Idle, Work
<1>3. /\ gc.phase = "idle" /\ gc.todo = {} /\ gc.suspects = {} /\ gc.count = Idle.count
      /\ gc = Work(gc.phase, gc.todo, gc.suspects, gc.count)
  <2>1. PICK w, z : w = gc /\ z = Idle.count OBVIOUS
  <2>2. w = Work("idle", {}, {}, z) BY <1>2, <2>1
  <2> QED BY <2>1, <2>2, WorkFields
<1>4. TypeInv BY <1>1, <1>2, <1>3, NoCallIs DEF TypeInv
<1>5. GcInv BY <1>3 DEF GcInv
<1>6. CallInv BY <1>1 DEF CallInv
<1>7. CollectorIsTold
  <2>1. \A c \in Containers : life[c] # "live" BY <1>1 DEF Objects, Handled
  <2> QED BY <2>1 DEF CollectorIsTold
<1>8. OwnedLive /\ FailedAreDestroyed BY <1>1 DEF OwnedLive, FailedAreDestroyed
<1>9. ASSUME NEW o \in Handled PROVE Ext[o] = 0 /\ Count(Handled, data, o) = 0
  <2>1. V(o) = 0
    <3>1. o \notin Frame BY <1>1, FrameIs
    <3>2. \A x \in Vars : var[x] # o BY <1>1, NullIsNoObject
    <3> QED BY <3>1, <3>2, VIs
  <2>2. Ext[o] = V(o) + Bit(o \in known) BY ExtIs
  <2>3. Bit(o \in known) = 0 BY <1>1 DEF Bit
  <2>4. \A p \in Handled : data[p] # o BY <1>1, NullIsNoObject
  <2>5. Count(Handled, data, o) = 0 BY <2>4, Finite, CountIsNat
  <2> QED BY <2>1, <2>2, <2>3, <2>5
<1>10. HeapOK(heap, Ext)
  <2>1. HeapType(heap)
    <3>1. heap = Heap(life, rc, flag, data) BY DEF heap, Heap
    <3>2. life \in [Objects -> Lives] BY <1>1 DEF Lives
    <3>3. rc \in [Handled -> Int] BY <1>1
    <3>4. \A c \in Handled : Fits(c, data[c]) BY <1>1 DEF Fits
    <3>5. flag \in [Handled -> BOOLEAN] /\ data \in [Handled -> Handled \cup {Null}] BY <1>1
    <3> QED BY <3>1, <3>2, <3>3, <3>4, <3>5, HeapIs DEF HeapType
  <2>2. Ext \in [Handled -> Nat] BY ExtIs
  <2>3. Balanced(heap, Ext) BY <1>1, <1>9, HeapIs DEF Balanced
  <2>4. LiveOnly(heap, Ext) BY <1>1, <1>9, HeapIs DEF LiveOnly
  <2> QED BY <2>1, <2>2, <2>3, <2>4 DEF HeapOK
<1> QED BY <1>4, <1>5, <1>6, <1>7, <1>8, <1>10 DEF Inv

(* Every step keeps the invariant.                                          *)
LEMMA NextKeepsInv == Inv /\ [Next]_vars => Inv'
<1> SUFFICES ASSUME Inv, [Next]_vars PROVE Inv' OBVIOUS
<1>1. CASE UNCHANGED vars
  <2>1. /\ UNCHANGED <<life, rc, flag, data, gcType, var, owned, call, lost, known, gc>>
        /\ flag \in [Handled -> BOOLEAN]
        /\ gc = Work(gc.phase, gc.todo, gc.suspects, gc.count) /\ gc.count \in [Handled -> Int]
    BY <1>1, HeapIs DEF vars, Inv, TypeInv, HeapOK, HeapType
  <2>2. Looks BY <2>1 DEF Looks
  <2>3. \A o \in known : V(o)' <= V(o)
    <3>1. \A o : V(o)' = V(o) /\ V(o) \in Nat BY <2>2, LookSame
    <3> QED BY <3>1
  <2>4. Tame BY <2>1, <2>3, TameSame
  <2>5. GcInv' BY <2>1, <2>4, TameKeepsGcInv DEF Inv
  <2> QED BY <2>1, <2>2, <2>5, LookKeepsInv
<1>2. CASE Collector BY <1>2, CollectorStepKeepsInv
<1>3. ASSUME NEW g \in Creations, NEW o \in Containers \cup Values, Begin(g, o) PROVE Inv'
  BY <1>3, BeginKeepsInv
<1>4. CASE New BY <1>4, NewKeepsInv
<1>5. CASE destroy_if_ex BY <1>5, DestroyIfExKeepsInv
<1>6. CASE delete_if_ex BY <1>6, DeleteIfExKeepsInv
<1>7. CASE Notify BY <1>7, NotifyKeepsInv
<1>8. CASE Return BY <1>8, ReturnValueKeepsInv, ReturnHandleKeepsInv
<1>9. ASSUME NEW o \in Scripts, CreateScriptObject(o) PROVE Inv'
  BY <1>9, CreateScriptObjectKeepsInv
<1>10. ASSUME NEW x \in Vars, NEW y \in Vars,
              AssignVariable(x, y) \/ Store(x, y) \/ Load(x, y)
       PROVE  Inv'
  BY <1>10, AssignVariableKeepsInv, StoreKeepsInv, LoadKeepsInv
<1>11. ASSUME NEW x \in Vars, LeaveScope(x) PROVE Inv' BY <1>11, LeaveScopeKeepsInv
<1>12. ASSUME NEW v \in Values, LeaveValue(v) PROVE Inv' BY <1>12, LeaveValueKeepsInv
<1> QED
  BY <1>1, <1>2, <1>3, <1>4, <1>5, <1>6, <1>7, <1>8, <1>9, <1>10, <1>11, <1>12
  DEF Next, Script

(* The invariant holds in every state of every behaviour.                   *)
LEMMA Invariant == Spec => []Inv
BY InitInv, NextKeepsInv, PTL DEF Spec

(***************************************************************************)
(* What the invariant says.                                                *)
(***************************************************************************)
LEMMA InvImpliesTypeOK == Inv => TypeOK
<1> SUFFICES ASSUME Inv PROVE TypeOK OBVIOUS
<1>1. /\ TypeInv /\ life \in [Objects -> Lives] /\ rc \in [Handled -> Int]
      /\ flag \in [Handled -> BOOLEAN] /\ \A c \in Handled : Fits(c, data[c])
      /\ Balanced(heap, Ext)
  BY HeapIs DEF Inv, HeapOK, HeapType
<1>2. PICK n, m : n = Cardinality(Vars) /\ m = Cardinality(Handled) OBVIOUS
<1>3. n \in Nat /\ m \in Nat BY <1>2, Finite, FS_CardinalityType
<1>4. ASSUME NEW o \in Handled PROVE rc[o] \in 0..(n + m + 2)
  <2>1. PICK i, j : i = Count(Vars, var, o) /\ j = Count(Handled, data, o) OBVIOUS
  <2>2. i \in Nat /\ i <= n /\ j \in Nat /\ j <= m BY <2>1, <1>2, Finite, CountIsNat
  <2>3. rc[o] = Ext[o] + j BY <2>1, <1>1, HeapIs DEF Balanced
  <2>4. Ext[o] = i + Bit(o \in Frame) + Bit(o \in known) BY <2>1, ExtIs DEF V
  <2>5. Bit(o \in Frame) \in 0..1 /\ Bit(o \in known) \in 0..1 BY DEF Bit
  <2> QED BY <2>2, <2>3, <2>4, <2>5, <1>3
<1>5. rc \in [Handled -> 0..(n + m + 2)] BY <1>1, <1>4
<1>6. /\ \A c \in Containers : data[c] \in Scripts \cup {Null}
      /\ \A o \in Scripts : data[o] \in Containers \cup {Null}
  BY <1>1 DEF Fits, Handled
<1>7. call.obj \in Objects \cup {Null}
  <2>1. CASE call = NoCall BY <2>1, NoCallIs
  <2>2. CASE call # NoCall
    <3>1. Creating BY <2>2 DEF Inv, CallInv
    <3> QED BY <3>1, KindOf
  <2> QED BY <2>1, <2>2
<1>8. gc.todo \cup gc.suspects \subseteq Handled BY <1>1 DEF Inv, GcInv, TypeInv
<1> QED BY <1>1, <1>2, <1>5, <1>6, <1>7, <1>8 DEF TypeOK, TypeInv, Lives

(* The kinds of references are those of the property.                       *)
LEMMA InvImpliesCounted == Inv => Counted
<1> SUFFICES ASSUME Inv, NEW o \in Handled
             PROVE  rc[o] = Cardinality({x \in Vars : var[x] = o})
                          + Cardinality({p \in Handled : data[p] = o})
                          + Cardinality({o} \cap known) + Cardinality({o} \cap Frame)
  BY DEF Counted
<1>1. PICK i, j, a, b : /\ i = Cardinality({x \in Vars : var[x] = o})
                        /\ j = Cardinality({p \in Handled : data[p] = o})
                        /\ a = Cardinality({o} \cap known) /\ b = Cardinality({o} \cap Frame)
  OBVIOUS
<1>2. i = Count(Vars, var, o) /\ j = Count(Handled, data, o) BY <1>1 DEF Count
<1>3. i \in Nat /\ j \in Nat BY <1>2, Finite, CountIsNat
<1>4. ASSUME NEW S PROVE Cardinality({o} \cap S) = Bit(o \in S)
  <2>1. CASE o \in S
    <3>1. {o} \cap S = {o} BY <2>1
    <3> QED BY <3>1, <2>1, FS_Singleton DEF Bit
  <2>2. CASE o \notin S
    <3>1. {o} \cap S = {} BY <2>2
    <3> QED BY <3>1, <2>2, FS_EmptySet DEF Bit
  <2> QED BY <2>1, <2>2
<1>5. a = Bit(o \in known) /\ b = Bit(o \in Frame) BY <1>1, <1>4
<1>6. a \in Nat /\ b \in Nat BY <1>5 DEF Bit
<1>7. Balanced(heap, Ext) BY DEF Inv, HeapOK
<1>8. rc[o] = Ext[o] + j BY <1>2, <1>7, HeapIs DEF Balanced
<1>9. Ext[o] = i + b + a BY <1>2, <1>5, ExtIs DEF V
<1> QED BY <1>1, <1>3, <1>6, <1>8, <1>9

(* The objects that live are closed: what scripts can reach is among them.  *)
LEMMA InvImpliesOnlyLiveAreKnown == Inv => OnlyLiveAreKnown
<1> SUFFICES ASSUME Inv PROVE OnlyLiveAreKnown OBVIOUS
<1>1. PICK S : S = {p \in Handled : life[p] = "live"} OBVIOUS
<1>2. LiveOnly(heap, Ext) /\ data \in [Handled -> Handled \cup {Null}] /\ TypeInv
  BY HeapIs DEF Inv, HeapOK, HeapType
<1>3. S \in SUBSET Handled BY <1>1
<1>4. Roots \subseteq S
  <2>1. \A x \in Vars : var[x] # Null => var[x] \in S BY <1>1, InVariable
  <2>2. Frame \subseteq S BY <1>1, FrameIs
  <2> QED BY <2>1, <2>2 DEF Roots
<1>5. \A p \in S : data[p] \in S \cup {Null}
  BY <1>1, <1>2, HeapIs DEF LiveOnly
<1>6. Reachable \subseteq S BY <1>3, <1>4, <1>5 DEF Reachable
<1>7. known \subseteq S
  <2>1. ASSUME NEW o \in known PROVE o \in S
    <3>1. o \in Handled /\ Ext[o] = V(o) + 1 /\ V(o) \in Nat BY <2>1, KnownIsCounted
    <3>2. Ext[o] > 0 BY <3>1
    <3> QED BY <3>1, <3>2, <1>1, <1>2, HeapIs DEF LiveOnly
  <2> QED BY <2>1
<1> QED BY <1>1, <1>6, <1>7 DEF OnlyLiveAreKnown, Inv, OwnedLive

(* What is no suspect is closed, too, once cycles are broken.               *)
LEMMA InvImpliesOnlyGarbageIsBroken == Inv => OnlyGarbageIsBroken
<1> SUFFICES ASSUME Inv, gc.phase = "break" PROVE gc.suspects \cap Reachable = {}
  BY DEF OnlyGarbageIsBroken
<1>1. PICK S : S = Handled \ gc.suspects OBVIOUS
<1>2. data \in [Handled -> Handled \cup {Null}] /\ TypeInv
      /\ \A o \in gc.suspects : Cut(o, gc.suspects)
  BY HeapIs DEF Inv, HeapOK, HeapType, GcInv
<1>3. S \in SUBSET Handled BY <1>1
<1>4. Roots \subseteq S
  <2>1. \A o \in gc.suspects : V(o) = 0 BY <1>2 DEF Cut
  <2>2. \A o \in gc.suspects : o \notin Frame /\ \A x \in Vars : var[x] # o BY <2>1, VIs
  <2>3. Frame \subseteq Handled /\ \A x \in Vars : var[x] \in Handled \cup {Null}
    BY <1>2, FrameIs DEF TypeInv
  <2> QED BY <2>2, <2>3, <1>1 DEF Roots
<1>5. \A p \in S : data[p] \in S \cup {Null}
  <2>1. ASSUME NEW p \in S, data[p] \in gc.suspects PROVE FALSE
    <3>1. p \in In(data[p]) BY <2>1, <1>1 DEF In
    <3>2. In(data[p]) \subseteq gc.suspects BY <2>1, <1>2 DEF Cut
    <3> QED BY <3>1, <3>2, <1>1
  <2> QED BY <2>1, <1>1, <1>2
<1>6. Reachable \subseteq S BY <1>3, <1>4, <1>5 DEF Reachable
<1> QED BY <1>1, <1>6

(* The variables keep their types, and no counter exceeds what may refer to *)
(* an object.                                                               *)
THEOREM TypeCorrect == Spec => []TypeOK
BY Invariant, InvImpliesTypeOK, PTL

(* The counter of an object that lives is the number of its references: no  *)
(* order of counting and releasing in container::single, and no path of a   *)
(* factory, loses or invents one (memory.hpp:1002-1180, class.hpp:484-1060).*)
THEOREM CountersAreRight == Spec => []Counted
BY Invariant, InvImpliesCounted, PTL

(* Nobody refers to an object that was destroyed, or is not constructed.    *)
THEOREM ReferencesAreLive == Spec => []OnlyLiveAreKnown
BY Invariant, InvImpliesOnlyLiveAreKnown, PTL

(* The collector knows the containers whose type has its flag, and no       *)
(* others, once their factories have returned (class.hpp:694, 4800, 5165).  *)
THEOREM CollectorHears == Spec => []CollectorIsTold
<1>1. Inv => CollectorIsTold BY DEF Inv
<1> QED BY <1>1, Invariant, PTL

(* The collector never forces a release on what a script can reach, however *)
(* scripts and collector take turns (doc/advanced/gc.rst:88-104).           *)
THEOREM CyclesAreGarbage == Spec => []OnlyGarbageIsBroken
BY Invariant, InvImpliesOnlyGarbageIsBroken, PTL

(* What a guarded function constructs with an exception is destroyed by it  *)
(* (class.hpp:37).                                                          *)
THEOREM GuardsDestroy == Spec => []FailedAreDestroyed
<1>1. Inv => FailedAreDestroyed BY DEF Inv
<1> QED BY <1>1, Invariant, PTL
=============================================================================
