---------------------------- MODULE BindingProofs ----------------------------
(***************************************************************************)
(* Proofs about Binding, for functions of any number of arguments.         *)
(***************************************************************************)
EXTENDS Binding, SequenceTheorems, FiniteSetTheorems, FunctionTheorems, TLAPS

(***************************************************************************)
(* Sequences.                                                              *)
(***************************************************************************)

\* Induction: a set that has 0, and n + 1 if it has n, has every number.
LEMMA Induction ==
  ASSUME NEW S, 0 \in S, \A n \in Nat : n \in S => n + 1 \in S
  PROVE  Nat \subseteq S
<1> SUFFICES ASSUME NEW n \in Nat, n \notin S PROVE FALSE OBVIOUS
<1> DEFINE T == {1..i : i \in (0..n) \ S}
           R == StrictSubsetOrdering(1..n)
<1>1. IsWellFoundedOn(R, FiniteSubsetsOf(1..n)) BY FS_StrictSubsetOrderingWellFounded
<1>2. T \subseteq FiniteSubsetsOf(1..n)
  <2> SUFFICES ASSUME NEW i \in (0..n) \ S PROVE 1..i \in FiniteSubsetsOf(1..n) OBVIOUS
  <2>a. i \in 0..n OBVIOUS
  <2>1. 1..i \subseteq 1..n BY <2>a
  <2>2. IsFiniteSet(1..i) BY <2>a, FS_Interval
  <2> QED BY <2>1, <2>2 DEF FiniteSubsetsOf
<1>3. T # {}
  <2>1. n \in (0..n) \ S OBVIOUS
  <2> QED BY <2>1
<1>4. \E x \in T : \A y \in T : ~(<<y, x>> \in R)
  <2> HIDE DEF T, R
  <2> QED BY <1>1, <1>2, <1>3, WFMin
<1>5. PICK i \in (0..n) \ S : \A y \in T : ~(<<y, 1..i>> \in R) BY <1>4
<1>6. i \in Nat /\ i # 0 /\ i - 1 \in Nat /\ i - 1 \in 0..n
  <2>1. i \in 0..n /\ i \notin S OBVIOUS
  <2> QED BY <2>1
<1>7. i - 1 \notin S
  <2>1. (i - 1) + 1 = i BY <1>6
  <2> QED BY <2>1, <1>6
<1>8. 1..i - 1 \in T BY <1>6, <1>7
<1>9. <<1..i - 1, 1..i>> \in R
  <2>1. 1..i - 1 \subseteq 1..i /\ 1..i - 1 # 1..i /\ 1..i \subseteq 1..n /\ 1..i - 1 \subseteq 1..n
    BY <1>6
  <2> QED BY <2>1 DEF StrictSubsetOrdering
<1> QED BY <1>5, <1>8, <1>9

\* What FlattenSeq has put together of the sequences of s.
IsFlatten(s, n, f) == f = [i \in 1..n |-> IF i = 1 THEN s[i] ELSE f[i - 1] \o s[i]]

\* There is such a function.
LEMMA FlattenExists ==
  ASSUME NEW s, NEW n \in Nat
  PROVE  \E f : IsFlatten(s, n, f)
<1> DEFINE S == {k \in Nat : \E f : IsFlatten(s, k, f)}
<1>1. 0 \in S
  <2>1. PICK f : f = [i \in 1..0 |-> s[i]] OBVIOUS
  <2>2. f = [i \in 1..0 |-> IF i = 1 THEN s[i] ELSE f[i - 1] \o s[i]] BY <2>1
  <2> QED BY <2>2 DEF IsFlatten
<1>2. ASSUME NEW k \in Nat, k \in S PROVE k + 1 \in S
  <2>1. PICK f : IsFlatten(s, k, f) BY <1>2
  <2>2. PICK g : g = [i \in 1..k + 1 |-> IF i \in 1..k THEN f[i]
                                         ELSE IF i = 1 THEN s[i] ELSE f[i - 1] \o s[i]]
    OBVIOUS
  <2>3. ASSUME NEW i \in 1..k + 1
        PROVE  g[i] = IF i = 1 THEN s[i] ELSE g[i - 1] \o s[i]
    <3>1. CASE i \in 1..k
      <4>1. g[i] = f[i] /\ f[i] = IF i = 1 THEN s[i] ELSE f[i - 1] \o s[i]
        BY <2>1, <2>2, <3>1 DEF IsFlatten
      <4>2. i # 1 => i - 1 \in 1..k BY <3>1
      <4>3. i # 1 => g[i - 1] = f[i - 1] BY <4>2, <2>2
      <4> QED BY <4>1, <4>3
    <3>2. CASE i \notin 1..k
      <4>1. i = k + 1 BY <3>2
      <4>2. g[i] = IF i = 1 THEN s[i] ELSE f[i - 1] \o s[i] BY <2>2, <3>2
      <4>3. i # 1 => i - 1 \in 1..k /\ i - 1 \in 1..k + 1 BY <4>1
      <4>4. i # 1 => g[i - 1] = f[i - 1] BY <4>3, <2>2
      <4> QED BY <4>2, <4>4
    <3> QED BY <3>1, <3>2
  <2>4. g = [i \in 1..k + 1 |-> IF i = 1 THEN s[i] ELSE g[i - 1] \o s[i]]
    <3>1. g = [i \in 1..k + 1 |-> g[i]] BY <2>2
    <3> QED BY <2>3, <3>1
  <2>5. IsFlatten(s, k + 1, g) BY <2>4 DEF IsFlatten
  <2> QED BY <2>5
<1>3. Nat \subseteq S BY <1>1, <1>2, Induction
<1> QED BY <1>3

\* F has what FlattenSeq has put together of the first sequences of s.
ArePartsOf(F, X, n, s) ==
  /\ F \in [0..n -> Seq(X)]
  /\ F[0] = <<>> /\ F[n] = FlattenSeq(s)
  /\ \A i \in 1..n : F[i] = F[i - 1] \o s[i]

\* FlattenSeq puts one sequence after the other.
LEMMA FlattenParts ==
  ASSUME NEW X, NEW n \in Nat, NEW s \in [1..n -> Seq(X)]
  PROVE  \E F : ArePartsOf(F, X, n, s)
<1>1. Len(s) = n /\ s \in Seq(Seq(X)) OBVIOUS
<1>2. PICK f : f = CHOOSE g : IsFlatten(s, n, g) OBVIOUS
<1>3. IsFlatten(s, n, f) BY <1>2, FlattenExists
<1>4. f = [i \in 1..n |-> IF i = 1 THEN s[i] ELSE f[i - 1] \o s[i]] BY <1>3 DEF IsFlatten
<1>5. FlattenSeq(s) = IF n = 0 THEN s ELSE f[n]
  BY <1>1, <1>2 DEF FlattenSeq, IsFlatten
<1>6. PICK F : F = [i \in 0..n |-> IF i = 0 THEN <<>> ELSE f[i]] OBVIOUS
<1>7. F[0] = <<>> BY <1>6
<1>8. \A i \in 1..n : F[i] = IF i = 1 THEN s[1] ELSE F[i - 1] \o s[i]
  <2> SUFFICES ASSUME NEW i \in 1..n PROVE F[i] = IF i = 1 THEN s[1] ELSE F[i - 1] \o s[i]
    OBVIOUS
  <2>1. F[i] = f[i] BY <1>6
  <2>2. f[i] = IF i = 1 THEN s[i] ELSE f[i - 1] \o s[i] BY <1>4
  <2>3. i # 1 => F[i - 1] = f[i - 1]
    <3>1. i # 1 => i - 1 \in 0..n /\ i - 1 # 0 OBVIOUS
    <3> QED BY <3>1, <1>6
  <2> QED BY <2>1, <2>2, <2>3
<1>9. ASSUME NEW i \in 0..n PROVE F[i] \in Seq(X)
  <2> DEFINE S == {k \in Nat : k \in 0..n => F[k] \in Seq(X)}
  <2>1. 0 \in S
    <3>1. <<>> \in Seq(X) OBVIOUS
    <3> QED BY <3>1, <1>7
  <2>2. ASSUME NEW k \in Nat, k \in S PROVE k + 1 \in S
    <3> SUFFICES ASSUME k + 1 \in 0..n PROVE F[k + 1] \in Seq(X) OBVIOUS
    <3>1. k \in 0..n /\ k + 1 \in 1..n /\ (k + 1) - 1 = k OBVIOUS
    <3>2. F[k] \in Seq(X) /\ s[k + 1] \in Seq(X) BY <2>2, <3>1
    <3>3. F[k] \o s[k + 1] \in Seq(X) BY <3>2, ConcatProperties
    <3>4. F[k + 1] = s[k + 1] \/ F[k + 1] = F[k] \o s[k + 1] 
      BY <1>8, <3>1
    <3> QED BY <3>2, <3>3, <3>4
  <2>3. Nat \subseteq S BY <2>1, <2>2, Induction
  <2> QED BY <2>3
<1>10. F \in [0..n -> Seq(X)] BY <1>6, <1>9
<1>11. F[n] = FlattenSeq(s)
  <2>1. CASE n = 0
    <3>1. s = <<>> BY <1>1, <2>1
    <3> QED BY <3>1, <2>1, <1>5, <1>7
  <2>2. CASE n # 0 BY <2>2, <1>5, <1>6
  <2> QED BY <2>1, <2>2
<1>12. \A i \in 1..n : F[i] = F[i - 1] \o s[i]
  <2> SUFFICES ASSUME NEW i \in 1..n PROVE F[i] = F[i - 1] \o s[i] OBVIOUS
  <2>1. CASE i = 1
    <3>1. F[1] = s[1] /\ s[1] \in Seq(X) BY <1>8, <2>1
    <3>2. <<>> \o s[1] = s[1] BY <3>1, ConcatEmptySeq
    <3> QED BY <3>1, <3>2, <2>1, <1>7
  <2>2. CASE i # 1 BY <2>2, <1>8
  <2> QED BY <2>1, <2>2
<1>13. ArePartsOf(F, X, n, s) BY <1>7, <1>10, <1>11, <1>12 DEF ArePartsOf
<1> QED BY <1>13

(***************************************************************************)
(* Sequences in which some elements take two places.                       *)
(***************************************************************************)

\* The sequences that are flattened: those of the positions in A are pairs.
Spread(n, A, x, y) == [k \in 1..n |-> IF k \in A THEN <<x[k], y[k]>> ELSE <<x[k]>>]

\* How many of the positions up to k take two places, and where k is put.
Doubled(A, k) == Cardinality(A \cap 1..k)
Place(A, k) == k + Doubled(A, k - 1)

\* There is one more after a position of A.
LEMMA OneMoreDoubled ==
  ASSUME NEW A, NEW k \in Nat
  PROVE  /\ Doubled(A, 0) = 0 /\ Doubled(A, k) \in Nat
         /\ Doubled(A, k + 1) = IF k + 1 \in A THEN Doubled(A, k) + 1 ELSE Doubled(A, k)
<1>1. IsFiniteSet(1..k) BY FS_Interval
<1>2. IsFiniteSet(A \cap 1..k) BY <1>1, FS_Intersection
<1>3. Doubled(A, k) \in Nat BY <1>2, FS_CardinalityType DEF Doubled
<1>4. A \cap 1..0 = {} OBVIOUS
<1>5. Doubled(A, 0) = 0 BY <1>4, FS_EmptySet DEF Doubled
<1>6. CASE k + 1 \in A
  <2>1. A \cap 1..k + 1 = (A \cap 1..k) \cup {k + 1} BY <1>6
  <2>2. k + 1 \notin A \cap 1..k OBVIOUS
  <2>3. Doubled(A, k + 1) = Doubled(A, k) + 1
    BY <1>2, <2>1, <2>2, FS_AddElement DEF Doubled
  <2> QED BY <1>3, <1>5, <1>6, <2>3
<1>7. CASE k + 1 \notin A
  <2>1. A \cap 1..k + 1 = A \cap 1..k BY <1>7
  <2>2. Doubled(A, k + 1) = Doubled(A, k) BY <2>1 DEF Doubled
  <2> QED BY <1>3, <1>5, <1>7, <2>2
<1> QED BY <1>3, <1>5, <1>6, <1>7

\* What f, of the first i positions, has where.
IsSpread(A, x, y, i, f) ==
  /\ Len(f) = i + Doubled(A, i)
  /\ \A k \in 1..i : /\ Place(A, k) \in 1..Len(f) /\ f[Place(A, k)] = x[k]
                     /\ k \in A => /\ Place(A, k) + 1 \in 1..Len(f)
                                   /\ f[Place(A, k) + 1] = y[k]
  /\ \A j \in 1..Len(f) : \E k \in 1..i : \/ j = Place(A, k)
                                          \/ k \in A /\ j = Place(A, k) + 1

\* One more position is put at the end.
LEMMA SpreadStep ==
  ASSUME NEW X, NEW A, NEW x, NEW y, NEW i \in Nat, NEW f \in Seq(X), IsSpread(A, x, y, i, f),
         NEW t \in Seq(X),
         t = IF i + 1 \in A THEN <<x[i + 1], y[i + 1]>> ELSE <<x[i + 1]>>
  PROVE  IsSpread(A, x, y, i + 1, f \o t)
<1> DEFINE g == f \o t
<1>1. /\ Doubled(A, i) \in Nat
      /\ Doubled(A, i + 1) = IF i + 1 \in A THEN Doubled(A, i) + 1 ELSE Doubled(A, i)
  BY OneMoreDoubled
<1>2. Place(A, i + 1) = Len(f) + 1
  <2>1. (i + 1) - 1 = i OBVIOUS
  <2>2. Place(A, i + 1) = (i + 1) + Doubled(A, i) BY <2>1 DEF Place
  <2> QED BY <2>2, <1>1 DEF IsSpread
<1>3. Len(f) \in Nat /\ Len(t) = IF i + 1 \in A THEN 2 ELSE 1 OBVIOUS
<1>4. /\ Len(g) = Len(f) + Len(t)
      /\ \A j \in 1..Len(f) : g[j] = f[j]
      /\ \A j \in 1..Len(t) : g[Len(f) + j] = t[j]
  BY ConcatProperties
<1>5. Len(g) = (i + 1) + Doubled(A, i + 1) BY <1>1, <1>3, <1>4 DEF IsSpread
<1>6. ASSUME NEW k \in 1..i + 1
      PROVE  /\ Place(A, k) \in 1..Len(g) /\ g[Place(A, k)] = x[k]
             /\ k \in A => /\ Place(A, k) + 1 \in 1..Len(g)
                           /\ g[Place(A, k) + 1] = y[k]
  <2>1. CASE k \in 1..i
    <3>1. /\ Place(A, k) \in 1..Len(f) /\ f[Place(A, k)] = x[k]
          /\ k \in A => /\ Place(A, k) + 1 \in 1..Len(f)
                        /\ f[Place(A, k) + 1] = y[k]
      BY <2>1 DEF IsSpread
    <3>2. 1..Len(f) \subseteq 1..Len(g) BY <1>3, <1>4
    <3> QED BY <3>1, <3>2, <1>4
  <2>2. CASE k = i + 1
    <3>1. Place(A, k) = Len(f) + 1 BY <1>2, <2>2
    <3>2. 1 \in 1..Len(t) /\ t[1] = x[k] BY <2>2, <1>3
    <3>3. k \in A => 2 \in 1..Len(t) /\ t[2] = y[k] BY <2>2, <1>3
    <3>4. Len(f) + 1 \in 1..Len(g) /\ g[Len(f) + 1] = x[k] BY <1>3, <1>4, <3>2
    <3>5. k \in A => Len(f) + 2 \in 1..Len(g) /\ g[Len(f) + 2] = y[k] BY <1>3, <1>4, <3>3
    <3>6. (Len(f) + 1) + 1 = Len(f) + 2 BY <1>3
    <3> QED BY <3>1, <3>4, <3>5, <3>6
  <2> QED BY <2>1, <2>2
<1>7. ASSUME NEW j \in 1..Len(g)
      PROVE  \E k \in 1..i + 1 : j = Place(A, k) \/ (k \in A /\ j = Place(A, k) + 1)
  <2>1. CASE j \in 1..Len(f)
    <3>1. PICK k \in 1..i : j = Place(A, k) \/ (k \in A /\ j = Place(A, k) + 1)
      BY <2>1 DEF IsSpread
    <3>2. k \in 1..i + 1 OBVIOUS
    <3> QED BY <3>1, <3>2
  <2>2. CASE j \notin 1..Len(f)
    <3>1. j = Len(f) + 1 \/ (i + 1 \in A /\ j = (Len(f) + 1) + 1) BY <2>2, <1>3, <1>4
    <3>2. i + 1 \in 1..i + 1 OBVIOUS
    <3> QED BY <3>1, <3>2, <1>2
  <2> QED BY <2>1, <2>2
<1> HIDE DEF g
<1>8. IsSpread(A, x, y, i + 1, g) BY <1>5, <1>6, <1>7 DEF IsSpread
<1> QED BY <1>8 DEF g

\* FlattenSeq puts each position, and the second of each pair after its first.
LEMMA FlattenSpread ==
  ASSUME NEW X, NEW n \in Nat, NEW A, NEW x \in [1..n -> X], NEW y \in [1..n -> X],
         NEW F, F = FlattenSeq(Spread(n, A, x, y))
  PROVE  F \in Seq(X) /\ IsSpread(A, x, y, n, F)
<1>1. PICK s : s = Spread(n, A, x, y) OBVIOUS
<1>2. \A k \in 1..n : /\ s[k] = IF k \in A THEN <<x[k], y[k]>> ELSE <<x[k]>>
                      /\ s[k] \in Seq(X)
  BY <1>1 DEF Spread
<1>3. s \in [1..n -> Seq(X)] BY <1>1, <1>2 DEF Spread
<1>a. PICK G : ArePartsOf(G, X, n, s) BY <1>3, FlattenParts
<1>4. /\ G \in [0..n -> Seq(X)] /\ G[0] = <<>> /\ G[n] = FlattenSeq(s)
      /\ \A i \in 1..n : G[i] = G[i - 1] \o s[i]
  BY <1>a DEF ArePartsOf
<1> DEFINE S == {i \in Nat : i \in 0..n => IsSpread(A, x, y, i, G[i])}
<1>5. 0 \in S
  <2>1. Len(G[0]) = 0 BY <1>4
  <2>2. Len(G[0]) = 0 + Doubled(A, 0) BY <2>1, OneMoreDoubled
  <2>3. 1..0 = {} OBVIOUS
  <2>4. IsSpread(A, x, y, 0, G[0]) BY <2>1, <2>2, <2>3 DEF IsSpread
  <2> QED BY <2>4
<1>6. ASSUME NEW i \in Nat, i \in S PROVE i + 1 \in S
  <2> SUFFICES ASSUME i + 1 \in 0..n PROVE IsSpread(A, x, y, i + 1, G[i + 1]) OBVIOUS
  <2>1. i \in 0..n /\ i + 1 \in 1..n /\ (i + 1) - 1 = i OBVIOUS
  <2>2. IsSpread(A, x, y, i, G[i]) BY <1>6, <2>1
  <2>3. G[i + 1] = G[i] \o s[i + 1] BY <1>4, <2>1
  <2>4. G[i] \in Seq(X) /\ s[i + 1] \in Seq(X) BY <1>2, <1>4, <2>1
  <2>5. s[i + 1] = IF i + 1 \in A THEN <<x[i + 1], y[i + 1]>> ELSE <<x[i + 1]>>
    BY <1>2, <2>1
  <2>6. IsSpread(A, x, y, i + 1, G[i] \o s[i + 1])
    <3>1. PICK f, t : f = G[i] /\ t = s[i + 1] OBVIOUS
    <3>2. /\ i \in Nat /\ f \in Seq(X) /\ t \in Seq(X) /\ IsSpread(A, x, y, i, f)
          /\ t = IF i + 1 \in A THEN <<x[i + 1], y[i + 1]>> ELSE <<x[i + 1]>>
      BY <2>2, <2>4, <2>5, <3>1
    <3>3. IsSpread(A, x, y, i + 1, f \o t) BY <3>2, SpreadStep
    <3> QED BY <3>1, <3>3
  <2> QED BY <2>3, <2>6
<1>7. Nat \subseteq S BY <1>5, <1>6, Induction
<1>8. IsSpread(A, x, y, n, G[n]) BY <1>7
<1> QED BY <1>1, <1>4, <1>8

\* Without pairs each position is where it was.
LEMMA SpreadPlain ==
  ASSUME NEW X, NEW n \in Nat, NEW x \in [1..n -> X], NEW y, NEW A, A \cap 1..n = {},
         NEW f \in Seq(X), IsSpread(A, x, y, n, f)
  PROVE  f = [k \in 1..n |-> x[k]]
<1>1. \A k \in 0..n : Doubled(A, k) = 0
  <2> SUFFICES ASSUME NEW k \in 0..n PROVE Doubled(A, k) = 0 OBVIOUS
  <2>1. A \cap 1..k = {} OBVIOUS
  <2> QED BY <2>1, FS_EmptySet DEF Doubled
<1>2. Len(f) = n BY <1>1 DEF IsSpread
<1>3. \A k \in 1..n : Place(A, k) = k
  <2> SUFFICES ASSUME NEW k \in 1..n PROVE Place(A, k) = k OBVIOUS
  <2>1. k - 1 \in 0..n OBVIOUS
  <2> QED BY <2>1, <1>1 DEF Place
<1>4. \A k \in 1..n : f[k] = x[k] BY <1>3 DEF IsSpread
<1>5. f = [k \in 1..n |-> f[k]] BY <1>2
<1> QED BY <1>4, <1>5

\* A set of numbers has a least one.
LEMMA Least ==
  ASSUME NEW S \in SUBSET Nat, S # {}
  PROVE  \E m \in S : \A k \in S : m <= k
<1> SUFFICES ASSUME \A m \in S : \E k \in S : ~(m <= k) PROVE FALSE OBVIOUS
<1> DEFINE T == {n \in Nat : \A k \in S : n < k}
<1>1. 0 \in T
  <2>1. ASSUME 0 \in S PROVE FALSE
    <3>1. PICK k \in S : ~(0 <= k) BY <2>1
    <3> QED BY <3>1
  <2>2. \A k \in S : k \in Nat /\ k # 0 BY <2>1
  <2>3. \A k \in S : 0 < k BY <2>2
  <2> QED BY <2>3
<1>2. ASSUME NEW n \in Nat, n \in T PROVE n + 1 \in T
  <2>1. \A k \in S : k \in Nat /\ n < k BY <1>2
  <2>2. ASSUME n + 1 \in S PROVE FALSE
    <3>1. PICK k \in S : ~(n + 1 <= k) BY <2>2
    <3> QED BY <2>1, <3>1
  <2>3. \A k \in S : n + 1 < k BY <2>1, <2>2
  <2> QED BY <2>3
<1>3. Nat \subseteq T BY <1>1, <1>2, Induction
<1>4. PICK k \in S : k \in Nat OBVIOUS
<1>5. k < k BY <1>3, <1>4
<1> QED BY <1>4, <1>5

\* Where A has one position, everything behind it moves by one place.
LEMMA SpreadOne ==
  ASSUME NEW A, NEW p \in Nat \ {0}, NEW k \in Nat \ {0}, A \cap 1..k - 1 \subseteq {p}, p \in A
  PROVE  Place(A, k) = IF k <= p THEN k ELSE k + 1
<1>1. CASE k <= p
  <2>1. A \cap 1..k - 1 = {} BY <1>1
  <2>2. Doubled(A, k - 1) = 0 BY <2>1, FS_EmptySet DEF Doubled
  <2> QED BY <1>1, <2>2 DEF Place
<1>2. CASE ~(k <= p)
  <2>1. p \in 1..k - 1 BY <1>2
  <2>2. A \cap 1..k - 1 = {p} BY <2>1
  <2>3. Doubled(A, k - 1) = 1 BY <2>2, FS_Singleton DEF Doubled
  <2> QED BY <1>2, <2>3 DEF Place
<1> QED BY <1>1, <1>2

(***************************************************************************)
(* The arguments that AngelScript passes, and their types.                 *)
(***************************************************************************)

\* The positions of `?', from 1.
Marks(xs) == {k \in DOMAIN xs : xs[k] = "any"}

\* What a function may receive.
Tokens(n) == {"obj", "aux", "comp", "arg", "id", "none"} \X (0..n)

\* AnyAt counts them from 0.
LEMMA MarksAreAny ==
  ASSUME NEW xs \in Seq(ArgKinds)
  PROVE  /\ Marks(xs) \subseteq 1..Len(xs) /\ IsFiniteSet(Marks(xs))
         /\ IsFiniteSet(AnyAt(xs)) /\ AnyAt(xs) \subseteq 0..Len(xs) - 1
         /\ \A k \in 1..Len(xs) : k - 1 \in AnyAt(xs) <=> k \in Marks(xs)
         /\ Marks(xs) = {v + 1 : v \in AnyAt(xs)}
         /\ Cardinality(AnyAt(xs)) = Doubled(Marks(xs), Len(xs))
<1>a. PICK n : n = Len(xs) OBVIOUS
<1>1. n \in Nat /\ DOMAIN xs = 1..n BY <1>a, LenProperties
<1>2. AnyAt(xs) = {k - 1 : k \in Marks(xs)} BY DEF AnyAt, Marks
<1>3. Marks(xs) \subseteq 1..n BY <1>1 DEF Marks
<1>4. IsFiniteSet(Marks(xs))
  <2>1. IsFiniteSet(1..n) BY <1>1, FS_Interval
  <2> QED BY <2>1, <1>3, FS_Subset
<1>5. PICK f : f = [k \in Marks(xs) |-> k - 1] OBVIOUS
<1>6. f \in Bijection(Marks(xs), AnyAt(xs))
  <2>1. f \in [Marks(xs) -> AnyAt(xs)] BY <1>2, <1>5
  <2>2. \A a, b \in Marks(xs) : f[a] = f[b] => a = b BY <1>1, <1>3, <1>5
  <2>3. \A t \in AnyAt(xs) : \E k \in Marks(xs) : f[k] = t BY <1>2, <1>5
  <2> QED BY <2>1, <2>2, <2>3, Fun_IsBij
<1>7. ExistsBijection(Marks(xs), AnyAt(xs)) BY <1>6 DEF ExistsBijection
<1>8. IsFiniteSet(AnyAt(xs)) /\ Cardinality(AnyAt(xs)) = Cardinality(Marks(xs))
  BY <1>4, <1>7, FS_Bijection
<1>9. Marks(xs) \cap 1..n = Marks(xs) BY <1>3
<1>10. Cardinality(AnyAt(xs)) = Doubled(Marks(xs), n) BY <1>8, <1>9 DEF Doubled
<1>11. AnyAt(xs) \subseteq 0..n - 1 BY <1>1, <1>2, <1>3
<1>12. \A k \in 1..n : k - 1 \in AnyAt(xs) <=> k \in Marks(xs)
  <2> SUFFICES ASSUME NEW k \in 1..n PROVE k - 1 \in AnyAt(xs) <=> k \in Marks(xs) OBVIOUS
  <2>1. ASSUME k - 1 \in AnyAt(xs) PROVE k \in Marks(xs)
    <3>1. PICK j \in Marks(xs) : k - 1 = j - 1 BY <1>1, <1>2, <1>3, <2>1
    <3>2. j = k BY <1>1, <1>3, <3>1
    <3> QED BY <3>2
  <2> QED BY <1>2, <2>1
<1>13. Marks(xs) = {v + 1 : v \in AnyAt(xs)}
  <2>1. ASSUME NEW k \in Marks(xs) PROVE k \in {v + 1 : v \in AnyAt(xs)}
    <3>1. k - 1 \in AnyAt(xs) /\ (k - 1) + 1 = k BY <1>1, <1>2, <1>3
    <3> QED BY <3>1
  <2>2. ASSUME NEW v \in AnyAt(xs) PROVE v + 1 \in Marks(xs)
    <3>1. PICK k \in Marks(xs) : v = k - 1 BY <1>2
    <3>2. v + 1 = k BY <1>1, <1>3, <3>1
    <3> QED BY <3>2
  <2> QED BY <2>1, <2>2
<1> QED BY <1>3, <1>4, <1>8, <1>10, <1>11, <1>12, <1>13, <1>a

\* The arguments that are passed, `?' as an address and a type id.
LEMMA PassedIs ==
  ASSUME NEW xs \in Seq(ArgKinds), NEW n, n = Len(xs)
  PROVE  /\ PassedArgs(xs) \in Seq(Tokens(n))
         /\ IsSpread(Marks(xs), [k \in 1..n |-> Arg(k)], [k \in 1..n |-> TypeId(k)], n,
                     PassedArgs(xs))
<1>1. n \in Nat /\ DOMAIN xs = 1..n BY LenProperties
<1>2. PICK x, y : x = [k \in 1..n |-> Arg(k)] /\ y = [k \in 1..n |-> TypeId(k)] OBVIOUS
<1>3. x \in [1..n -> Tokens(n)] /\ y \in [1..n -> Tokens(n)]
  BY <1>1, <1>2 DEF Arg, TypeId, Tokens
<1>4. ASSUME NEW k \in 1..n
      PROVE  (IF xs[k] = "any" THEN <<Arg(k), TypeId(k)>> ELSE <<Arg(k)>>)
               = (IF k \in Marks(xs) THEN <<x[k], y[k]>> ELSE <<x[k]>>)
  BY <1>1, <1>2 DEF Marks
<1>5. [k \in DOMAIN xs |-> IF xs[k] = "any" THEN <<Arg(k), TypeId(k)>> ELSE <<Arg(k)>>]
        = Spread(n, Marks(xs), x, y)
  BY <1>1, <1>4 DEF Spread
<1>6. PICK A, F : A = Marks(xs) /\ F = FlattenSeq(Spread(n, A, x, y)) OBVIOUS
<1>7. F \in Seq(Tokens(n)) /\ IsSpread(A, x, y, n, F) BY <1>1, <1>3, <1>6, FlattenSpread
<1>8. PassedArgs(xs) = F BY <1>5, <1>6 DEF PassedArgs
<1> QED BY <1>2, <1>6, <1>7, <1>8

\* Types of parameters, and that of an argument.
ParamTypeNames == {"void", "int", "T", "ti"}

TypeOf(kind) ==
  CASE kind \in {"any", "list"} -> "void"
    [] kind = "same" -> "T"
    [] kind = "ti" -> "ti"
    [] kind = "val" -> "int"

\* The types of their parameters.
LEMMA TypesAre ==
  ASSUME NEW xs \in Seq(ArgKinds), NEW n, n = Len(xs)
  PROVE  /\ ArgTypes(xs) \in Seq(ParamTypeNames)
         /\ IsSpread(Marks(xs), [k \in 1..n |-> TypeOf(xs[k])], [k \in 1..n |-> "int"], n,
                     ArgTypes(xs))
<1>1. n \in Nat /\ DOMAIN xs = 1..n /\ \A k \in 1..n : xs[k] \in ArgKinds
  BY LenProperties, ElementOfSeq
<1>2. PICK x, y : x = [k \in 1..n |-> TypeOf(xs[k])] /\ y = [k \in 1..n |-> "int"] OBVIOUS
<1>3. \A kind \in ArgKinds : TypeOf(kind) \in ParamTypeNames
  BY DEF TypeOf, ArgKinds, ParamTypeNames
<1>4. x \in [1..n -> ParamTypeNames] /\ y \in [1..n -> ParamTypeNames]
  BY <1>1, <1>2, <1>3 DEF ParamTypeNames
<1>5. ASSUME NEW k \in 1..n
      PROVE  (CASE xs[k] = "any"  -> <<"void", "int">>
                [] xs[k] = "list" -> <<"void">>
                [] xs[k] = "same" -> <<"T">>
                [] xs[k] = "ti"   -> <<"ti">>
                [] xs[k] = "val"  -> <<"int">>)
               = (IF k \in Marks(xs) THEN <<x[k], y[k]>> ELSE <<x[k]>>)
  <2>1. x[k] = TypeOf(xs[k]) /\ y[k] = "int" /\ (k \in Marks(xs) <=> xs[k] = "any")
    BY <1>1, <1>2 DEF Marks
  <2>2. xs[k] \in {"any", "list", "same", "ti", "val"} BY <1>1 DEF ArgKinds
  <2> QED BY <2>1, <2>2 DEF TypeOf
<1>6. [k \in DOMAIN xs |-> CASE xs[k] = "any"  -> <<"void", "int">>
                             [] xs[k] = "list" -> <<"void">>
                             [] xs[k] = "same" -> <<"T">>
                             [] xs[k] = "ti"   -> <<"ti">>
                             [] xs[k] = "val"  -> <<"int">>]
        = Spread(n, Marks(xs), x, y)
  BY <1>1, <1>5 DEF Spread
<1>7. PICK A, F : A = Marks(xs) /\ F = FlattenSeq(Spread(n, A, x, y)) OBVIOUS
<1>8. F \in Seq(ParamTypeNames) /\ IsSpread(A, x, y, n, F) BY <1>1, <1>4, <1>7, FlattenSpread
<1>9. ArgTypes(xs) = F BY <1>6, <1>7 DEF ArgTypes
<1> QED BY <1>2, <1>7, <1>8, <1>9

\* The script position of each parameter.
LEMMA IndicesAre ==
  ASSUME NEW xs \in Seq(ArgKinds), NEW n, n = Len(xs), NEW idx,
         idx = gen_script_arg_idx(Len(ArgTypes(xs)), AnyAt(xs))
  PROVE  /\ idx \in Seq(0..n - 1)
         /\ IsSpread(Marks(xs), [k \in 1..n |-> k - 1], [k \in 1..n |-> k - 1], n, idx)
<1>1. n \in Nat /\ DOMAIN xs = 1..n BY LenProperties
<1>2. PICK x : x = [k \in 1..n |-> k - 1] OBVIOUS
<1>3. x \in [1..n -> 0..n - 1] BY <1>1, <1>2
<1>4. Doubled(Marks(xs), n) \in Nat BY <1>1, OneMoreDoubled
<1>5. Len(ArgTypes(xs)) = n + Doubled(Marks(xs), n) BY TypesAre DEF IsSpread
<1>6. Len(ArgTypes(xs)) - Cardinality(AnyAt(xs)) = n
  BY <1>1, <1>4, <1>5, MarksAreAny
<1>7. \A k \in 1..n : (IF k - 1 \in AnyAt(xs) THEN <<k - 1, k - 1>> ELSE <<k - 1>>)
                        = (IF k \in Marks(xs) THEN <<x[k], x[k]>> ELSE <<x[k]>>)
  BY <1>1, <1>2, MarksAreAny
<1>8. [k \in 1..n |-> IF k - 1 \in AnyAt(xs) THEN <<k - 1, k - 1>> ELSE <<k - 1>>]
        = Spread(n, Marks(xs), x, x)
  BY <1>7 DEF Spread
<1>9. idx = FlattenSeq(Spread(n, Marks(xs), x, x)) BY <1>6, <1>8 DEF gen_script_arg_idx
<1>10. idx \in Seq(0..n - 1) /\ IsSpread(Marks(xs), x, x, n, idx)
  BY <1>1, <1>3, <1>9, FlattenSpread
<1> QED BY <1>2, <1>10

\* Without `?', what is fetched in order is what is passed.
LEMMA NoAnyPassed ==
  ASSUME NEW xs \in Seq(ArgKinds), AnyAt(xs) = {}
  PROVE  /\ Len(ArgTypes(xs)) = Len(xs)
         /\ PassedArgs(xs) = get_generic_args(xs, 0, Len(xs))
<1>a. PICK n : n = Len(xs) OBVIOUS
<1>1. n \in Nat /\ DOMAIN xs = 1..n BY <1>a, LenProperties
<1>2. Marks(xs) \cap 1..n = {}
  <2>1. Marks(xs) = {v + 1 : v \in AnyAt(xs)} BY MarksAreAny
  <2> QED BY <2>1
<1>3. Doubled(Marks(xs), n) = 0 BY <1>2, FS_EmptySet DEF Doubled
<1>4. Len(ArgTypes(xs)) = n BY <1>a, <1>1, <1>3, TypesAre DEF IsSpread
<1>5. PICK x, y : x = [k \in 1..n |-> Arg(k)] /\ y = [k \in 1..n |-> TypeId(k)] OBVIOUS
<1>6. x \in [1..n -> Tokens(n)] BY <1>1, <1>5 DEF Arg, Tokens
<1>7. PassedArgs(xs) \in Seq(Tokens(n)) /\ IsSpread(Marks(xs), x, y, n, PassedArgs(xs))
  BY <1>a, <1>5, PassedIs
<1>8. PassedArgs(xs) = [k \in 1..n |-> x[k]] BY <1>1, <1>2, <1>6, <1>7, SpreadPlain
<1>9. get_generic_args(xs, 0, n) = [k \in 1..n |-> Arg(k)]
  <2>1. \A k \in 1..n : ArgOf(xs, 0 + k) = Arg(k) BY <1>1 DEF ArgOf
  <2> QED BY <2>1 DEF get_generic_args
<1> QED BY <1>a, <1>4, <1>5, <1>8, <1>9

\* What the wrapper for var_type fetches for each parameter.
LEMMA VarTypeElements ==
  ASSUME NEW xs \in Seq(ArgKinds), NEW n, n = Len(xs), NEW f,
         f = VarTypeArgs(ArgTypes(xs), AnyAt(xs), xs)
  PROVE  /\ f = [j \in 1..n + Cardinality(AnyAt(xs)) |-> f[j]]
         /\ \A k \in 1..n :
              /\ Place(Marks(xs), k) \in DOMAIN f
              /\ LET j == Place(Marks(xs), k)
                 IN  /\ j - 1 \notin Marks(xs) => f[j] = Arg(k)
                     /\ j - 1 \in Marks(xs) /\ k \in Marks(xs) => f[j] = Refused
              /\ LET j == Place(Marks(xs), k) + 1
                 IN  k \in Marks(xs) /\ j - 1 \in Marks(xs) => f[j] = TypeId(k)
<1>1. n \in Nat /\ DOMAIN xs = 1..n BY LenProperties
<1>a. PICK var : var = AnyAt(xs) OBVIOUS
<1>b. PICK A : A = Marks(xs) OBVIOUS
<1>c. PICK types : types = ArgTypes(xs) OBVIOUS
<1>2. PICK idx : idx = gen_script_arg_idx(Len(types), var) OBVIOUS
<1>3. PICK x, y : x = [k \in 1..n |-> TypeOf(xs[k])] /\ y = [k \in 1..n |-> "int"] OBVIOUS
<1>4. PICK z : z = [k \in 1..n |-> k - 1] OBVIOUS
<1>5. IsSpread(A, x, y, n, types) BY <1>b, <1>c, <1>3, TypesAre
<1>6. IsSpread(A, z, z, n, idx) /\ idx \in Seq(0..n - 1)
  BY <1>a, <1>b, <1>c, <1>2, <1>4, IndicesAre
<1>7. DOMAIN idx = 1..Len(idx) /\ Len(idx) = n + Cardinality(var) /\ Len(idx) = n + Doubled(A, n)
  BY <1>6, <1>a, <1>b, MarksAreAny, LenProperties DEF IsSpread
<1>8. \A j : var_type_tag(var, j - 1) <=> j - 1 \in A
  BY <1>a, <1>b, MarksAreAny DEF var_type_tag
<1>9. f = [j \in DOMAIN idx |->
         CASE ~var_type_tag(var, j - 1) -> ArgOf(xs, idx[j] + 1)
           [] var_type_tag(var, j - 1) /\ types[j] = "void" -> Refused
           [] OTHER -> TypeId(idx[j] + 1)]
  BY <1>a, <1>c, <1>2 DEF VarTypeArgs
<1>10. f = [j \in 1..n + Cardinality(var) |-> f[j]] BY <1>7, <1>9
<1>11. ASSUME NEW j \in 1..Len(idx)
       PROVE  /\ j - 1 \notin A => f[j] = ArgOf(xs, idx[j] + 1)
              /\ j - 1 \in A /\ types[j] = "void" => f[j] = Refused
              /\ j - 1 \in A /\ types[j] # "void" => f[j] = TypeId(idx[j] + 1)
  <2>1. f[j] = CASE ~var_type_tag(var, j - 1) -> ArgOf(xs, idx[j] + 1)
                 [] var_type_tag(var, j - 1) /\ types[j] = "void" -> Refused
                 [] OTHER -> TypeId(idx[j] + 1)
    BY <1>7, <1>9
  <2> QED BY <2>1, <1>8
<1>12. ASSUME NEW k \in 1..n
       PROVE  /\ Place(A, k) \in 1..Len(idx)
              /\ LET j == Place(A, k)
                 IN  /\ j - 1 \notin A => f[j] = Arg(k)
                     /\ j - 1 \in A /\ k \in A => f[j] = Refused
              /\ LET j == Place(A, k) + 1
                 IN  k \in A /\ j - 1 \in A => f[j] = TypeId(k)
  <2>1. /\ Place(A, k) \in 1..Len(idx) /\ idx[Place(A, k)] = k - 1
        /\ types[Place(A, k)] = TypeOf(xs[k])
    BY <1>3, <1>4, <1>5, <1>6 DEF IsSpread
  <2>2. k \in A => /\ Place(A, k) + 1 \in 1..Len(idx)
                   /\ idx[Place(A, k) + 1] = k - 1 /\ types[Place(A, k) + 1] = "int"
    BY <1>3, <1>4, <1>5, <1>6 DEF IsSpread
  <2>3. k \in A => TypeOf(xs[k]) = "void" BY <1>b DEF Marks, TypeOf
  <2>4. (k - 1) + 1 = k /\ ArgOf(xs, k) = Arg(k) BY <1>1 DEF ArgOf
  <2>5. Place(A, k) - 1 \notin A => f[Place(A, k)] = Arg(k) BY <1>11, <2>1, <2>4
  <2>6. Place(A, k) - 1 \in A /\ k \in A => f[Place(A, k)] = Refused BY <1>11, <2>1, <2>3
  <2>7. k \in A /\ (Place(A, k) + 1) - 1 \in A => f[Place(A, k) + 1] = TypeId(k)
    BY <1>11, <2>2, <2>4
  <2> QED BY <2>1, <2>5, <2>6, <2>7
<1>13. DOMAIN f = 1..Len(idx) BY <1>7, <1>9
<1> QED BY <1>a, <1>b, <1>10, <1>12, <1>13

\* With one `?', it fetches what is passed.
LEMMA OneAnyPassed ==
  ASSUME NEW xs \in Seq(ArgKinds), Cardinality(AnyAt(xs)) = 1
  PROVE  VarTypeArgs(ArgTypes(xs), AnyAt(xs), xs) = PassedArgs(xs)
<1>a. PICK n, A : n = Len(xs) /\ A = Marks(xs) OBVIOUS
<1>1. n \in Nat /\ DOMAIN xs = 1..n BY <1>a, LenProperties
<1>2. PICK f : f = VarTypeArgs(ArgTypes(xs), AnyAt(xs), xs) OBVIOUS
<1>3. PICK p \in 1..n : A = {p}
  <2>1. PICK v : AnyAt(xs) = {v} BY MarksAreAny, FS_Singleton
  <2>2. Marks(xs) = {v + 1} BY <2>1, MarksAreAny
  <2> QED BY <2>2, <1>a, MarksAreAny
<1>4. /\ f = [j \in 1..n + 1 |-> f[j]]
      /\ \A k \in 1..n :
           /\ Place(A, k) - 1 \notin A => f[Place(A, k)] = Arg(k)
           /\ k \in A /\ (Place(A, k) + 1) - 1 \in A => f[Place(A, k) + 1] = TypeId(k)
  BY <1>a, <1>2, VarTypeElements
<1>5. \A k \in 1..n : Place(A, k) = IF k <= p THEN k ELSE k + 1
  <2> SUFFICES ASSUME NEW k \in 1..n PROVE Place(A, k) = IF k <= p THEN k ELSE k + 1 OBVIOUS
  <2>1. A \cap 1..k - 1 \subseteq {p} /\ p \in A /\ k \in Nat \ {0} /\ p \in Nat \ {0} BY <1>3
  <2> QED BY <2>1, SpreadOne
<1>6. PICK g : g = PassedArgs(xs) OBVIOUS
<1>7. PICK x, y : x = [k \in 1..n |-> Arg(k)] /\ y = [k \in 1..n |-> TypeId(k)] OBVIOUS
<1>8. g \in Seq(Tokens(n)) /\ IsSpread(A, x, y, n, g) BY <1>a, <1>6, <1>7, PassedIs
<1>9. Len(g) = n + 1
  <2>1. Doubled(A, n) = 1 BY <1>a, MarksAreAny
  <2> QED BY <2>1, <1>8 DEF IsSpread
<1>10. ASSUME NEW j \in 1..n + 1 PROVE f[j] = g[j]
  <2>1. PICK k \in 1..n : j = Place(A, k) \/ (k \in A /\ j = Place(A, k) + 1)
    BY <1>8, <1>9 DEF IsSpread
  <2>a. PICK q : q = Place(A, k) OBVIOUS
  <2>b. k \in Nat /\ p \in Nat /\ q = IF k <= p THEN k ELSE k + 1 BY <1>1, <1>5, <2>a
  <2>2. CASE j = Place(A, k)
    <3>a. q - 1 # p BY <2>b
    <3>1. j - 1 \notin A BY <1>3, <2>2, <2>a, <3>a
    <3>2. f[j] = Arg(k) BY <1>4, <2>2, <3>1
    <3>3. g[j] = x[k] BY <1>8, <2>2 DEF IsSpread
    <3> QED BY <3>2, <3>3, <1>7
  <2>3. CASE k \in A /\ j = Place(A, k) + 1
    <3>1. k = p /\ q = p BY <1>3, <2>3, <2>b
    <3>a. (q + 1) - 1 = p BY <2>b, <3>1
    <3>2. (Place(A, k) + 1) - 1 \in A BY <1>3, <2>a, <3>a
    <3>3. f[j] = TypeId(k) BY <1>4, <2>3, <3>2
    <3>4. g[j] = y[k] BY <1>8, <2>3 DEF IsSpread
    <3> QED BY <3>3, <3>4, <1>7
  <2> QED BY <2>1, <2>2, <2>3
<1>11. g = [j \in 1..n + 1 |-> g[j]] BY <1>8, <1>9
<1>12. f = g BY <1>4, <1>10, <1>11
<1> QED BY <1>2, <1>6, <1>12

\* With more, the address of the second one does not compile.
LEMMA TwoAnyRefused ==
  ASSUME NEW xs \in Seq(ArgKinds), Cardinality(AnyAt(xs)) > 1
  PROVE  \E j \in DOMAIN VarTypeArgs(ArgTypes(xs), AnyAt(xs), xs) :
           VarTypeArgs(ArgTypes(xs), AnyAt(xs), xs)[j] = Refused
<1>a. PICK n, A : n = Len(xs) /\ A = Marks(xs) OBVIOUS
<1>1. n \in Nat /\ DOMAIN xs = 1..n /\ A \subseteq 1..n BY <1>a, LenProperties, MarksAreAny
<1>2. PICK f : f = VarTypeArgs(ArgTypes(xs), AnyAt(xs), xs) OBVIOUS
<1>3. Doubled(A, n) > 1 BY <1>a, MarksAreAny
<1>4. A \cap 1..n = A BY <1>1
<1>b. Cardinality(A) > 1 BY <1>3, <1>4 DEF Doubled
<1>5. A # {}
  <2>1. Cardinality({}) = 0 BY FS_EmptySet
  <2> QED BY <1>b, <2>1
<1>6. PICK p \in A : \A k \in A : p <= k
  <2>1. A \in SUBSET Nat BY <1>1
  <2> QED BY <2>1, <1>5, Least
<1>7. A \ {p} # {}
  <2>1. Cardinality({p}) = 1 BY FS_Singleton
  <2>2. ASSUME A = {p} PROVE FALSE
    <3>1. Cardinality(A) = 1 BY <2>1, <2>2
    <3> QED BY <1>b, <3>1
  <2> QED BY <2>2, <1>5
<1>8. PICK q \in A \ {p} : \A k \in A \ {p} : q <= k
  <2>1. A \ {p} \in SUBSET Nat BY <1>1
  <2> QED BY <2>1, <1>7, Least
<1>9. p \in 1..n /\ q \in 1..n /\ p < q BY <1>1, <1>6, <1>8
<1>10. A \cap 1..q - 1 \subseteq {p} BY <1>1, <1>8, <1>9
<1>11. Place(A, q) = q + 1
  <2>1. Place(A, q) = IF q <= p THEN q ELSE q + 1 BY <1>9, <1>10, SpreadOne
  <2> QED BY <2>1, <1>9
<1>12. q + 1 \in DOMAIN f /\ ((q + 1) - 1 \in A /\ q \in A => f[q + 1] = Refused)
  BY <1>a, <1>2, <1>9, <1>11, VarTypeElements
<1>13. (q + 1) - 1 \in A BY <1>8, <1>9
<1> QED BY <1>2, <1>8, <1>12, <1>13

(***************************************************************************)
(* Calls of overloads.                                                     *)
(***************************************************************************)
Call8(family, generic, form, explicit, aux, loc, comp, var) ==
  [family |-> family, generic |-> generic, form |-> form, explicit |-> explicit,
   aux |-> aux, loc |-> loc, comp |-> comp, var |-> var]

\* A call that some application makes, or an overload on its behalf.
IsCall(c) ==
  /\ c = Call8(c.family, c.generic, c.form, c.explicit, c.aux, c.loc, c.comp, c.var)
  /\ c.family \in Families /\ c.form \in Forms
  /\ c.generic \in BOOLEAN /\ c.comp \in BOOLEAN
  /\ c.comp => c.family = "method" /\ c.form \in {"fp", "raw"}

\* The call d says no less than the call c.
Keeps(c, d) ==
  /\ c.generic => d.generic
  /\ d.family = c.family /\ d.explicit = c.explicit /\ d.aux = c.aux /\ d.comp = c.comp

\* What AngelScript is given says what the call c said.
Says(b, c, r) ==
  /\ (ForceGeneric(b) \/ c.generic) => r.conv = "generic"
  /\ r.explicit = c.explicit
  /\ r.aux = c.aux
  /\ c.comp = (r.conv = "THISCALL_COMP" \/ r.wrapper = "composite")

\* An outcome of an overload that was called by c.
Faithful(b, c, o) ==
  \/ o.do = "call" /\ IsCall(o.call) /\ Keeps(c, o.call)
  \/ o.do = "register" /\ Says(b, c, o.reg)

\* The conventions that are deduced from parameters.
Deduced ==
  {"CDECL", "THISCALL", "THISCALL_ASGLOBAL", "CDECL_OBJFIRST", "CDECL_OBJLAST",
   "THISCALL_OBJFIRST", "THISCALL_OBJLAST", "ill-formed"}

\* A call that is given on as a generic one, or with a pointer.
LEMMA CallsGivenOn ==
  ASSUME NEW c, IsCall(c)
  PROVE  /\ Generic(c) = Call8(c.family, TRUE, c.form, c.explicit, c.aux, c.loc, c.comp, c.var)
         /\ Pointer(c) = Call8(c.family, c.generic, "raw", c.explicit, c.aux, c.loc, c.comp, {})
<1>a. PICK family, generic, form, explicit, aux, loc, comp, var :
        c = Call8(family, generic, form, explicit, aux, loc, comp, var)
  BY DEF IsCall
<1>b. /\ c.family = family /\ c.explicit = explicit /\ c.aux = aux /\ c.loc = loc
      /\ c.comp = comp /\ c.form = form /\ c.generic = generic /\ c.var = var
  BY <1>a DEF Call8
<1>1. Generic(c) = Call8(family, TRUE, form, explicit, aux, loc, comp, var)
  <2>1. PICK t : t = TRUE OBVIOUS
  <2>2. [c EXCEPT !.generic = t] = Call8(family, t, form, explicit, aux, loc, comp, var)
    BY <1>a DEF Call8
  <2> QED BY <2>1, <2>2 DEF Generic
<1>2. Pointer(c) = Call8(family, generic, "raw", explicit, aux, loc, comp, {})
  <2>1. [c EXCEPT !.form = "raw"]
          = Call8(family, generic, "raw", explicit, aux, loc, comp, var)
    BY <1>a DEF Call8
  <2>2. Pointer(c) = [[c EXCEPT !.form = "raw"] EXCEPT !.var = {}] BY DEF Pointer
  <2> QED BY <2>1, <2>2 DEF Call8
<1> QED BY <1>b, <1>1, <1>2

\* To give a call on as a generic one, or with a pointer, keeps what it says.
LEMMA GivenOn ==
  ASSUME NEW c, IsCall(c)
  PROVE  /\ IsCall(Generic(c)) /\ Keeps(c, Generic(c))
         /\ IsCall(Pointer(c)) /\ Keeps(c, Pointer(c))
<1>1. /\ Generic(c) = Call8(c.family, TRUE, c.form, c.explicit, c.aux, c.loc, c.comp, c.var)
      /\ Pointer(c) = Call8(c.family, c.generic, "raw", c.explicit, c.aux, c.loc, c.comp, {})
  BY CallsGivenOn
<1>2. /\ c.family \in Families /\ c.form \in Forms /\ "raw" \in Forms
      /\ c.generic \in BOOLEAN /\ c.comp \in BOOLEAN
      /\ c.comp => c.family = "method" /\ c.form \in {"fp", "raw"}
  BY DEF IsCall, Forms
<1>3. IsCall(Generic(c)) /\ Keeps(c, Generic(c)) BY <1>1, <1>2 DEF IsCall, Keeps, Call8
<1>4. IsCall(Pointer(c)) /\ Keeps(c, Pointer(c)) BY <1>1, <1>2 DEF IsCall, Keeps, Call8
<1> QED BY <1>3, <1>4

\* A call of an overload is faithful when the call given on is.
LEMMA CallIsFaithful ==
  ASSUME NEW b, NEW c, NEW d, IsCall(d), Keeps(c, d)
  PROVE  \A o \in CallOverload(d) : Faithful(b, c, o)
BY DEF CallOverload, Faithful

\* The usual choice is faithful.
LEMMA UsualIsFaithful ==
  ASSUME NEW b, NEW c, IsCall(c)
  PROVE  \A o \in UsualChoice(b, c) : Faithful(b, c, o)
BY GivenOn, CallIsFaithful DEF UsualChoice

\* So is a wrapper, the composite one for composite methods only.
LEMMA WrapperIsFaithful ==
  ASSUME NEW b, NEW c, IsCall(c), NEW wrapper, NEW orig, c.comp = (wrapper = "composite")
  PROVE  \A o \in RegisterWrapper(c, wrapper, orig) : Faithful(b, c, o)
<1> SUFFICES ASSUME NEW o \in RegisterWrapper(c, wrapper, orig) PROVE Faithful(b, c, o)
  OBVIOUS
<1>1. o.do = "register" /\ o.reg = [conv |-> "generic", wrapper |-> wrapper, orig |-> orig,
        explicit |-> c.explicit, aux |-> c.aux, var |-> c.var]
  BY DEF RegisterWrapper
<1>2. Says(b, c, o.reg) BY <1>1 DEF Says
<1> QED BY <1>1, <1>2 DEF Faithful

\* A native convention is faithful where no generic one is asked for, and
\* that of composites for composite methods only.
LEMMA NativeIsFaithful ==
  ASSUME NEW b, NEW c, IsCall(c), ~c.generic, ~ForceGeneric(b), NEW conv,
         c.comp = (conv = "THISCALL_COMP")
  PROVE  \A o \in RegisterNative(c, conv) : Faithful(b, c, o)
<1> SUFFICES ASSUME NEW o \in RegisterNative(c, conv) PROVE Faithful(b, c, o)
  OBVIOUS
<1>1. o.do = "register" /\ o.reg = [conv |-> conv, wrapper |-> "none", orig |-> conv,
        explicit |-> c.explicit, aux |-> c.aux, var |-> {}]
  BY DEF RegisterNative
<1>2. Says(b, c, o.reg) BY <1>1 DEF Says
<1> QED BY <1>1, <1>2 DEF Faithful

\* A generic function is no composite method.
LEMMA GenericIsFaithful ==
  ASSUME NEW b, NEW c, IsCall(c), ~c.comp
  PROVE  \A o \in RegisterGeneric(c) : Faithful(b, c, o)
<1>1. c.comp = ("gfn" = "composite") BY DEF IsCall
<1> QED BY <1>1, WrapperIsFaithful DEF RegisterGeneric

(***************************************************************************)
(* Deduction never gives the convention of composites.                     *)
(***************************************************************************)

\* What common.hpp deduces from the types at both ends is a convention for the
\* object, or the call is ill-formed.
LEMMA ByEnds ==
  ASSUME NEW types, NEW class, NEW tryVoid
  PROVE  CdeclByEnds(types, class, tryVoid) \in Deduced
BY DEF CdeclByEnds, cdecl_method_callconv, Deduced

\* The convention of a method is deduced, or follows the place of the object.
LEMMA MethodConv ==
  ASSUME NEW c
  PROVE  /\ method_callconv(c) \in Deduced
         /\ Located(c, method_callconv(c)) \in Deduced
         /\ \A thiscall : conv_of_loc(c.loc, thiscall) \in Deduced
<1>1. deduce_method_callconv(fn, EngineArgs, FALSE) \in Deduced
  BY ByEnds DEF deduce_method_callconv, Deduced
<1>2. deduce_method_callconv_aux(fn, EngineArgs) \in Deduced
  BY DEF deduce_method_callconv_aux, Deduced
<1>3. \A thiscall : conv_of_loc(c.loc, thiscall) \in Deduced BY DEF conv_of_loc, Deduced
<1> QED BY <1>1, <1>2, <1>3 DEF method_callconv, Located

\* The convention of a behaviour as well.
LEMMA BehaviourIsDeduced ==
  ASSUME NEW c
  PROVE  /\ BehaviourConv(c) \in Deduced
         /\ Located(c, BehaviourConv(c)) \in Deduced
<1>1. deduce_function_callconv(fn) \in Deduced BY DEF deduce_function_callconv, Deduced
<1>2. deduce_beh_callconv(c.family, fn, EngineArgs) \in Deduced
  BY <1>1, ByEnds DEF deduce_beh_callconv, deduce_method_callconv, Deduced
<1>3. deduce_method_callconv_aux(fn, EngineArgs) \in Deduced
  BY DEF deduce_method_callconv_aux, Deduced
<1>4. deduce_beh_callconv_aux(c.family, fn, EngineArgs) \in Deduced
  BY <1>1, <1>3, ByEnds DEF deduce_beh_callconv_aux, Deduced
<1>5. BehaviourConv(c) \in Deduced BY <1>2, <1>4 DEF BehaviourConv
<1> QED BY <1>5 DEF Located, conv_of_loc, Deduced

\* So a native registration by deduction is faithful for what is no composite.
LEMMA DeducedIsFaithful ==
  ASSUME NEW b, NEW c, IsCall(c), ~c.comp, ~c.generic, ~ForceGeneric(b), NEW conv \in Deduced
  PROVE  \A o \in RegisterNative(c, conv) : Faithful(b, c, o)
<1>1. conv # "THISCALL_COMP" BY DEF Deduced
<1>2. c.comp = (conv = "THISCALL_COMP") BY <1>1 DEF IsCall
<1> QED BY <1>2, NativeIsFaithful

\* And so is every wrapper but that of composites.
LEMMA WrappedIsFaithful ==
  ASSUME NEW b, NEW c, IsCall(c), ~c.comp, NEW wrapper, NEW orig, wrapper # "composite"
  PROVE  \A o \in RegisterWrapper(c, wrapper, orig) : Faithful(b, c, o)
<1>1. c.comp = (wrapper = "composite") BY DEF IsCall
<1> QED BY <1>1, WrapperIsFaithful

(***************************************************************************)
(* The overloads of `method'.                                              *)
(***************************************************************************)

\* The overloads for composites.
LEMMA CompositeIsFaithful ==
  ASSUME NEW b, NEW c, IsCall(c), c.comp
  PROVE  \A o \in MethodComposite(b, c) : Faithful(b, c, o)
<1>1. CASE c.form = "raw"
  <2>1. CASE c.generic \/ ForceGeneric(b)
    <3>1. MethodComposite(b, c) = {} BY <1>1, <2>1 DEF MethodComposite
    <3> QED BY <3>1
  <2>2. CASE ~c.generic /\ ~ForceGeneric(b)
    <3>1. MethodComposite(b, c) = RegisterNative(c, "THISCALL_COMP")
      BY <1>1, <2>2 DEF MethodComposite
    <3>2. c.comp = ("THISCALL_COMP" = "THISCALL_COMP") BY DEF IsCall
    <3> QED BY <2>2, <3>1, <3>2, NativeIsFaithful
  <2> QED BY <2>1, <2>2
<1>2. CASE c.form = "fp"
  <2>1. CASE c.generic
    <3>1. MethodComposite(b, c) = RegisterWrapper(c, "composite", "THISCALL")
      BY <1>2, <2>1 DEF MethodComposite
    <3>2. c.comp = ("composite" = "composite") BY DEF IsCall
    <3> QED BY <3>1, <3>2, WrapperIsFaithful
  <2>2. CASE ~c.generic
    <3>1. MethodComposite(b, c) = UsualChoice(b, c) BY <1>2, <2>2 DEF MethodComposite
    <3> QED BY <3>1, UsualIsFaithful
  <2> QED BY <2>1, <2>2
<1> QED BY <1>1, <1>2 DEF IsCall

\* An overload without a composite: nothing, another overload, a wrapper, or a
\* native function where none must be generic.
Usual(b, c, os) ==
  \/ os = {} \/ os = UsualChoice(b, c) \/ os = RegisterGeneric(c)
  \/ os = CallOverload(Generic(c)) \/ os = CallOverload(Pointer(c))
  \/ os = CallOverload(c)
  \/ \E wrapper, orig : wrapper # "composite" /\ os = RegisterWrapper(c, wrapper, orig)
  \/ ~c.generic /\ ~ForceGeneric(b) /\ \E conv \in Deduced : os = RegisterNative(c, conv)

\* Each of them is faithful.
LEMMA UsualOutcomes ==
  ASSUME NEW b, NEW c, IsCall(c), ~c.comp, NEW os, Usual(b, c, os)
  PROVE  \A o \in os : Faithful(b, c, o)
<1>1. CASE os = {} BY <1>1
<1>2. CASE os = UsualChoice(b, c) BY <1>2, UsualIsFaithful
<1>3. CASE os = RegisterGeneric(c) BY <1>3, GenericIsFaithful
<1>4. CASE os = CallOverload(Generic(c)) BY <1>4, GivenOn, CallIsFaithful
<1>5. CASE os = CallOverload(Pointer(c)) BY <1>5, GivenOn, CallIsFaithful
<1>6. CASE os = CallOverload(c)
  <2>1. Keeps(c, c) BY DEF Keeps
  <2> QED BY <1>6, <2>1, CallIsFaithful
<1>7. CASE \E wrapper, orig :
             wrapper # "composite" /\ os = RegisterWrapper(c, wrapper, orig)
  BY <1>7, WrappedIsFaithful
<1>8. CASE ~c.generic /\ ~ForceGeneric(b) /\ \E conv \in Deduced : os = RegisterNative(c, conv)
  BY <1>8, DeducedIsFaithful
<1> QED BY <1>1, <1>2, <1>3, <1>4, <1>5, <1>6, <1>7, <1>8 DEF Usual

\* The overloads of `method' for what is no composite.
LEMMA MethodsAreUsual ==
  ASSUME NEW b, NEW c, IsCall(c), ~c.comp, c.family = "method"
  PROVE  /\ Usual(b, c, MethodPointer(b, c)) /\ Usual(b, c, MethodFp(b, c))
         /\ Usual(b, c, MethodLambda(b, c)) /\ Usual(b, c, MethodVarType(b, c))
         /\ Usual(b, c, MethodWrapped(b, c))
<1>1. /\ method_callconv(c) \in Deduced /\ Located(c, method_callconv(c)) \in Deduced
      /\ \A thiscall : conv_of_loc(c.loc, thiscall) \in Deduced
      /\ "CDECL_OBJFIRST" \in Deduced
  BY MethodConv DEF Deduced
<1>2. Usual(b, c, MethodPointer(b, c)) BY <1>1 DEF Usual, MethodPointer
<1>3. Usual(b, c, MethodFp(b, c))
  <2>1. \/ MethodFp(b, c) \in {{}, UsualChoice(b, c)}
        \/ MethodFp(b, c) = RegisterWrapper(c, "nontype", Located(c, method_callconv(c)))
        \/ /\ ~c.generic /\ ~ForceGeneric(b)
           /\ MethodFp(b, c) = RegisterNative(c, conv_of_loc(c.loc, TRUE))
    BY DEF MethodFp, IsCall
  <2> QED BY <1>1, <2>1 DEF Usual
<1>4. Usual(b, c, MethodLambda(b, c)) BY <1>1 DEF Usual, MethodLambda
<1>5. Usual(b, c, MethodVarType(b, c)) BY <1>1 DEF Usual, MethodVarType
<1>6. Usual(b, c, MethodWrapped(b, c)) BY <1>1 DEF Usual, MethodWrapped
<1> QED BY <1>2, <1>3, <1>4, <1>5, <1>6

(***************************************************************************)
(* The overloads of behaviours and global functions.                       *)
(***************************************************************************)

\* The other families.
LEMMA OthersAreUsual ==
  ASSUME NEW b, NEW c, IsCall(c), ~c.comp
  PROVE  /\ Usual(b, c, behaviour(b, c)) /\ Usual(b, c, template_callback(b, c))
         /\ Usual(b, c, constructor_function(b, c)) /\ Usual(b, c, destructor_function(b, c))
         /\ Usual(b, c, list_constructor_function(b, c)) /\ Usual(b, c, factory_function(b, c))
         /\ Usual(b, c, list_factory_function(b, c)) /\ Usual(b, c, function(b, c))
<1>1. /\ BehaviourConv(c) \in Deduced /\ Located(c, BehaviourConv(c)) \in Deduced
      /\ "CDECL_OBJFIRST" \in Deduced /\ "CDECL" \in Deduced
  BY BehaviourIsDeduced DEF Deduced
<1>2. Usual(b, c, behaviour(b, c)) BY <1>1 DEF Usual, behaviour
<1>3. Usual(b, c, template_callback(b, c)) BY <1>1 DEF Usual, template_callback
<1>4. Usual(b, c, ConstructorPointer(b, c)) BY <1>1 DEF Usual, ConstructorPointer
<1>5. Usual(b, c, ConstructorWrapped(b, c)) BY <1>1 DEF Usual, ConstructorWrapped
<1>6. Usual(b, c, ConstructorGeneric(b, c)) BY <1>1 DEF Usual, ConstructorGeneric
<1>7. Usual(b, c, ConstructorExplicit(b, c)) BY <1>1 DEF Usual, ConstructorExplicit
<1>8. Usual(b, c, constructor_function(b, c))
  <2>1. Usual(b, c, UsualChoice(b, c)) BY DEF Usual
  <2> QED BY <2>1, <1>4, <1>5, <1>6, <1>7 DEF constructor_function
<1>9. Usual(b, c, destructor_function(b, c)) BY <1>1 DEF Usual, destructor_function
<1>10. Usual(b, c, list_constructor_function(b, c))
  BY <1>1 DEF Usual, list_constructor_function
<1>11. Usual(b, c, factory_function(b, c))
  BY <1>1 DEF Usual, factory_function, FactoryPointer, FactoryGeneric
<1>12. Usual(b, c, list_factory_function(b, c)) BY <1>1 DEF Usual, list_factory_function
<1>13. Usual(b, c, function(b, c))
  <2>1. PICK conv : conv = IF c.aux THEN "THISCALL_ASGLOBAL" ELSE deduce_function_callconv(fn)
    OBVIOUS
  <2>2. conv \in Deduced BY <2>1 DEF deduce_function_callconv, Deduced
  <2> QED BY <1>1, <2>1, <2>2 DEF Usual, function
<1> QED BY <1>2, <1>3, <1>8, <1>9, <1>10, <1>11, <1>12, <1>13

\* Every outcome of every overload is faithful to the call.
LEMMA OverloadsAreFaithful ==
  ASSUME NEW b, NEW c, IsCall(c)
  PROVE  \A o \in Overload(b, c) : Faithful(b, c, o)
<1>1. CASE c.family = "method"
  <2>1. Overload(b, c) = method(b, c) BY <1>1 DEF Overload
  <2>2. CASE c.comp
    <3>1. method(b, c) = MethodComposite(b, c) BY <2>2 DEF method, IsCall
    <3> QED BY <2>1, <2>2, <3>1, CompositeIsFaithful
  <2>3. CASE ~c.comp
    <3>1. c.form \in {"raw", "fp", "lambda", "gfn", "wrapped"} BY DEF IsCall, Forms
    <3>2. method(b, c) \in {RegisterGeneric(c), MethodWrapped(b, c), MethodVarType(b, c),
                            MethodPointer(b, c), MethodFp(b, c), MethodLambda(b, c)}
      BY <2>3, <3>1 DEF method
    <3>3. Usual(b, c, RegisterGeneric(c)) BY DEF Usual
    <3>4. Usual(b, c, method(b, c)) BY <1>1, <2>3, <3>2, <3>3, MethodsAreUsual
    <3> QED BY <2>1, <2>3, <3>4, UsualOutcomes
  <2> QED BY <2>2, <2>3
<1>2. CASE c.family # "method"
  <2>1. ~c.comp BY <1>2 DEF IsCall
  <2>2. Overload(b, c) \in
          {behaviour(b, c), template_callback(b, c), constructor_function(b, c),
           destructor_function(b, c), list_constructor_function(b, c),
           factory_function(b, c), list_factory_function(b, c), function(b, c)}
    BY <1>2 DEF Overload, IsCall, Families
  <2>3. Usual(b, c, Overload(b, c)) BY <2>1, <2>2, OthersAreUsual
  <2> QED BY <2>1, <2>3, UsualOutcomes
<1> QED BY <1>1, <1>2

(***************************************************************************)
(* Nothing is dropped.                                                     *)
(***************************************************************************)

\* Each build calls an overload that keeps what the application wants, and
\* AngelScript is given what the application wants.
Inv ==
  /\ at = [b \in Builds |-> at[b]] /\ stage = [b \in Builds |-> stage[b]]
  /\ reg = [b \in Builds |-> reg[b]]
  /\ \A b \in Builds :
       /\ IsCall(at[b]) /\ Keeps(want, at[b])
       /\ stage[b] \in {"registered", "called"} => Says(b, want, reg[b])

\* What is faithful to a call that keeps the request is faithful to the request.
LEMMA SaysWhatIsWanted ==
  ASSUME NEW b, NEW w, NEW c, Keeps(w, c)
  PROVE  /\ \A d : Keeps(c, d) => Keeps(w, d)
         /\ \A r : Says(b, c, r) => Says(b, w, r)
BY DEF Keeps, Says

\* What the application wants is a call.
LEMMA InitInv == Init => Inv
<1> SUFFICES ASSUME Init PROVE Inv OBVIOUS
<1>a. \E family \in Families, auxiliary, generic, explicit, comp \in BOOLEAN, form \in Forms :
        \E f \in Functions(family, auxiliary), as \in ArgLists(family) :
          \E loc \in {"none", f.end} :
            LET c == [family |-> family, generic |-> generic, form |-> form,
                      explicit |-> explicit, aux |-> auxiliary, loc |-> loc, comp |-> comp,
                      var |-> IF form \in {"fp", "lambda"} THEN AnyAt(as) ELSE {}]
            IN  Sensible(c, f, as) /\ want = c /\ fn = f /\ args = as
  BY DEF Init
<1>b. PICK family \in Families, auxiliary \in BOOLEAN, generic \in BOOLEAN,
           explicit \in BOOLEAN, comp \in BOOLEAN, form \in Forms :
        \E f \in Functions(family, auxiliary), as \in ArgLists(family) :
          \E loc \in {"none", f.end} :
            LET c == [family |-> family, generic |-> generic, form |-> form,
                      explicit |-> explicit, aux |-> auxiliary, loc |-> loc, comp |-> comp,
                      var |-> IF form \in {"fp", "lambda"} THEN AnyAt(as) ELSE {}]
            IN  Sensible(c, f, as) /\ want = c /\ fn = f /\ args = as
  BY <1>a
<1>1. PICK f, as, loc, var :
        /\ want = Call8(family, generic, form, explicit, auxiliary, loc, comp, var)
        /\ Sensible(want, f, as)
  BY <1>b DEF Call8
<1>2. /\ want.family = family /\ want.generic = generic /\ want.form = form
      /\ want.explicit = explicit /\ want.aux = auxiliary /\ want.loc = loc
      /\ want.comp = comp /\ want.var = var
  BY <1>1 DEF Call8
<1>3. want.comp => want.family = "method" /\ want.form \in {"fp", "raw"}
  BY <1>1 DEF Sensible
<1>4. IsCall(want) BY <1>1, <1>2, <1>3 DEF IsCall
<1>5. Keeps(want, want) BY DEF Keeps
<1> QED BY <1>4, <1>5 DEF Init, Inv

\* Every step of a build keeps it.
LEMMA NextInv == Inv /\ [Next]_vars => Inv'
<1> SUFFICES ASSUME Inv, [Next]_vars PROVE Inv' OBVIOUS
<1>1. CASE UNCHANGED vars BY <1>1 DEF vars, Inv, IsCall, Keeps, Says
<1>2. CASE Next
  <2>1. PICK b \in Builds : Step(b) BY <1>2 DEF Next
  <2>2. CASE Forward(b)
    <3>1. PICK o \in Overload(b, at[b]) : o.do = "call" /\ at' = [at EXCEPT ![b] = o.call]
      BY <2>2 DEF Forward
    <3>2. Faithful(b, at[b], o) BY <3>1, OverloadsAreFaithful DEF Inv
    <3>3. IsCall(o.call) /\ Keeps(want, o.call)
      BY <3>1, <3>2, SaysWhatIsWanted DEF Faithful, Inv
    <3> QED BY <3>1, <3>3, <2>2 DEF Inv, Forward, request
  <2>3. CASE Register(b)
    <3>1. PICK o \in Overload(b, at[b]) : o.do = "register" /\ reg' = [reg EXCEPT ![b] = o.reg]
      BY <2>3 DEF Register
    <3>2. Faithful(b, at[b], o) BY <3>1, OverloadsAreFaithful DEF Inv
    <3>3. Says(b, want, o.reg)
      BY <3>1, <3>2, SaysWhatIsWanted DEF Faithful, Inv
    <3> QED BY <3>1, <3>3, <2>3 DEF Inv, Register, request
  <2>4. CASE Refuse(b) BY <2>4 DEF Inv, Refuse, request
  <2>5. CASE Call(b) BY <2>5 DEF Inv, Call, request
  <2> QED BY <2>1, <2>2, <2>3, <2>4, <2>5 DEF Step
<1> QED BY <1>1, <1>2

\* Whatever chain of overloads a registration goes through, AngelScript is given
\* nothing but a generic function where use_generic or ForceGeneric ask for it,
\* and explicit, the auxiliary object and the composite as the application gave
\* them, for functions of any number of arguments (class.hpp, global.hpp).
THEOREM NothingGetsLost == Spec => []NothingIsDropped
<1>1. Inv => NothingIsDropped BY DEF Inv, NothingIsDropped, Says
<1> QED BY <1>1, InitInv, NextInv, PTL DEF Spec

(***************************************************************************)
(* What applications register.                                             *)
(***************************************************************************)

\* What holds of a registration, whatever has become of it.
Request ==
  /\ IsCall(want) /\ want.aux \in BOOLEAN /\ want.explicit \in BOOLEAN
  /\ fn \in Functions(want.family, want.aux) /\ args \in ArgLists(want.family)
  /\ Sensible(want, fn, args)
  /\ want.loc \in {"none", fn.end}
  /\ want.var = IF want.form \in {"fp", "lambda"} THEN AnyAt(args) ELSE {}
  /\ template \in BOOLEAN
  /\ template => want.family \in TakesTypeInfo
  /\ want.family = "template_callback" => template

\* The families whose functions act on an object.
OfObject == {"method", "behaviour", "destructor_function"}

\* Which functions a family has.
HasShape(f, family, aux) ==
  /\ f \in [member : BOOLEAN, end : {"first", "last", "none"}, obj : {"T", "A", "void"}]
  /\ ~aux /\ f.member => f.end = "none" /\ family \in OfObject
  /\ family \in OfObject /\ ~aux /\ ~f.member => f.end # "none" /\ f.obj = "T"
  /\ family \in OfObject /\ aux => f.member /\ f.end # "none" /\ f.obj = "T"
  /\ family = "constructor_function" => ~aux /\ ~f.member /\ f.obj \in {"T", "void"}
  /\ family = "list_constructor_function" =>
       ~aux /\ ~f.member /\ f.end # "none" /\ f.obj \in {"T", "void"}
  /\ family \in AsGlobal \cup {"function"} /\ ~aux => ~f.member /\ f.end = "none"
  /\ family \in AsGlobal \cup {"function"} /\ aux /\ f.member => f.end = "none"
  /\ family \in AsGlobal \cup {"function"} /\ aux /\ ~f.member =>
       f.end # "none" /\ f.obj = "A" /\ family \in {"factory_function", "list_factory_function"}

\* Every function that a family is registered with has that shape.
LEMMA FunctionsHaveShape ==
  ASSUME NEW family \in Families, NEW aux \in BOOLEAN, NEW f \in Functions(family, aux)
  PROVE  HasShape(f, family, aux)
<1> USE DEF Functions
<1>1. CASE family \in OfObject /\ ~aux BY <1>1 DEF HasShape, OfObject, AsGlobal
<1>2. CASE family \in OfObject /\ aux BY <1>2 DEF HasShape, OfObject, AsGlobal
<1>3. CASE family = "constructor_function" BY <1>3 DEF HasShape, OfObject, AsGlobal
<1>4. CASE family = "list_constructor_function" BY <1>4 DEF HasShape, OfObject, AsGlobal
<1>5. CASE family \in {"factory_function", "list_factory_function"} /\ aux
  BY <1>5 DEF HasShape, OfObject, AsGlobal
<1>6. CASE family \in {"factory_function", "list_factory_function"} /\ ~aux
  BY <1>6 DEF HasShape, OfObject, AsGlobal
<1>7. CASE family \in {"template_callback", "function"} /\ aux
  BY <1>7 DEF HasShape, OfObject, AsGlobal
<1>8. CASE family \in {"template_callback", "function"} /\ ~aux
  BY <1>8 DEF HasShape, OfObject, AsGlobal
<1> QED BY <1>1, <1>2, <1>3, <1>4, <1>5, <1>6, <1>7, <1>8 DEF Families, OfObject

\* Which arguments.
LEMMA ArgumentsAre ==
  ASSUME NEW family \in Families, NEW xs \in ArgLists(family)
  PROVE  /\ xs \in Seq(ArgKinds) /\ Len(xs) <= 1 + MaxArgs
         /\ AnyAt(xs) \subseteq 0..MaxArgs - 1
         /\ family # "method" => AnyAt(xs) = {}
         /\ family \in {"list_constructor_function", "list_factory_function"} => xs = <<"list">>
<1>1. MaxArgs \in Nat BY MaxArgsIsNat
<1>2. CASE family \notin {"behaviour", "destructor_function", "template_callback",
                          "list_constructor_function", "list_factory_function"}
  <2>1. xs \in UNION {[1..n -> {"val", "same"} \cup
                         (IF family = "method" THEN {"any"} ELSE {})] : n \in 0..MaxArgs}
    BY <1>2 DEF ArgLists
  <2>2. PICK n \in 0..MaxArgs :
          xs \in [1..n -> {"val", "same"} \cup (IF family = "method" THEN {"any"} ELSE {})]
    BY <2>1
  <2>3. n \in Nat /\ n <= MaxArgs BY <1>1
  <2>4. xs \in Seq(ArgKinds) /\ Len(xs) = n /\ DOMAIN xs = 1..n BY <2>2, <2>3 DEF ArgKinds
  <2>5. AnyAt(xs) \subseteq 0..MaxArgs - 1 BY <1>1, <2>3, <2>4 DEF AnyAt
  <2>6. family # "method" => AnyAt(xs) = {} BY <2>2, <2>4 DEF AnyAt
  <2> QED BY <1>1, <1>2, <2>3, <2>4, <2>5, <2>6
<1>3. CASE family \in {"behaviour", "destructor_function", "template_callback",
                       "list_constructor_function", "list_factory_function"}
  <2>1. xs \in {<<>>, <<"val">>, <<"list">>} BY <1>3 DEF ArgLists
  <2>2. xs \in Seq(ArgKinds) /\ Len(xs) <= 1 + MaxArgs
    <3>1. /\ <<>> \in Seq(ArgKinds) /\ <<"val">> \in Seq(ArgKinds) /\ <<"list">> \in Seq(ArgKinds)
          /\ Len(<<>>) = 0 /\ Len(<<"val">>) = 1 /\ Len(<<"list">>) = 1
      BY DEF ArgKinds
    <3>2. 0 <= 1 + MaxArgs /\ 1 <= 1 + MaxArgs BY <1>1
    <3>3. CASE xs = <<>> BY <3>1, <3>2, <3>3
    <3>4. CASE xs = <<"val">> BY <3>1, <3>2, <3>4
    <3>5. CASE xs = <<"list">> BY <3>1, <3>2, <3>5
    <3> QED BY <2>1, <3>3, <3>4, <3>5
  <2>3. AnyAt(xs) = {} BY <2>1 DEF AnyAt
  <2>4. family \in {"list_constructor_function", "list_factory_function"} => xs = <<"list">>
    BY DEF ArgLists
  <2> QED BY <1>3, <2>2, <2>3, <2>4
<1> QED BY <1>2, <1>3

\* What AngelScript passes, and where `?' is in it.
LEMMA EngineArgsAre ==
  ASSUME Request
  PROVE  /\ EngineArgs \in Seq(ArgKinds)
         /\ Len(EngineArgs) = IF template THEN Len(args) + 1 ELSE Len(args)
         /\ want.family # "method" => AnyAt(EngineArgs) = {}
         /\ AnyAt(EngineArgs) = AnyAt(args)
         /\ ~template => EngineArgs = args
<1>1. /\ args \in Seq(ArgKinds) /\ Len(args) \in Nat
      /\ (want.family # "method" => AnyAt(args) = {})
      /\ template \in BOOLEAN
  BY ArgumentsAre, LenProperties DEF Request, IsCall
<1>2. CASE ~template
  <2>1. EngineArgs = <<>> \o args BY <1>2 DEF EngineArgs
  <2>2. EngineArgs = args BY <2>1, <1>1, ConcatEmptySeq
  <2> QED BY <1>1, <1>2, <2>2
<1>3. CASE template
  <2>1. EngineArgs = <<"ti">> \o args BY <1>3 DEF EngineArgs
  <2>2. <<"ti">> \in Seq(ArgKinds) BY DEF ArgKinds
  <2>3. /\ EngineArgs \in Seq(ArgKinds) /\ Len(EngineArgs) = 1 + Len(args)
        /\ EngineArgs[1] = "ti" /\ \A k \in 1..Len(args) : EngineArgs[1 + k] = args[k]
    <3>1. Len(<<"ti">>) = 1 /\ <<"ti">>[1] = "ti" OBVIOUS
    <3>2. PICK s : s = <<"ti">> OBVIOUS
    <3>3. s \in Seq(ArgKinds) /\ Len(s) = 1 /\ s[1] = "ti" BY <2>2, <3>1, <3>2
    <3>4. PICK t : t = s \o args OBVIOUS
    <3>5. /\ t \in Seq(ArgKinds) /\ Len(t) = Len(s) + Len(args)
          /\ \A k \in 1..Len(s) : t[k] = s[k]
          /\ \A k \in 1..Len(args) : t[Len(s) + k] = args[k]
      BY <1>1, <3>3, <3>4, ConcatProperties
    <3>6. 1 \in 1..Len(s) BY <3>3
    <3>7. t[1] = "ti" BY <3>3, <3>5, <3>6
    <3>8. EngineArgs = t BY <2>1, <3>2, <3>4
    <3> QED BY <3>3, <3>5, <3>7, <3>8
  <2>4. want.family # "method" BY <1>3 DEF Request, TakesTypeInfo
  <2>5. AnyAt(args) = {} BY <1>1, <2>4
  <2>6. \A k \in DOMAIN args : args[k] # "any" BY <2>5 DEF AnyAt
  <2>7. AnyAt(EngineArgs) = {}
    <3>1. ASSUME NEW k \in DOMAIN EngineArgs, EngineArgs[k] = "any" PROVE FALSE
      <4>1. k \in 1..1 + Len(args) /\ Len(args) \in Nat BY <1>1, <2>3, LenProperties
      <4>2. k # 1 BY <2>3, <3>1
      <4>3. k - 1 \in 1..Len(args) /\ 1 + (k - 1) = k BY <4>1, <4>2
      <4>4. args[k - 1] = "any" BY <2>3, <3>1, <4>3
      <4>5. k - 1 \in DOMAIN args BY <1>1, <4>3, LenProperties
      <4> QED BY <2>6, <4>4, <4>5
    <3> QED BY <3>1 DEF AnyAt
  <2>8. Len(args) \in Nat BY <1>1, LenProperties
  <2> QED BY <1>3, <2>3, <2>4, <2>5, <2>7, <2>8
<1> QED BY <1>2, <1>3 DEF Request

\* The parameters of the function, and how many there are.
LEMMA ParametersAre ==
  ASSUME Request, NEW types, types = ParamTypes(fn, EngineArgs)
  PROVE  /\ HasShape(fn, want.family, want.aux)
         /\ types \in Seq(ParamTypeNames \cup {"A"})
         /\ ArgTypes(EngineArgs) \in Seq(ParamTypeNames) /\ Len(ArgTypes(EngineArgs)) \in Nat
         /\ fn.end = "none" => types = ArgTypes(EngineArgs)
         /\ fn.end # "none" => Len(types) = Len(ArgTypes(EngineArgs)) + 1
         /\ fn.end = "first" => types[1] = fn.obj
         /\ fn.end = "last" => types[Len(types)] = fn.obj
<1>1. HasShape(fn, want.family, want.aux) BY FunctionsHaveShape DEF Request, IsCall
<1>2. PICK s : s = ArgTypes(EngineArgs) OBVIOUS
<1>3. s \in Seq(ParamTypeNames) BY <1>2, EngineArgsAre, TypesAre
<1>4. s \in Seq(ParamTypeNames \cup {"A"}) /\ Len(s) \in Nat BY <1>3, LenProperties, SeqMonotonic
<1>5. <<fn.obj>> \in Seq(ParamTypeNames \cup {"A"}) /\ Len(<<fn.obj>>) = 1 /\ <<fn.obj>>[1] = fn.obj
  BY <1>1 DEF HasShape, ParamTypeNames
<1>6. CASE fn.end = "none"
  <2>1. types = s BY <1>2, <1>6 DEF ParamTypes, AtEnd
  <2> QED BY <1>1, <1>2, <1>3, <1>4, <1>6, <2>1
<1>7. CASE fn.end = "first"
  <2>1. types = <<fn.obj>> \o s BY <1>2, <1>7 DEF ParamTypes, AtEnd
  <2>2. /\ types \in Seq(ParamTypeNames \cup {"A"}) /\ Len(types) = 1 + Len(s)
        /\ types[1] = fn.obj
    BY <1>4, <1>5, <2>1, ConcatProperties
  <2> QED BY <1>1, <1>2, <1>3, <1>4, <1>7, <2>2
<1>8. CASE fn.end = "last"
  <2>1. types = s \o <<fn.obj>> BY <1>2, <1>8 DEF ParamTypes, AtEnd
  <2>2. /\ types \in Seq(ParamTypeNames \cup {"A"}) /\ Len(types) = Len(s) + 1
        /\ types[Len(s) + 1] = fn.obj
    BY <1>4, <1>5, <2>1, ConcatProperties
  <2> QED BY <1>1, <1>2, <1>3, <1>4, <1>8, <2>2
<1> QED BY <1>1, <1>6, <1>7, <1>8 DEF HasShape

(***************************************************************************)
(* The convention of a request, which is the same for every build.         *)
(***************************************************************************)

\* What is deduced for it, if anything is.
Deduction ==
  IF want.comp THEN "THISCALL_COMP"
  ELSE IF want.family = "method" THEN Located(want, method_callconv(want))
  ELSE IF want.family = "function"
  THEN (IF want.aux THEN "THISCALL_ASGLOBAL" ELSE deduce_function_callconv(fn))
  ELSE Located(want, BehaviourConv(want))

\* The convention under which the function is given to AngelScript.
Convention ==
  IF want.form = "gfn" THEN "generic"
  ELSE IF want.form = "wrapped"
  THEN (IF want.family = "function" THEN "CDECL" ELSE "CDECL_OBJFIRST")
  ELSE Deduction

\* How well a parameter fits the object.
Rank(t, class, tryVoid) ==
  IF t = class THEN 2 ELSE IF tryVoid /\ t = "void" THEN 1 ELSE 0

\* What the types at both ends say of a convention.
RankedEnds(conv, types, class, tryVoid, first, last) ==
  /\ conv \in {first, last}
  /\ Len(types) \in Nat /\ Len(types) # 0
  /\ conv = first =>
       /\ Len(types) # 1
       /\ Rank(types[1], class, tryVoid) >= Rank(types[Len(types)], class, tryVoid)
  /\ conv = last => \/ Len(types) = 1
                    \/ Rank(types[Len(types)], class, tryVoid) > Rank(types[1], class, tryVoid)

\* What is deduced for a free function, from the types of its first and last
\* parameter (common.hpp).
LEMMA RankOfEnds ==
  ASSUME NEW X, NEW types \in Seq(X), NEW class \in {"T", "A"}, NEW tryVoid \in BOOLEAN,
         NEW conv, conv = CdeclByEnds(types, class, tryVoid), conv # "ill-formed"
  PROVE  RankedEnds(conv, types, class, tryVoid, "CDECL_OBJFIRST", "CDECL_OBJLAST")
<1>a. PICK n : n = Len(types) OBVIOUS
<1>1. n \in Nat /\ (types # <<>> <=> n # 0) BY <1>a
<1>2. PICK a, z : a = types[1] /\ z = types[n] OBVIOUS
<1>3. PICK F, V : /\ F = {e \in {1, n} : types # <<>> /\ is_this_arg(types[e], class, FALSE)}
                  /\ V = {e \in {1, n} : types # <<>> /\ is_this_arg(types[e], class, TRUE)}
  OBVIOUS
<1>4. conv = CASE F # {} -> cdecl_method_callconv(n, 1 \in F)
               [] F = {} /\ tryVoid /\ V # {} -> cdecl_method_callconv(n, 1 \in V)
               [] OTHER -> "ill-formed"
  BY <1>a, <1>3 DEF CdeclByEnds
<1>5. n # 0
  <2>1. CASE n = 0
    <3>1. F = {} /\ V = {} BY <1>1, <1>3, <2>1
    <3> QED BY <1>4, <3>1
  <2> QED BY <2>1
<1>6. /\ 1 \in F <=> a = class
      /\ F # {} <=> (a = class \/ z = class)
      /\ 1 \in V <=> (a = class \/ a = "void")
      /\ V # {} <=> (a = class \/ a = "void" \/ z = class \/ z = "void")
  BY <1>1, <1>2, <1>3, <1>5 DEF is_this_arg
<1>7. n = 1 => a = z BY <1>2
<1>8. CASE F # {}
  <2>1. conv = cdecl_method_callconv(n, 1 \in F) BY <1>4, <1>8
  <2>2. CASE a = class /\ n # 1
    <3>1. conv = "CDECL_OBJFIRST" BY <2>1, <2>2, <1>6 DEF cdecl_method_callconv
    <3>2. Rank(a, class, tryVoid) >= Rank(z, class, tryVoid) BY <2>2 DEF Rank
    <3> QED BY <1>a, <1>1, <1>2, <1>5, <2>2, <3>1, <3>2 DEF RankedEnds
  <2>3. CASE ~(a = class /\ n # 1)
    <3>1. conv = "CDECL_OBJLAST" BY <2>1, <2>3, <1>6 DEF cdecl_method_callconv
    <3>2. n = 1 \/ Rank(z, class, tryVoid) > Rank(a, class, tryVoid)
      BY <2>3, <1>6, <1>8 DEF Rank
    <3> QED BY <1>a, <1>1, <1>2, <1>5, <3>1, <3>2 DEF RankedEnds
  <2> QED BY <2>2, <2>3
<1>9. CASE F = {}
  <2>1. tryVoid /\ V # {} /\ conv = cdecl_method_callconv(n, 1 \in V) BY <1>4, <1>9
  <2>a. a # class /\ z # class BY <1>6, <1>9
  <2>2. CASE a = "void" /\ n # 1
    <3>1. conv = "CDECL_OBJFIRST" BY <2>1, <2>2, <1>6 DEF cdecl_method_callconv
    <3>2. Rank(a, class, tryVoid) >= Rank(z, class, tryVoid) BY <2>1, <2>2, <2>a DEF Rank
    <3> QED BY <1>a, <1>1, <1>2, <1>5, <2>2, <3>1, <3>2 DEF RankedEnds
  <2>3. CASE ~(a = "void" /\ n # 1)
    <3>1. conv = "CDECL_OBJLAST" BY <2>1, <2>3, <2>a, <1>6 DEF cdecl_method_callconv
    <3>2. n = 1 \/ Rank(z, class, tryVoid) > Rank(a, class, tryVoid)
      BY <2>1, <2>3, <2>a, <1>6 DEF Rank
    <3> QED BY <1>a, <1>1, <1>2, <1>5, <3>1, <3>2 DEF RankedEnds
  <2> QED BY <2>2, <2>3
<1> QED BY <1>8, <1>9

\* What is deduced for a method of an auxiliary that is also given the object.
LEMMA RankOfEndsAux ==
  ASSUME NEW X, ParamTypes(fn, EngineArgs) \in Seq(X),
         NEW types, types = ParamTypes(fn, EngineArgs),
         NEW conv, conv = deduce_method_callconv_aux(fn, EngineArgs), conv # "ill-formed"
  PROVE  /\ fn.member
         /\ RankedEnds(conv, types, "T", FALSE, "THISCALL_OBJFIRST", "THISCALL_OBJLAST")
<1>a. PICK n : n = Len(types) OBVIOUS
<1>1. n \in Nat /\ (types # <<>> <=> n # 0) BY <1>a
<1>2. PICK a, z : a = types[1] /\ z = types[n] OBVIOUS
<1>3. PICK F : F = {e \in {1, n} : types # <<>> /\ types[e] = "T"} OBVIOUS
<1>4. conv = CASE ~fn.member \/ F = {} -> "ill-formed"
               [] fn.member /\ 1 \in F /\ n # 1 -> "THISCALL_OBJFIRST"
               [] OTHER -> "THISCALL_OBJLAST"
  BY <1>a, <1>3 DEF deduce_method_callconv_aux
<1>5. fn.member /\ F # {} BY <1>4
<1>6. n # 0 BY <1>1, <1>3, <1>5
<1>7. /\ 1 \in F <=> a = "T"
      /\ a = "T" \/ z = "T"
  BY <1>1, <1>2, <1>3, <1>5, <1>6
<1>8. CASE a = "T" /\ n # 1
  <2>1. conv = "THISCALL_OBJFIRST" BY <1>4, <1>5, <1>7, <1>8
  <2>2. Rank(a, "T", FALSE) >= Rank(z, "T", FALSE) BY <1>8 DEF Rank
  <2> QED BY <1>a, <1>1, <1>2, <1>5, <1>6, <1>8, <2>1, <2>2 DEF RankedEnds
<1>9. CASE ~(a = "T" /\ n # 1)
  <2>1. conv = "THISCALL_OBJLAST" BY <1>4, <1>5, <1>7, <1>9
  <2>2. n = 1 \/ Rank(z, "T", FALSE) > Rank(a, "T", FALSE) BY <1>7, <1>9 DEF Rank
  <2> QED BY <1>a, <1>1, <1>2, <1>5, <1>6, <2>1, <2>2 DEF RankedEnds
<1> QED BY <1>8, <1>9

\* The object is at the end where the convention puts it.
RightEnd(conv) ==
  /\ conv \in {"CDECL_OBJFIRST", "THISCALL_OBJFIRST"} => fn.end = "first"
  /\ conv \in {"CDECL_OBJLAST", "THISCALL_OBJLAST"} => fn.end = "last" \/ EngineArgs = <<>>

\* Of a function with one parameter, which is the object, nothing is passed.
LEMMA NoParameters ==
  ASSUME Request, NEW types, types = ParamTypes(fn, EngineArgs), Len(types) = 1, fn.end # "none"
  PROVE  EngineArgs = <<>>
<1>1. EngineArgs \in Seq(ArgKinds) BY EngineArgsAre
<1>2. PICK n, m : n = Len(EngineArgs) /\ m = Doubled(Marks(EngineArgs), n) OBVIOUS
<1>3. n \in Nat /\ m \in Nat BY <1>1, <1>2, LenProperties, OneMoreDoubled
<1>4. Len(ArgTypes(EngineArgs)) = n + m BY <1>1, <1>2, TypesAre DEF IsSpread
<1>5. Len(types) = Len(ArgTypes(EngineArgs)) + 1 BY ParametersAre
<1>6. n = 0 BY <1>3, <1>4, <1>5
<1> QED BY <1>1, <1>2, <1>6, EmptySeq

\* Unless the ends mislead, the object is at the end that was deduced.
LEMMA RankedIsRight ==
  ASSUME Request, ~Misleading, want.loc = "none", want.form \notin {"gfn", "wrapped"},
         fn.end # "none", NEW conv, NEW first, NEW last,
         \/ first = "CDECL_OBJFIRST" /\ last = "CDECL_OBJLAST"
         \/ first = "THISCALL_OBJFIRST" /\ last = "THISCALL_OBJLAST",
         NEW types, types = ParamTypes(fn, EngineArgs),
         NEW class, class = (IF want.family \in AsGlobal THEN "A" ELSE "T"),
         NEW tries, tries = (want.family \in {"constructor_function", "list_constructor_function"}),
         RankedEnds(conv, types, class, tries, first, last)
  PROVE  RightEnd(conv)
<1>a. PICK n : n = Len(types) OBVIOUS
<1>1. types \in Seq(ParamTypeNames \cup {"A"}) BY ParametersAre
<1>2. n \in Nat /\ n # 0 /\ types # <<>> BY <1>1, <1>a, EmptySeq DEF RankedEnds
<1>3. PICK a, z : a = types[1] /\ z = types[n] OBVIOUS
<1>4. PICK r, s : r = Rank(a, class, tries) /\ s = Rank(z, class, tries) OBVIOUS
<1>5. r \in Nat /\ s \in Nat BY <1>4 DEF Rank
<1>6. ~(fn.end = "last" /\ n > 1 /\ r >= s) /\ ~(fn.end = "first" /\ s > r)
  <2>1. PICK rank : rank = [t \in {a, z} |-> CASE t = class -> 2
                   [] t # class /\ tries /\ t = "void" -> 1
                   [] OTHER -> 0] OBVIOUS
  <2>2. Head(types) = a BY <1>1, <1>2, <1>3
  <2>3. /\ r = CASE a = class -> 2
                 [] a # class /\ tries /\ a = "void" -> 1
                 [] OTHER -> 0
        /\ s = CASE z = class -> 2
                 [] z # class /\ tries /\ z = "void" -> 1
                 [] OTHER -> 0
    BY <1>4 DEF Rank
  <2>4. Misleading <=> 
          \/ fn.end = "last" /\ n > 1 /\ r >= s
          \/ fn.end = "first" /\ s > r
    BY <1>a, <1>2, <1>3, <2>2, <2>3 DEF Misleading
  <2> QED BY <2>4
<1>7. fn.end \in {"first", "last"} BY ParametersAre DEF HasShape
<1>8. CASE conv = first
  <2>1. n # 1 /\ r >= s BY <1>8, <1>a, <1>3, <1>4 DEF RankedEnds
  <2>2. fn.end = "first" BY <2>1, <1>2, <1>6, <1>7
  <2> QED BY <1>8, <2>2 DEF RightEnd
<1>9. CASE conv = last
  <2>1. n = 1 \/ s > r BY <1>9, <1>a, <1>3, <1>4, <1>2 DEF RankedEnds
  <2>2. CASE n = 1
    <3>1. EngineArgs = <<>> BY <1>a, <2>2, NoParameters
    <3> QED BY <1>9, <3>1 DEF RightEnd
  <2>3. CASE s > r
    <3>1. fn.end = "last" BY <2>3, <1>6, <1>7
    <3> QED BY <1>9, <3>1 DEF RightEnd
  <2> QED BY <2>1, <2>2, <2>3
<1> QED BY <1>8, <1>9 DEF RankedEnds

\* For which functions a convention is.
Fits(conv) ==
  \/ conv = "CDECL" /\ ~fn.member /\ fn.end = "none" /\ ~want.aux
  \/ /\ conv = "THISCALL" /\ fn.member /\ fn.end = "none" /\ ~want.aux
     /\ want.family \in OfObject /\ ~want.comp
  \/ conv = "THISCALL_COMP" /\ fn.member /\ fn.end = "none" /\ ~want.aux /\ want.comp
  \/ /\ conv = "THISCALL_ASGLOBAL" /\ fn.member /\ fn.end = "none" /\ want.aux
     /\ want.family \in AsGlobal \cup {"function"}
  \/ /\ conv \in {"CDECL_OBJFIRST", "CDECL_OBJLAST"} /\ ~fn.member /\ fn.end # "none"
     /\ want.aux <=> want.family \in AsGlobal
     /\ want.family # "function"
  \/ /\ conv \in {"THISCALL_OBJFIRST", "THISCALL_OBJLAST"} /\ fn.member /\ fn.end # "none"
     /\ want.aux /\ want.family \in OfObject

\* A convention is that of the function, unless the ends mislead.
Sound(conv) == conv # "ill-formed" => Fits(conv) /\ (~Misleading => RightEnd(conv))

\* So it is for a free function that is given an object,
LEMMA CdeclSound ==
  ASSUME Request, want.loc = "none", want.form \notin {"gfn", "wrapped"},
         ~fn.member, fn.end # "none",
         want.aux <=> want.family \in AsGlobal, want.family # "function",
         NEW class, class = (IF want.family \in AsGlobal THEN "A" ELSE "T"),
         NEW tries, tries = (want.family \in {"constructor_function", "list_constructor_function"}),
         NEW conv, conv = CdeclByEnds(ParamTypes(fn, EngineArgs), class, tries)
  PROVE  Sound(conv)
<1> SUFFICES ASSUME conv # "ill-formed" PROVE Sound(conv) BY DEF Sound
<1>1. PICK types : types = ParamTypes(fn, EngineArgs) OBVIOUS
<1>2. types \in Seq(ParamTypeNames \cup {"A"}) BY <1>1, ParametersAre
<1>3. class \in {"T", "A"} /\ tries \in BOOLEAN OBVIOUS
<1>4. RankedEnds(conv, types, class, tries, "CDECL_OBJFIRST", "CDECL_OBJLAST")
  BY <1>1, <1>2, <1>3, RankOfEnds
<1>5. ~Misleading => RightEnd(conv) BY <1>1, <1>4, RankedIsRight
<1>6. Fits(conv) BY <1>4 DEF Fits, RankedEnds
<1> QED BY <1>5, <1>6 DEF Sound

\* and for a method of an auxiliary that is given one.
LEMMA ThiscallSound ==
  ASSUME Request, want.loc = "none", want.form \notin {"gfn", "wrapped"},
         want.aux, want.family \in OfObject,
         NEW conv, conv = deduce_method_callconv_aux(fn, EngineArgs)
  PROVE  Sound(conv)
<1> SUFFICES ASSUME conv # "ill-formed" PROVE Sound(conv) BY DEF Sound
<1>1. PICK types : types = ParamTypes(fn, EngineArgs) OBVIOUS
<1>2. types \in Seq(ParamTypeNames \cup {"A"}) /\ HasShape(fn, want.family, want.aux)
  BY <1>1, ParametersAre
<1>3. /\ fn.member
      /\ RankedEnds(conv, types, "T", FALSE, "THISCALL_OBJFIRST", "THISCALL_OBJLAST")
  BY <1>1, <1>2, RankOfEndsAux
<1>4. fn.end # "none" BY <1>2 DEF HasShape
<1>a. PICK class, tries :
        /\ class = (IF want.family \in AsGlobal THEN "A" ELSE "T")
        /\ tries = (want.family \in {"constructor_function", "list_constructor_function"})
  OBVIOUS
<1>b. class = "T" /\ tries = FALSE
  <2>1. /\ want.family \notin AsGlobal
        /\ want.family \notin {"constructor_function", "list_constructor_function"}
    BY DEF OfObject, AsGlobal
  <2>2. (want.family \in {"constructor_function", "list_constructor_function"}) = FALSE
    BY <2>1
  <2>3. class = "T" BY <1>a, <2>1
  <2>4. tries = FALSE BY ONLY <1>a, <2>2
  <2> QED BY <2>3, <2>4
<1>c. RankedEnds(conv, types, class, tries, "THISCALL_OBJFIRST", "THISCALL_OBJLAST")
  BY <1>3, <1>b
<1>5. ~Misleading => RightEnd(conv) BY <1>1, <1>4, <1>a, <1>c, RankedIsRight
<1>6. Fits(conv) BY <1>3, <1>4 DEF Fits, RankedEnds
<1> QED BY <1>5, <1>6 DEF Sound

\* Whatever is deduced for a request is sound.
LEMMA DeductionSound ==
  ASSUME Request, want.form \notin {"gfn", "wrapped"}
  PROVE  Sound(Deduction)
<1>1. HasShape(fn, want.family, want.aux) /\ want.aux \in BOOLEAN /\ want.comp \in BOOLEAN
      /\ want.family \in Families
  BY ParametersAre DEF Request, IsCall
<1>2. CASE want.comp
  <2>1. want.family = "method" /\ fn.member /\ ~want.aux
    BY <1>2 DEF Request, Sensible
  <2>2. fn.end = "none" BY <1>1, <2>1 DEF HasShape
  <2>3. Deduction = "THISCALL_COMP" BY <1>2 DEF Deduction
  <2> QED BY <1>2, <2>1, <2>2, <2>3 DEF Sound, Fits, RightEnd
<1>3. CASE ~want.comp /\ want.loc # "none"
  <2>1. /\ want.loc = fn.end
        /\ want.family \in {"method", "constructor_function",
                            "factory_function", "list_factory_function"}
    BY <1>3 DEF Request, Sensible
  <2>2. Deduction = conv_of_loc(fn.end, want.family = "method" /\ want.aux)
    BY <1>3, <2>1 DEF Deduction, Located
  <2>3. fn.end \in {"first", "last"} BY <1>1, <1>3, <2>1 DEF HasShape
  <2>4. CASE want.family = "method" /\ want.aux
    <3>1. Deduction = IF fn.end = "first" THEN "THISCALL_OBJFIRST" ELSE "THISCALL_OBJLAST"
      BY <2>2, <2>4 DEF conv_of_loc
    <3>2. fn.member BY <1>1, <2>4 DEF HasShape, OfObject
    <3> QED BY <2>3, <2>4, <3>1, <3>2 DEF Sound, Fits, RightEnd, OfObject
  <2>5. CASE ~(want.family = "method" /\ want.aux)
    <3>1. Deduction = IF fn.end = "first" THEN "CDECL_OBJFIRST" ELSE "CDECL_OBJLAST"
      BY <2>2, <2>5 DEF conv_of_loc
    <3>2. ~fn.member BY <1>1, <2>1, <2>3, <2>5 DEF HasShape, OfObject, AsGlobal
    <3>3. want.aux <=> want.family \in AsGlobal
      BY <1>1, <2>1, <2>3, <2>5 DEF HasShape, OfObject, AsGlobal
    <3>4. want.family # "function" BY <2>1
    <3> QED BY <2>3, <3>1, <3>2, <3>3, <3>4 DEF Sound, Fits, RightEnd
  <2> QED BY <2>4, <2>5
<1>4. CASE ~want.comp /\ want.loc = "none" /\ want.family \in OfObject
  <2>1. Deduction = IF want.aux THEN deduce_method_callconv_aux(fn, EngineArgs)
                    ELSE deduce_method_callconv(fn, EngineArgs, FALSE)
    <3>1. CASE want.family = "method"
      BY <1>4, <3>1 DEF Deduction, Located, method_callconv
    <3>2. CASE want.family # "method"
      <4>1. /\ want.family \notin AsGlobal /\ want.family # "function"
            /\ want.family \notin {"constructor_function", "list_constructor_function"}
            /\ want.family # "template_callback"
        BY <1>4 DEF OfObject, AsGlobal
      <4>2. Deduction = BehaviourConv(want) BY <1>4, <3>2, <4>1 DEF Deduction, Located
      <4>3. deduce_beh_callconv(want.family, fn, EngineArgs)
              = deduce_method_callconv(fn, EngineArgs, FALSE)
        <5>1. (want.family \in {"constructor_function", "list_constructor_function"}) = FALSE
          BY <4>1
        <5> QED BY <4>1, <5>1 DEF deduce_beh_callconv
      <4>4. deduce_beh_callconv_aux(want.family, fn, EngineArgs)
              = deduce_method_callconv_aux(fn, EngineArgs)
        BY <4>1 DEF deduce_beh_callconv_aux
      <4> QED BY <4>2, <4>3, <4>4 DEF BehaviourConv
    <3> QED BY <3>1, <3>2
  <2>2. CASE want.aux BY <1>4, <2>1, <2>2, ThiscallSound
  <2>3. CASE ~want.aux /\ fn.member
    <3>1. Deduction = "THISCALL" BY <2>1, <2>3 DEF deduce_method_callconv
    <3>2. fn.end = "none" BY <1>1, <2>3 DEF HasShape
    <3> QED BY <1>4, <2>3, <3>1, <3>2 DEF Sound, Fits, RightEnd
  <2>4. CASE ~want.aux /\ ~fn.member
    <3>1. PICK class, tries :
        /\ class = (IF want.family \in AsGlobal THEN "A" ELSE "T")
        /\ tries = (want.family \in {"constructor_function", "list_constructor_function"})
      OBVIOUS
    <3>a. /\ want.family \notin AsGlobal /\ want.family # "function"
          /\ want.family \notin {"constructor_function", "list_constructor_function"}
      BY <1>4 DEF OfObject, AsGlobal
    <3>b. (want.family \in {"constructor_function", "list_constructor_function"}) = FALSE
      BY <3>a
    <3>c. tries = FALSE BY ONLY <3>1, <3>b
    <3>2. class = "T" /\ tries = FALSE /\ want.family \notin AsGlobal /\ want.family # "function"
      BY <3>1, <3>a, <3>c
    <3>3. Deduction = CdeclByEnds(ParamTypes(fn, EngineArgs), class, tries)
      BY <2>1, <2>4, <3>2 DEF deduce_method_callconv
    <3>4. fn.end # "none" BY <1>1, <1>4, <2>4 DEF HasShape
    <3>5. want.aux <=> want.family \in AsGlobal BY <2>4, <3>2
    <3> QED BY <1>4, <2>4, <3>1, <3>2, <3>3, <3>4, <3>5, CdeclSound
  <2> QED BY <1>1, <2>2, <2>3, <2>4
<1>5. CASE want.loc = "none" /\ want.family = "function"
  <2>1. ~want.comp BY <1>5 DEF Request, Sensible
  <2>2. Deduction = IF want.aux THEN "THISCALL_ASGLOBAL" ELSE deduce_function_callconv(fn)
    BY <1>5, <2>1 DEF Deduction
  <2>3. CASE want.aux
    <3>1. fn.member /\ fn.end = "none" BY <1>1, <1>5, <2>3 DEF HasShape, AsGlobal
    <3> QED BY <1>5, <2>2, <2>3, <3>1 DEF Sound, Fits, RightEnd
  <2>4. CASE ~want.aux
    <3>1. ~fn.member /\ fn.end = "none" BY <1>1, <1>5, <2>4 DEF HasShape
    <3> QED BY <2>2, <2>4, <3>1 DEF Sound, Fits, RightEnd, deduce_function_callconv
  <2> QED BY <2>3, <2>4
<1>6. CASE want.loc = "none" /\ want.family \in AsGlobal
  <2>1. ~want.comp /\ want.family # "method" /\ want.family # "function"
    BY <1>6 DEF Request, Sensible, AsGlobal
  <2>2. Deduction = BehaviourConv(want) BY <1>6, <2>1 DEF Deduction, Located
  <2>3. CASE want.aux /\ fn.member
    <3>1. fn.end = "none" BY <1>1, <1>6, <2>3 DEF HasShape
    <3>2. Deduction = "THISCALL_ASGLOBAL"
      BY <1>6, <2>2, <2>3 DEF BehaviourConv, deduce_beh_callconv_aux
    <3> QED BY <1>6, <2>3, <3>1, <3>2 DEF Sound, Fits, RightEnd
  <2>4. CASE want.aux /\ ~fn.member
    <3>1. fn.end # "none" /\ want.family # "template_callback"
      BY <1>1, <1>6, <2>4 DEF HasShape
    <3>2. PICK class, tries :
        /\ class = (IF want.family \in AsGlobal THEN "A" ELSE "T")
        /\ tries = (want.family \in {"constructor_function", "list_constructor_function"})
      OBVIOUS
    <3>a. want.family \notin {"constructor_function", "list_constructor_function"}
      BY <1>6 DEF AsGlobal
    <3>b. (want.family \in {"constructor_function", "list_constructor_function"}) = FALSE
      BY <3>a
    <3>c. tries = FALSE BY ONLY <3>2, <3>b
    <3>3. class = "A" /\ tries = FALSE BY <1>6, <3>2, <3>c
    <3>4. Deduction = CdeclByEnds(ParamTypes(fn, EngineArgs), "A", FALSE)
      BY <1>6, <2>2, <2>4, <3>1 DEF BehaviourConv, deduce_beh_callconv_aux
    <3>5. want.aux <=> want.family \in AsGlobal BY <1>6, <2>4
    <3> QED BY <1>6, <2>1, <2>4, <3>1, <3>2, <3>3, <3>4, <3>5, CdeclSound
  <2>5. CASE ~want.aux
    <3>1. ~fn.member /\ fn.end = "none" BY <1>1, <1>6, <2>5 DEF HasShape
    <3>2. Deduction = "CDECL"
      BY <1>6, <2>2, <2>5, <3>1 DEF BehaviourConv, deduce_beh_callconv, deduce_function_callconv
    <3> QED BY <2>5, <3>1, <3>2 DEF Sound, Fits, RightEnd
  <2> QED BY <1>1, <2>3, <2>4, <2>5
<1>7. CASE /\ want.loc = "none"
           /\ want.family \in {"constructor_function", "list_constructor_function"}
  <2>1. /\ ~want.comp /\ want.family # "method" /\ want.family # "function"
        /\ want.family \notin AsGlobal /\ ~want.aux /\ ~fn.member /\ fn.end # "none"
    BY <1>1, <1>7 DEF Request, Sensible, AsGlobal, HasShape
  <2>2. Deduction = BehaviourConv(want) BY <1>7, <2>1 DEF Deduction, Located
  <2>3. PICK class, tries :
        /\ class = (IF want.family \in AsGlobal THEN "A" ELSE "T")
        /\ tries = (want.family \in {"constructor_function", "list_constructor_function"})
    OBVIOUS
  <2>4. class = "T" BY <2>1, <2>3
  <2>5. Deduction = CdeclByEnds(ParamTypes(fn, EngineArgs), "T", tries)
    BY <2>1, <2>2, <2>3 DEF BehaviourConv, deduce_beh_callconv, deduce_method_callconv
  <2>6. want.aux <=> want.family \in AsGlobal BY <2>1
  <2> QED BY <1>7, <2>1, <2>3, <2>4, <2>5, <2>6, CdeclSound
<1>8. \/ want.family \in OfObject \/ want.family = "function" \/ want.family \in AsGlobal
      \/ want.family \in {"constructor_function", "list_constructor_function"}
  BY <1>1 DEF OfObject, AsGlobal, Families
<1> QED BY <1>1, <1>2, <1>3, <1>4, <1>5, <1>6, <1>7, <1>8

(***************************************************************************)
(* What arrives natively.                                                  *)
(***************************************************************************)

\* The convention of a request is sound, or the request is wrapped or generic.
LEMMA ConventionSound ==
  ASSUME Request, want.form \notin {"gfn", "wrapped"}
  PROVE  Convention = Deduction /\ Sound(Convention)
BY DeductionSound DEF Convention

\* What a wrapped request is.
WrappedShape ==
  /\ ~want.aux /\ ~want.comp /\ want.family \notin AsGlobal /\ AnyAt(args) = {}
  /\ \/ want.family = "method" /\ fn.member /\ fn.end = "none"
     \/ want.family = "method" /\ ~fn.member /\ fn.end = "first"
     \/ want.family = "function" /\ ~fn.member /\ fn.end = "none"
     \/ want.family = "constructor_function" /\ ~fn.member /\ fn.end = "none"

\* A function that is wrapped by hand has no auxiliary, composite or `?'.
LEMMA WrappedRequest ==
  ASSUME Request, want.form = "wrapped"
  PROVE  WrappedShape
<1>1. HasShape(fn, want.family, want.aux) BY ParametersAre
<1>2. /\ ~want.aux /\ AnyAt(args) = {}
      /\ \/ want.family = "method" /\ (fn.member \/ fn.end = "first")
         \/ want.family = "function"
         \/ want.family = "constructor_function" /\ fn.end = "none"
  BY DEF Request, Sensible
<1>3. ~want.comp BY DEF Request, Sensible
<1>4. want.family \notin AsGlobal BY <1>2 DEF AsGlobal
<1>5. CASE want.family = "method" /\ fn.member
  BY <1>1, <1>2, <1>3, <1>4, <1>5 DEF WrappedShape, HasShape
<1>6. CASE want.family = "method" /\ ~fn.member
  BY <1>2, <1>3, <1>4, <1>6 DEF WrappedShape
<1>7. CASE want.family = "function"
  BY <1>1, <1>2, <1>3, <1>4, <1>7 DEF WrappedShape, HasShape
<1>8. CASE want.family = "constructor_function"
  BY <1>1, <1>2, <1>3, <1>4, <1>8 DEF WrappedShape, HasShape
<1> QED BY <1>2, <1>5, <1>6, <1>7, <1>8

\* Two sequences of one element.
LEMMA PairIsConcat ==
  ASSUME NEW a, NEW z
  PROVE  <<a>> \o <<z>> = <<a, z>>
<1>1. PICK S : S = {a, z} OBVIOUS
<1>2. PICK s, t, u : s = <<a>> /\ t = <<z>> /\ u = <<a, z>> OBVIOUS
<1>3. /\ s \in Seq(S) /\ Len(s) = 1 /\ s[1] = a
      /\ t \in Seq(S) /\ Len(t) = 1 /\ t[1] = z
      /\ u \in Seq(S) /\ Len(u) = 2 /\ u[1] = a /\ u[2] = z
  BY <1>1, <1>2
<1>4. PICK v : v = s \o t OBVIOUS
<1>5. /\ v \in Seq(S) /\ Len(v) = Len(s) + Len(t)
      /\ \A i \in 1..Len(s) + Len(t) : v[i] = IF i <= Len(s) THEN s[i] ELSE t[i - Len(s)]
  BY <1>3, <1>4, ConcatProperties
<1>6. Len(v) = 2 /\ v[1] = s[1] /\ v[2] = t[2 - 1] BY <1>3, <1>5
<1>7. \A i \in 1..2 : v[i] = u[i] BY <1>3, <1>6
<1>8. v = u BY <1>3, <1>5, <1>6, <1>7, SeqEqual
<1> QED BY <1>2, <1>4, <1>8

\* Natively, the function receives what its author expects, unless the ends
\* mislead the deduction.
LEMMA NativeRight ==
  ASSUME Request, Convention # "ill-formed", want.form # "gfn", ~Misleading
  PROVE  NativeArgs(Convention, want.family, EngineArgs) = Intended
<1>1. PICK passed : passed = PassedArgs(EngineArgs) OBVIOUS
<1>a. PICK object : object = IF want.family \in AsGlobal THEN Aux ELSE Obj OBVIOUS
<1>2. HasShape(fn, want.family, want.aux) BY ParametersAre
<1>3. Intended = CASE want.form = "gfn" -> <<>>
        [] want.form = "wrapped" /\ want.family = "constructor_function" -> <<Obj>> \o passed
        [] want.comp -> <<Comp>> \o passed
        [] fn.member /\ want.aux -> <<Aux>> \o AtEnd(fn.end, Obj, passed)
        [] fn.member /\ ~want.aux /\ ~want.comp -> <<Obj>> \o passed
        [] OTHER -> AtEnd(fn.end, object, passed)
  BY <1>1, <1>a DEF Intended
<1>4. CASE want.form = "wrapped"
  <2>1. WrappedShape BY <1>4, WrappedRequest
  <2>2. Convention = IF want.family = "function" THEN "CDECL" ELSE "CDECL_OBJFIRST"
    BY <1>4 DEF Convention
  <2>3. object = Obj BY <1>a, <2>1 DEF WrappedShape
  <2>4. CASE want.family = "function" /\ ~fn.member /\ fn.end = "none"
    <3>1. NativeArgs(Convention, want.family, EngineArgs) = passed
      BY <1>1, <2>2, <2>4 DEF NativeArgs
    <3>2. Intended = AtEnd(fn.end, object, passed) BY <1>3, <1>4, <2>1, <2>4 DEF WrappedShape
    <3> QED BY <2>4, <3>1, <3>2 DEF AtEnd
  <2>5. CASE want.family \in {"method", "constructor_function"}
    <3>1. NativeArgs(Convention, want.family, EngineArgs) = <<Obj>> \o passed
      BY <1>1, <1>a, <2>2, <2>3, <2>5 DEF NativeArgs
    <3>2. CASE want.family = "constructor_function"
      BY <1>3, <1>4, <2>1, <3>1, <3>2 DEF WrappedShape
    <3>3. CASE want.family = "method" /\ fn.member
      BY <1>3, <1>4, <2>1, <3>1, <3>3 DEF WrappedShape
    <3>4. CASE want.family = "method" /\ ~fn.member
      <4>1. fn.end = "first" BY <2>1, <3>4 DEF WrappedShape
      <4>2. Intended = AtEnd(fn.end, object, passed)
        BY <1>3, <1>4, <2>1, <3>4 DEF WrappedShape
      <4> QED BY <2>3, <3>1, <4>1, <4>2 DEF AtEnd
    <3> QED BY <2>5, <3>2, <3>3, <3>4
  <2> QED BY <2>1, <2>4, <2>5 DEF WrappedShape
<1>5. CASE want.form # "wrapped"
  <2>1. Fits(Convention) /\ RightEnd(Convention) BY <1>5, ConventionSound DEF Sound
  <2>a. EngineArgs = <<>> => passed = <<>>
    <3>1. ASSUME EngineArgs = <<>> PROVE passed = <<>>
      <4>1. EngineArgs \in Seq(ArgKinds) /\ Len(EngineArgs) = 0 BY <3>1, EngineArgsAre
      <4>2. AnyAt(EngineArgs) = {} BY <3>1 DEF AnyAt
      <4>3. passed = get_generic_args(EngineArgs, 0, 0) BY <1>1, <4>1, <4>2, NoAnyPassed
      <4>4. 1..0 = {} OBVIOUS
      <4> QED BY <4>3, <4>4 DEF get_generic_args
    <3> QED BY <3>1
  <2>2. CASE Convention = "CDECL"
    <3>1. ~fn.member /\ fn.end = "none" /\ ~want.aux BY <2>1, <2>2 DEF Fits
    <3>2. ~want.comp BY <3>1 DEF Request, Sensible
    <3>3. Intended = AtEnd(fn.end, object, passed) BY <1>3, <1>5, <3>1, <3>2
    <3>4. NativeArgs(Convention, want.family, EngineArgs) = passed
      BY <1>1, <2>2 DEF NativeArgs
    <3> QED BY <3>1, <3>3, <3>4 DEF AtEnd
  <2>3. CASE Convention = "THISCALL"
    <3>1. fn.member /\ fn.end = "none" /\ ~want.aux /\ ~want.comp BY <2>1, <2>3 DEF Fits
    <3>2. Intended = <<Obj>> \o passed BY <1>3, <1>5, <3>1
    <3> QED BY <1>1, <2>3, <3>2 DEF NativeArgs
  <2>4. CASE Convention = "THISCALL_COMP"
    <3>1. want.comp /\ ~want.aux BY <2>1, <2>4 DEF Fits
    <3>2. Intended = <<Comp>> \o passed BY <1>3, <1>5, <3>1
    <3> QED BY <1>1, <2>4, <3>2 DEF NativeArgs
  <2>5. CASE Convention = "THISCALL_ASGLOBAL"
    <3>1. fn.member /\ fn.end = "none" /\ want.aux BY <2>1, <2>5 DEF Fits
    <3>2. ~want.comp BY <3>1 DEF Request, Sensible
    <3>3. Intended = <<Aux>> \o AtEnd(fn.end, Obj, passed) BY <1>3, <1>5, <3>1, <3>2
    <3>4. AtEnd(fn.end, Obj, passed) = passed BY <3>1 DEF AtEnd
    <3> QED BY <1>1, <2>5, <3>3, <3>4 DEF NativeArgs
  <2>6. CASE Convention \in {"CDECL_OBJFIRST", "CDECL_OBJLAST"}
    <3>1. ~fn.member BY <2>1, <2>6 DEF Fits
    <3>2. ~want.comp BY <3>1 DEF Request, Sensible
    <3>3. Intended = AtEnd(fn.end, object, passed) BY <1>3, <1>5, <3>1, <3>2
    <3>4. fn.end \in {"first", "last"} BY <1>2, <2>1, <2>6 DEF Fits, HasShape
    <3>5. CASE Convention = "CDECL_OBJFIRST"
      <4>1. fn.end = "first" BY <2>1, <3>5 DEF RightEnd
      <4>2. NativeArgs(Convention, want.family, EngineArgs) = <<object>> \o passed
        BY <1>1, <1>a, <3>5 DEF NativeArgs
      <4> QED BY <3>3, <4>1, <4>2 DEF AtEnd
    <3>6. CASE Convention = "CDECL_OBJLAST"
      <4>1. fn.end = "last" \/ passed = <<>> BY <2>1, <2>a, <3>6 DEF RightEnd
      <4>2. NativeArgs(Convention, want.family, EngineArgs) = passed \o <<object>>
        BY <1>1, <1>a, <3>6 DEF NativeArgs
      <4>3. <<>> \o <<object>> = <<object>> \o <<>> OBVIOUS
      <4> QED BY <3>3, <3>4, <4>1, <4>2, <4>3 DEF AtEnd
    <3> QED BY <2>6, <3>5, <3>6
  <2>7. CASE Convention \in {"THISCALL_OBJFIRST", "THISCALL_OBJLAST"}
    <3>1. fn.member /\ want.aux BY <2>1, <2>7 DEF Fits
    <3>2. ~want.comp BY <3>1 DEF Request, Sensible
    <3>3. Intended = <<Aux>> \o AtEnd(fn.end, Obj, passed) BY <1>3, <1>5, <3>1, <3>2
    <3>4. fn.end \in {"first", "last"} BY <1>2, <2>1, <2>7 DEF Fits, HasShape
    <3>a. PICK S : S = Tokens(Len(EngineArgs)) \cup {Obj, Aux} OBVIOUS
    <3>b. passed \in Seq(S) /\ Obj \in S /\ Aux \in S
      <4>1. passed \in Seq(Tokens(Len(EngineArgs))) BY <1>1, EngineArgsAre, PassedIs
      <4> QED BY <3>a, <4>1, SeqMonotonic
    <3>5. CASE Convention = "THISCALL_OBJFIRST"
      <4>1. fn.end = "first" BY <2>1, <3>5 DEF RightEnd
      <4>2. NativeArgs(Convention, want.family, EngineArgs) = <<Aux, Obj>> \o passed
        BY <1>1, <3>5 DEF NativeArgs
      <4>3. <<Aux, Obj>> \o passed = <<Aux>> \o (<<Obj>> \o passed)
        <5>1. <<Aux>> \in Seq(S) /\ <<Obj>> \in Seq(S) BY <3>b
        <5>2. <<Aux>> \o <<Obj>> = <<Aux, Obj>> BY PairIsConcat
        <5> QED BY <3>b, <5>1, <5>2, ConcatAssociative
      <4> QED BY <3>3, <4>1, <4>2, <4>3 DEF AtEnd
    <3>6. CASE Convention = "THISCALL_OBJLAST"
      <4>1. fn.end = "last" \/ passed = <<>> BY <2>1, <2>a, <3>6 DEF RightEnd
      <4>2. NativeArgs(Convention, want.family, EngineArgs) = <<Aux>> \o passed \o <<Obj>>
        BY <1>1, <3>6 DEF NativeArgs
      <4>3. <<Aux>> \o passed \o <<Obj>> = <<Aux>> \o (passed \o <<Obj>>)
        <5>1. <<Aux>> \in Seq(S) /\ <<Obj>> \in Seq(S) BY <3>b
        <5> QED BY <3>b, <5>1, ConcatAssociative
      <4>4. <<>> \o <<Obj>> = <<Obj>> \o <<>> OBVIOUS
      <4> QED BY <3>3, <3>4, <4>1, <4>2, <4>3, <4>4 DEF AtEnd
    <3> QED BY <2>7, <3>5, <3>6
  <2> QED BY <2>1, <2>2, <2>3, <2>4, <2>5, <2>6, <2>7 DEF Fits
<1> QED BY <1>4, <1>5

(***************************************************************************)
(* What arrives through a wrapper.                                         *)
(***************************************************************************)

\* The wrapper of a request.
WrapOf ==
  IF want.form = "gfn" THEN "gfn"
  ELSE IF want.form = "wrapped"
  THEN (IF want.family = "constructor_function" THEN "ctor_fn" ELSE "map_ret")
  ELSE IF want.comp THEN "composite"
  ELSE IF want.family = "constructor_function"
  THEN (IF want.form = "fp" THEN "ctor_func" ELSE "ctor_lambda")
  ELSE IF want.family = "list_constructor_function" THEN "list_ctor"
  ELSE IF want.family = "factory_function" /\ want.aux THEN "factory_aux"
  ELSE IF want.family = "list_factory_function" THEN "list_factory"
  ELSE "nontype"

\* The convention the wrapper is generated for.
OrigOf ==
  IF want.form \in {"gfn", "wrapped"} THEN "generic"
  ELSE IF want.comp THEN "THISCALL" ELSE Convention

\* What AngelScript may be given.
WantedNative ==
  [conv |-> Convention, wrapper |-> "none", orig |-> Convention,
   explicit |-> want.explicit, aux |-> want.aux, var |-> {}]

\* Or this.
WantedWrapper ==
  [conv |-> "generic", wrapper |-> WrapOf, orig |-> OrigOf,
   explicit |-> want.explicit, aux |-> want.aux, var |-> want.var]

\* A function pointer known at compile time for which there is no overload.
NoOverload ==
  /\ want.form = "fp"
  /\ \/ /\ want.family = "method" /\ ~want.comp /\ want.var = {}
        /\ want.loc # "none" /\ ~want.aux
     \/ want.family = "list_factory_function" /\ ~want.aux

\* Without a function pointer, so that a wrapper can be generated.
Portable == want.form \in {"fp", "lambda", "wrapped"}

\* What is fetched in order, for a template after its type information.
LEMMA Fetched ==
  ASSUME Request, AnyAt(EngineArgs) = {}, NEW n, n = Len(ArgTypes(EngineArgs))
  PROVE  /\ n = Len(EngineArgs) /\ n \in Nat
         /\ get_generic_args(EngineArgs, 0, n) = PassedArgs(EngineArgs)
         /\ WithTypeInfo(template, EngineArgs, n) = PassedArgs(EngineArgs)
         /\ PassedArgs(EngineArgs) = [k \in 1..n |-> ArgOf(EngineArgs, k)]
<1>1. EngineArgs \in Seq(ArgKinds) BY EngineArgsAre
<1>2. n = Len(EngineArgs) /\ PassedArgs(EngineArgs) = get_generic_args(EngineArgs, 0, n)
  BY <1>1, NoAnyPassed
<1>3. n \in Nat BY <1>1, <1>2
<1>a. PICK p : p = PassedArgs(EngineArgs) OBVIOUS
<1>4. p = [k \in 1..n |-> ArgOf(EngineArgs, k)]
  <2>1. p = [k \in 1..n |-> ArgOf(EngineArgs, 0 + k)] BY <1>2, <1>a DEF get_generic_args
  <2>2. \A k \in 1..n : 0 + k = k OBVIOUS
  <2> QED BY <2>1, <2>2
<1>5. WithTypeInfo(template, EngineArgs, n) = p
  <2>1. CASE ~template BY <1>2, <1>a, <2>1 DEF WithTypeInfo
  <2>2. CASE template
    <3>1. n >= 1
      <4>1. Len(EngineArgs) = Len(args) + 1 BY <2>2, EngineArgsAre
      <4>2. args \in Seq(ArgKinds) BY ArgumentsAre DEF Request, IsCall
      <4>3. Len(args) \in Nat BY <4>2
      <4> QED BY <1>2, <4>1, <4>3
    <3>2. PICK S : S = {ArgOf(EngineArgs, k) : k \in 1..n} OBVIOUS
    <3>3. PICK s, t : /\ s = <<ArgOf(EngineArgs, 1)>>
                      /\ t = [i \in 1..n - 1 |-> ArgOf(EngineArgs, 1 + i)]
      OBVIOUS
    <3>4. WithTypeInfo(template, EngineArgs, n) = s \o t
      BY <2>2, <3>3 DEF WithTypeInfo, get_generic_typeinfo, get_generic_args
    <3>5. s \in Seq(S) /\ Len(s) = 1 /\ s[1] = ArgOf(EngineArgs, 1)
      BY <1>3, <3>1, <3>2, <3>3
    <3>6. t \in Seq(S) /\ Len(t) = n - 1
      <4>1. n - 1 \in Nat BY <1>3, <3>1
      <4>2. \A i \in 1..n - 1 : 1 + i \in 1..n BY <1>3
      <4>3. t \in [1..n - 1 -> S] BY <3>2, <3>3, <4>2
      <4> QED BY <4>1, <4>3
    <3>7. PICK v : v = s \o t OBVIOUS
    <3>8. /\ v \in Seq(S) /\ Len(v) = Len(s) + Len(t)
          /\ \A i \in 1..Len(s) + Len(t) :
               v[i] = IF i <= Len(s) THEN s[i] ELSE t[i - Len(s)]
      BY <3>5, <3>6, <3>7, ConcatProperties
    <3>9. Len(v) = n BY <1>3, <3>5, <3>6, <3>8
    <3>10. ASSUME NEW i \in 1..n PROVE v[i] = p[i]
      <4>1. CASE i = 1 BY <1>3, <1>4, <3>1, <3>5, <3>8, <3>9, <4>1
      <4>2. CASE i # 1
        <5>1. i - 1 \in 1..n - 1 /\ 1 + (i - 1) = i BY <1>3, <4>2
        <5>2. v[i] = t[i - 1] BY <1>3, <3>5, <3>6, <3>8, <5>1, <4>2
        <5>3. t[i - 1] = ArgOf(EngineArgs, i) BY <3>3, <5>1
        <5> QED BY <1>4, <5>2, <5>3
      <4> QED BY <4>1, <4>2
    <3>11. v = [i \in 1..n |-> v[i]] BY <3>8, <3>9
    <3>12. p = [i \in 1..n |-> p[i]] BY <1>4
    <3>13. v = p BY <3>10, <3>11, <3>12
    <3> QED BY <3>4, <3>7, <3>13
  <2> QED BY <2>1, <2>2
<1> QED BY <1>2, <1>3, <1>4, <1>5, <1>a

\* What is fetched with at most one `?'.
LEMMA VarFetched ==
  ASSUME Request, want.form \in {"fp", "lambda"}, ~TwoVarTypes,
         NEW types, types = ArgTypes(EngineArgs)
  PROVE  /\ want.var = {} => get_generic_args(EngineArgs, 0, Len(types)) = PassedArgs(EngineArgs)
         /\ want.var # {} =>
              VarTypeArgs(types, want.var, EngineArgs) = PassedArgs(EngineArgs)
<1>1. want.var = AnyAt(EngineArgs) BY EngineArgsAre DEF Request
<1>2. CASE want.var = {}
  <2>1. AnyAt(EngineArgs) = {} BY <1>1, <1>2
  <2> QED BY <1>2, <2>1, Fetched
<1>3. CASE want.var # {}
  <2>1. EngineArgs \in Seq(ArgKinds) BY EngineArgsAre
  <2>2. IsFiniteSet(AnyAt(EngineArgs)) BY <2>1, MarksAreAny
  <2>3. PICK c : c = Cardinality(AnyAt(EngineArgs)) OBVIOUS
  <2>4. c \in Nat /\ c # 0 BY <1>1, <1>3, <2>2, <2>3, FS_CardinalityType, FS_EmptySet
  <2>5. ~(c > 1) BY <1>1, <2>3 DEF TwoVarTypes
  <2>6. c = 1 BY <2>4, <2>5
  <2>7. VarTypeArgs(ArgTypes(EngineArgs), AnyAt(EngineArgs), EngineArgs)
          = PassedArgs(EngineArgs)
    BY <2>1, <2>3, <2>6, OneAnyPassed
  <2> QED BY <1>1, <1>3, <2>7
<1> QED BY <1>2, <1>3

\* Through the wrapper of a function or a method, what would arrive natively.
LEMMA ArrangedRight ==
  ASSUME NEW conv, Fits(conv), conv # "THISCALL_COMP",
         conv \in {"CDECL_OBJFIRST", "CDECL_OBJLAST"} => want.family \notin AsGlobal
  PROVE  Arranged(conv, get_generic_this(conv), PassedArgs(EngineArgs))
           = NativeArgs(conv, want.family, EngineArgs)
BY DEF Fits, Arranged, get_generic_this, NativeArgs

\* The number of parameters behind or before the object.
LEMMA OthersCounted ==
  ASSUME Request, NEW conv, Fits(conv), conv # "THISCALL_COMP"
  PROVE  OtherCount(conv, fn, EngineArgs) = Len(ArgTypes(EngineArgs))
<1>1. PICK types : types = ParamTypes(fn, EngineArgs) OBVIOUS
<1>2. /\ Len(ArgTypes(EngineArgs)) \in Nat
      /\ fn.end = "none" => types = ArgTypes(EngineArgs)
      /\ fn.end # "none" => Len(types) = Len(ArgTypes(EngineArgs)) + 1
  BY <1>1, ParametersAre
<1>3. OtherCount(conv, fn, EngineArgs)
        = IF conv \in {"THISCALL", "THISCALL_ASGLOBAL", "CDECL"} THEN Len(types) ELSE Len(types) - 1
  BY <1>1 DEF OtherCount
<1>4. CASE conv \in {"THISCALL", "THISCALL_ASGLOBAL", "CDECL"}
  <2>1. fn.end = "none" BY <1>4 DEF Fits
  <2> QED BY <1>2, <1>3, <1>4, <2>1
<1>5. CASE conv \notin {"THISCALL", "THISCALL_ASGLOBAL", "CDECL"}
  <2>1. fn.end # "none" BY <1>5 DEF Fits
  <2> QED BY <1>2, <1>3, <1>5, <2>1
<1> QED BY <1>4, <1>5

\* Through the wrapper of a request.
Through == ThroughWrapper(WantedWrapper)

\* It depends on the kind of wrapper.
LEMMA ThroughIs ==
  Through =
    CASE WrapOf = "nontype" /\ want.var = {} -> generic_wrapper_nontype(OrigOf, fn, EngineArgs)
      [] WrapOf = "nontype" /\ want.var # {} -> var_type_wrapper(OrigOf, EngineArgs, want.var)
      [] WrapOf = "composite" -> generic_wrapper_composite(EngineArgs, want.var)
      [] WrapOf = "ctor_func" -> generic_wrapper_ctor_func(template, OrigOf, fn, EngineArgs)
      [] WrapOf = "ctor_lambda" -> generic_wrapper_ctor_lambda(template, OrigOf, fn, EngineArgs)
      [] WrapOf = "list_ctor" -> generic_wrapper_list_ctor(OrigOf, fn, EngineArgs)
      [] WrapOf = "factory_aux" -> generic_wrapper_factory_aux(template, OrigOf, fn, EngineArgs)
      [] WrapOf = "list_factory" -> list_factory_func(template, OrigOf, EngineArgs)
      [] WrapOf = "map_ret" -> map_ret_wrapper_generic(fn, EngineArgs)
      [] WrapOf = "ctor_fn" -> ctor_fn_wrapper_generic(EngineArgs)
      [] WrapOf = "gfn" -> <<>>
BY DEF Through, ThroughWrapper, WantedWrapper

\* For functions that are wrapped by hand.
LEMMA WrappedRight ==
  ASSUME Request, want.form = "wrapped", ~MappedMethod
  PROVE  Through = NativeArgs(Convention, want.family, EngineArgs)
<1>1. WrappedShape BY WrappedRequest
<1>2. AnyAt(EngineArgs) = {} BY <1>1, EngineArgsAre DEF WrappedShape
<1>3. PICK n : n = Len(ArgTypes(EngineArgs)) OBVIOUS
<1>4. get_generic_args(EngineArgs, 0, n) = PassedArgs(EngineArgs) BY <1>2, <1>3, Fetched
<1>5. Convention = IF want.family = "function" THEN "CDECL" ELSE "CDECL_OBJFIRST"
  BY DEF Convention
<1>6. CASE want.family = "constructor_function"
  <2>1. WrapOf = "ctor_fn" BY <1>6 DEF WrapOf
  <2>2. Through = ctor_fn_wrapper_generic(EngineArgs) BY <2>1, ThroughIs
  <2>3. Through = <<Obj>> \o PassedArgs(EngineArgs)
    BY <1>3, <1>4, <2>2 DEF ctor_fn_wrapper_generic
  <2>4. want.family \notin AsGlobal BY <1>1 DEF WrappedShape
  <2> QED BY <1>5, <1>6, <2>3, <2>4 DEF NativeArgs
<1>7. CASE want.family # "constructor_function"
  <2>1. WrapOf = "map_ret" BY <1>7 DEF WrapOf
  <2>2. Through = map_ret_wrapper_generic(fn, EngineArgs) BY <2>1, ThroughIs
  <2>3. fn.end = "none" /\ want.family \notin AsGlobal
    BY <1>1, <1>7 DEF WrappedShape, MappedMethod
  <2>4. Len(ParamTypes(fn, EngineArgs)) = n BY <1>3, <2>3 DEF ParamTypes, AtEnd
  <2>5. CASE want.family = "method"
    <3>1. fn.member BY <2>5 DEF MappedMethod
    <3>2. Through = <<Obj>> \o PassedArgs(EngineArgs)
      BY <1>4, <2>2, <2>4, <3>1 DEF map_ret_wrapper_generic
    <3> QED BY <1>5, <2>3, <2>5, <3>2 DEF NativeArgs
  <2>6. CASE want.family = "function"
    <3>1. ~fn.member BY <1>1, <2>6 DEF WrappedShape
    <3>2. Through = PassedArgs(EngineArgs)
      BY <1>4, <2>2, <2>4, <3>1 DEF map_ret_wrapper_generic
    <3> QED BY <1>5, <2>6, <3>2 DEF NativeArgs
  <2> QED BY <1>1, <1>7, <2>5, <2>6 DEF WrappedShape
<1> QED BY <1>6, <1>7

\* For methods, behaviours and functions.
LEMMA PlainRight ==
  ASSUME Request, want.form \in {"fp", "lambda"}, ~TwoVarTypes, Convention # "ill-formed",
         WrapOf = "nontype", ~want.comp
  PROVE  Through = NativeArgs(Convention, want.family, EngineArgs)
<1>1. Convention = Deduction /\ Fits(Convention) BY ConventionSound DEF Sound
<1>2. OrigOf = Convention BY DEF OrigOf
<1>3. Convention # "THISCALL_COMP" BY <1>1 DEF Fits
<1>4. PICK types, passed : types = ArgTypes(EngineArgs) /\ passed = PassedArgs(EngineArgs)
  OBVIOUS
<1>5. Convention \in {"CDECL_OBJFIRST", "CDECL_OBJLAST"} => want.family \notin AsGlobal
  <2> SUFFICES ASSUME Convention \in {"CDECL_OBJFIRST", "CDECL_OBJLAST"},
                      want.family \in AsGlobal
               PROVE FALSE
    OBVIOUS
  <2>1. want.aux /\ ~fn.member BY <1>1 DEF Fits
  <2>2. want.family # "factory_function" BY <2>1 DEF WrapOf
  <2>3. want.family # "list_factory_function" BY DEF WrapOf
  <2>4. HasShape(fn, want.family, want.aux) BY ParametersAre
  <2>5. want.family = "template_callback" BY <2>2, <2>3 DEF AsGlobal
  <2> QED BY <2>1, <2>4, <2>5 DEF HasShape, AsGlobal
<1>6. Arranged(Convention, get_generic_this(Convention), passed)
        = NativeArgs(Convention, want.family, EngineArgs)
  BY <1>1, <1>3, <1>4, <1>5, ArrangedRight
<1>7. CASE want.var = {}
  <2>1. Through = generic_wrapper_nontype(Convention, fn, EngineArgs)
    BY <1>2, <1>7, ThroughIs
  <2>2. OtherCount(Convention, fn, EngineArgs) = Len(types)
    BY <1>1, <1>3, <1>4, OthersCounted
  <2>3. get_generic_args(EngineArgs, 0, Len(types)) = passed BY <1>4, <1>7, VarFetched
  <2> QED BY <1>6, <2>1, <2>2, <2>3 DEF generic_wrapper_nontype
<1>8. CASE want.var # {}
  <2>1. Through = var_type_wrapper(Convention, EngineArgs, want.var)
    BY <1>2, <1>8, ThroughIs
  <2>2. VarTypeArgs(types, want.var, EngineArgs) = passed BY <1>4, <1>8, VarFetched
  <2> QED BY <1>4, <1>6, <2>1, <2>2 DEF var_type_wrapper
<1> QED BY <1>7, <1>8

\* For composite methods.
LEMMA CompositeRight ==
  ASSUME Request, want.form \in {"fp", "lambda"}, ~TwoVarTypes, want.comp
  PROVE  Through = NativeArgs(Convention, want.family, EngineArgs)
<1>1. WrapOf = "composite" /\ Convention = "THISCALL_COMP"
  BY DEF WrapOf, Convention, Deduction
<1>2. Through = generic_wrapper_composite(EngineArgs, want.var) BY <1>1, ThroughIs
<1>3. comp_accessor(Obj) = Comp BY DEF comp_accessor
<1>4. PICK types : types = ArgTypes(EngineArgs) OBVIOUS
<1>5. /\ want.var = {} => get_generic_args(EngineArgs, 0, Len(types)) = PassedArgs(EngineArgs)
      /\ want.var # {} =>
           VarTypeArgs(types, want.var, EngineArgs) = PassedArgs(EngineArgs)
  BY <1>4, VarFetched
<1>6. Through = <<Comp>> \o PassedArgs(EngineArgs)
  BY <1>2, <1>3, <1>4, <1>5 DEF generic_wrapper_composite
<1> QED BY <1>1, <1>6 DEF NativeArgs

\* For constructors.
LEMMA ConstructorRight ==
  ASSUME Request, want.form \in {"fp", "lambda"}, Convention # "ill-formed",
         want.family = "constructor_function"
  PROVE  Through = NativeArgs(Convention, want.family, EngineArgs)
<1>1. Fits(Convention) BY ConventionSound DEF Sound
<1>2. ~want.aux /\ ~fn.member /\ fn.end # "none" /\ want.family \notin AsGlobal
  <2>1. HasShape(fn, want.family, want.aux) BY ParametersAre
  <2> QED BY <2>1 DEF HasShape, AsGlobal, Request, Sensible
<1>3. Convention \in {"CDECL_OBJFIRST", "CDECL_OBJLAST"} BY <1>1, <1>2 DEF Fits
<1>4. ~want.comp BY DEF Request, Sensible
<1>5. OrigOf = Convention BY <1>4 DEF OrigOf
<1>6. WrapOf \in {"ctor_func", "ctor_lambda"} BY <1>4 DEF WrapOf
<1>7. Through = generic_wrapper_ctor_func(template, Convention, fn, EngineArgs)
  <2>1. CASE WrapOf = "ctor_func" BY <1>5, <2>1, ThroughIs
  <2>2. CASE WrapOf = "ctor_lambda"
    <3>1. Through = generic_wrapper_ctor_lambda(template, Convention, fn, EngineArgs)
      BY <1>5, <2>2, ThroughIs
    <3> QED BY <3>1 DEF generic_wrapper_ctor_lambda
  <2> QED BY <1>6, <2>1, <2>2
<1>8. AnyAt(EngineArgs) = {} BY EngineArgsAre
<1>9. PICK n : n = Len(ArgTypes(EngineArgs)) OBVIOUS
<1>10. Len(ParamTypes(fn, EngineArgs)) - 1 = n
  <2>1. n \in Nat /\ Len(ParamTypes(fn, EngineArgs)) = n + 1 BY <1>2, <1>9, ParametersAre
  <2> QED BY <2>1
<1>11. WithTypeInfo(template, EngineArgs, n) = PassedArgs(EngineArgs) BY <1>8, <1>9, Fetched
<1>12. CASE Convention = "CDECL_OBJFIRST"
  BY <1>2, <1>7, <1>10, <1>11, <1>12 DEF generic_wrapper_ctor_func, NativeArgs
<1>13. CASE Convention = "CDECL_OBJLAST"
  BY <1>2, <1>7, <1>10, <1>11, <1>13 DEF generic_wrapper_ctor_func, NativeArgs
<1> QED BY <1>3, <1>12, <1>13

\* The list is the only argument.
LEMMA ListIsPassed ==
  ASSUME Request, ~template,
         want.family \in {"list_constructor_function", "list_factory_function"}
  PROVE  /\ EngineArgs = <<"list">> /\ Len(ArgTypes(EngineArgs)) = 1
         /\ ArgTypes(EngineArgs)[1] = "void"
         /\ PassedArgs(EngineArgs) = <<ArgOf(EngineArgs, 1)>>
<1>1. EngineArgs = <<"list">> /\ EngineArgs \in Seq(ArgKinds)
  BY EngineArgsAre, ArgumentsAre DEF Request, IsCall
<1>2. Len(EngineArgs) = 1 /\ EngineArgs[1] = "list" BY <1>1
<1>3. AnyAt(EngineArgs) = {} BY EngineArgsAre
<1>4. PICK n : n = Len(ArgTypes(EngineArgs)) OBVIOUS
<1>5. n = 1 /\ PassedArgs(EngineArgs) = [k \in 1..n |-> ArgOf(EngineArgs, k)]
  BY <1>2, <1>3, <1>4, Fetched
<1>6. PassedArgs(EngineArgs) = <<ArgOf(EngineArgs, 1)>>
  <2>1. \A a : [k \in 1..1 |-> a] = <<a>> OBVIOUS
  <2>2. [k \in 1..1 |-> ArgOf(EngineArgs, k)] = [k \in 1..1 |-> ArgOf(EngineArgs, 1)] OBVIOUS
  <2> QED BY <1>5, <2>1, <2>2
<1>7. PICK x, y : /\ x = [k \in 1..1 |-> TypeOf(EngineArgs[k])]
                  /\ y = [k \in 1..1 |-> "int"]
  OBVIOUS
<1>8. IsSpread(Marks(EngineArgs), x, y, 1, ArgTypes(EngineArgs))
  BY <1>1, <1>2, <1>7, TypesAre
<1>9. Place(Marks(EngineArgs), 1) = 1
  <2>1. Doubled(Marks(EngineArgs), 0) = 0 BY OneMoreDoubled
  <2> QED BY <2>1 DEF Place
<1>10. ArgTypes(EngineArgs)[1] = x[1] BY <1>8, <1>9 DEF IsSpread
<1>11. x[1] = "void" BY <1>2, <1>7 DEF TypeOf
<1> QED BY <1>1, <1>4, <1>5, <1>6, <1>10, <1>11

\* For list constructors of classes that are no templates.
LEMMA ListConstructorRight ==
  ASSUME Request, want.form = "fp", Convention # "ill-formed",
         want.family = "list_constructor_function", ~ListConstructor
  PROVE  Through = NativeArgs(Convention, want.family, EngineArgs)
<1>1. Convention = Deduction BY DEF Convention
<1>2. /\ ~want.aux /\ ~fn.member /\ fn.end = "first" /\ want.family \notin AsGlobal
      /\ fn.obj \in {"T", "void"} /\ ~template
  <2>1. HasShape(fn, want.family, want.aux) BY ParametersAre
  <2> QED BY <2>1 DEF HasShape, AsGlobal, ListConstructor
<1>3. ~want.comp /\ want.loc = "none" BY DEF Request, Sensible
<1>4. OrigOf = Convention /\ WrapOf = "list_ctor" BY <1>3 DEF OrigOf, WrapOf
<1>5. PICK types : types = ParamTypes(fn, EngineArgs) OBVIOUS
<1>6. Convention = CdeclByEnds(types, "T", TRUE)
  <2>1. Deduction = BehaviourConv(want) BY <1>2, <1>3 DEF Deduction, Located
  <2>2. (want.family \in {"constructor_function", "list_constructor_function"}) = TRUE OBVIOUS
  <2>3. BehaviourConv(want) = deduce_method_callconv(fn, EngineArgs, TRUE)
    BY <1>2, <2>2 DEF BehaviourConv, deduce_beh_callconv
  <2> QED BY <1>1, <1>2, <1>5, <2>1, <2>3 DEF deduce_method_callconv
<1>7. types \in Seq(ParamTypeNames \cup {"A"}) /\ types[1] = fn.obj
  BY <1>2, <1>5, ParametersAre
<1>8. /\ EngineArgs = <<"list">> /\ Len(ArgTypes(EngineArgs)) = 1
      /\ ArgTypes(EngineArgs)[1] = "void"
      /\ PassedArgs(EngineArgs) = <<ArgOf(EngineArgs, 1)>>
  BY <1>2, ListIsPassed
<1>9. Len(types) = 2 /\ types[2] = "void"
  <2>1. PICK s, t : s = <<fn.obj>> /\ t = ArgTypes(EngineArgs) OBVIOUS
  <2>2. types = s \o t BY <1>2, <1>5, <2>1 DEF ParamTypes, AtEnd
  <2>3. t \in Seq(ParamTypeNames) /\ Len(t) = 1 /\ t[1] = "void" BY <1>8, <2>1, ParametersAre
  <2>4. s \in Seq(ParamTypeNames) /\ Len(s) = 1 BY <1>2, <2>1 DEF ParamTypeNames
  <2>5. /\ Len(types) = Len(s) + Len(t)
        /\ \A i \in 1..Len(s) + Len(t) :
             types[i] = IF i <= Len(s) THEN s[i] ELSE t[i - Len(s)]
    BY <2>2, <2>3, <2>4, ConcatProperties
  <2>6. Len(types) = 2 /\ types[2] = t[2 - 1] BY <2>3, <2>4, <2>5
  <2> QED BY <2>3, <2>6
<1>10. RankedEnds(Convention, types, "T", TRUE, "CDECL_OBJFIRST", "CDECL_OBJLAST")
  BY <1>6, <1>7, RankOfEnds
<1>11. ~(Rank(types[2], "T", TRUE) > Rank(types[1], "T", TRUE))
  BY <1>2, <1>7, <1>9 DEF Rank
<1>12. Convention = "CDECL_OBJFIRST"
  <2>1. /\ Convention \in {"CDECL_OBJFIRST", "CDECL_OBJLAST"}
        /\ Convention = "CDECL_OBJLAST" =>
             \/ Len(types) = 1
             \/ Rank(types[Len(types)], "T", TRUE) > Rank(types[1], "T", TRUE)
    BY ONLY <1>10 DEF RankedEnds
  <2>2. Len(types) # 1 BY <1>9
  <2> QED BY <2>1, <2>2, <1>9, <1>11
<1>13. Through = generic_wrapper_list_ctor(Convention, fn, EngineArgs) BY <1>4, ThroughIs
<1>14. Through = <<Obj, ArgOf(EngineArgs, 1)>>
  BY <1>5, <1>9, <1>12, <1>13 DEF generic_wrapper_list_ctor
<1>15. NativeArgs(Convention, want.family, EngineArgs) = <<Obj>> \o <<ArgOf(EngineArgs, 1)>>
  BY <1>2, <1>8, <1>12 DEF NativeArgs
<1> QED BY <1>14, <1>15, PairIsConcat

\* A factory that has an auxiliary.
FactoryShape ==
  /\ want.aux /\ ~want.comp /\ want.family \in {"factory_function", "list_factory_function"}
  /\ want.form = "fp" /\ WrapOf \in {"factory_aux", "list_factory"} /\ OrigOf = Convention
  /\ \/ Convention = "THISCALL_ASGLOBAL" /\ fn.end = "none"
     \/ Convention \in {"CDECL_OBJFIRST", "CDECL_OBJLAST"} /\ fn.end # "none"

\* A request for such a factory has that shape.
LEMMA FactoryRequest ==
  ASSUME Request, want.form \in {"fp", "lambda"}, Convention # "ill-formed", want.aux,
         want.family \in {"factory_function", "list_factory_function"}
  PROVE  FactoryShape /\ AnyAt(EngineArgs) = {}
<1>1. Fits(Convention) BY ConventionSound DEF Sound
<1>2. ~want.comp /\ want.form = "fp" BY DEF Request, Sensible
<1>3. WrapOf \in {"factory_aux", "list_factory"} /\ OrigOf = Convention
  BY <1>2 DEF WrapOf, OrigOf
<1>4. want.family \notin OfObject /\ want.family # "method" BY DEF OfObject
<1>5. \/ Convention = "THISCALL_ASGLOBAL" /\ fn.end = "none"
      \/ Convention \in {"CDECL_OBJFIRST", "CDECL_OBJLAST"} /\ fn.end # "none"
  BY <1>1, <1>2, <1>4 DEF Fits
<1>6. AnyAt(EngineArgs) = {} BY <1>4, EngineArgsAre
<1> QED BY <1>2, <1>3, <1>5, <1>6 DEF FactoryShape

\* For factories, with the type information of a template.
LEMMA FactoryRight ==
  ASSUME Request, want.form \in {"fp", "lambda"}, Convention # "ill-formed", want.aux,
         want.family = "factory_function"
  PROVE  Through = NativeArgs(Convention, want.family, EngineArgs)
<1>1. FactoryShape /\ AnyAt(EngineArgs) = {} BY FactoryRequest
<1>2. WrapOf = "factory_aux" BY <1>1 DEF WrapOf, FactoryShape
<1>3. Through = generic_wrapper_factory_aux(template, Convention, fn, EngineArgs)
  BY <1>1, <1>2, ThroughIs DEF FactoryShape
<1>4. PICK n, raw : n = Len(ArgTypes(EngineArgs)) /\ raw = Len(ParamTypes(fn, EngineArgs))
  OBVIOUS
<1>5. n \in Nat /\ (fn.end = "none" => raw = n) /\ (fn.end # "none" => raw = n + 1)
  BY <1>4, ParametersAre
<1>6. WithTypeInfo(template, EngineArgs, n) = PassedArgs(EngineArgs) BY <1>1, <1>4, Fetched
<1>7. want.family \in AsGlobal BY DEF AsGlobal
<1>8. CASE Convention = "THISCALL_ASGLOBAL"
  <2>1. raw = n BY <1>1, <1>5, <1>8 DEF FactoryShape
  <2> QED BY <1>3, <1>4, <1>6, <1>8, <2>1 DEF generic_wrapper_factory_aux, NativeArgs
<1>9. CASE Convention = "CDECL_OBJFIRST"
  <2>1. raw - 1 = n BY <1>1, <1>5, <1>9 DEF FactoryShape
  <2> QED BY <1>3, <1>4, <1>6, <1>7, <1>9, <2>1 DEF generic_wrapper_factory_aux, NativeArgs
<1>10. CASE Convention = "CDECL_OBJLAST"
  <2>1. raw - 1 = n BY <1>1, <1>5, <1>10 DEF FactoryShape
  <2> QED BY <1>3, <1>4, <1>6, <1>7, <1>10, <2>1 DEF generic_wrapper_factory_aux, NativeArgs
<1> QED BY <1>1, <1>8, <1>9, <1>10 DEF FactoryShape

\* For list factories, the type information and the list.
LEMMA ListFactoryRight ==
  ASSUME Request, want.form \in {"fp", "lambda"}, Convention # "ill-formed", want.aux,
         want.family = "list_factory_function"
  PROVE  Through = NativeArgs(Convention, want.family, EngineArgs)
<1>1. FactoryShape /\ AnyAt(EngineArgs) = {} BY FactoryRequest
<1>2. WrapOf = "list_factory" BY <1>1 DEF WrapOf, FactoryShape
<1>3. Through = list_factory_func(template, Convention, EngineArgs)
  BY <1>1, <1>2, ThroughIs DEF FactoryShape
<1>4. PICK given : given = IF template THEN <<ArgOf(EngineArgs, 1), ArgOf(EngineArgs, 2)>>
                           ELSE <<ArgOf(EngineArgs, 1)>>
  OBVIOUS
<1>5. given = PassedArgs(EngineArgs)
  <2>1. CASE ~template BY <1>4, <2>1, ListIsPassed
  <2>2. CASE template
    <3>1. args = <<"list">> BY ArgumentsAre DEF Request, IsCall
    <3>2. Len(args) = 1 BY <3>1
    <3>3. Len(EngineArgs) = 2 BY <2>2, <3>2, EngineArgsAre
    <3>4. PassedArgs(EngineArgs) = [k \in 1..2 |-> ArgOf(EngineArgs, k)]
      <4>1. PICK n : n = Len(ArgTypes(EngineArgs)) OBVIOUS
      <4>2. n = 2 /\ PassedArgs(EngineArgs) = [k \in 1..n |-> ArgOf(EngineArgs, k)]
        BY <1>1, <3>3, <4>1, Fetched
      <4> QED BY <4>2
    <3>5. PICK p : p = PassedArgs(EngineArgs) OBVIOUS
    <3>6. PICK S : S = {ArgOf(EngineArgs, 1), ArgOf(EngineArgs, 2)} OBVIOUS
    <3>7. /\ given \in Seq(S) /\ Len(given) = 2
          /\ given[1] = ArgOf(EngineArgs, 1) /\ given[2] = ArgOf(EngineArgs, 2)
      BY <1>4, <2>2, <3>6
    <3>8. \A k \in 1..2 : p[k] = given[k] BY <3>4, <3>5, <3>7
    <3>9. given = [k \in 1..2 |-> given[k]] BY <3>7
    <3>10. p = [k \in 1..2 |-> p[k]] BY <3>4, <3>5
    <3> QED BY <3>5, <3>8, <3>9, <3>10
  <2> QED BY <2>1, <2>2
<1>6. Through = IF Convention = "CDECL_OBJLAST" THEN given \o <<Aux>> ELSE <<Aux>> \o given
  BY <1>3, <1>4 DEF list_factory_func, get_generic_typeinfo
<1>7. want.family \in AsGlobal BY DEF AsGlobal
<1>8. CASE Convention = "THISCALL_ASGLOBAL" BY <1>5, <1>6, <1>8 DEF NativeArgs
<1>9. CASE Convention = "CDECL_OBJFIRST" BY <1>5, <1>6, <1>7, <1>9 DEF NativeArgs
<1>10. CASE Convention = "CDECL_OBJLAST" BY <1>5, <1>6, <1>7, <1>10 DEF NativeArgs
<1> QED BY <1>1, <1>8, <1>9, <1>10 DEF FactoryShape

\* Whatever the wrapper, it gives the function what would arrive natively.
LEMMA WrapperRight ==
  ASSUME Request, Portable, Convention # "ill-formed", ~NoOverload,
         ~MappedMethod, ~ListConstructor, ~TwoVarTypes
  PROVE  Through = NativeArgs(Convention, want.family, EngineArgs)
<1>1. CASE want.form = "wrapped" BY <1>1, WrappedRight
<1>2. CASE want.form \in {"fp", "lambda"}
  <2>1. CASE want.comp BY <1>2, <2>1, CompositeRight
  <2>2. CASE ~want.comp /\ want.family = "constructor_function"
    BY <1>2, <2>2, ConstructorRight
  <2>3. CASE ~want.comp /\ want.family = "list_constructor_function"
    <3>1. want.form = "fp" BY <1>2, <2>3 DEF Request, Sensible
    <3> QED BY <2>3, <3>1, ListConstructorRight
  <2>4. CASE ~want.comp /\ want.family = "factory_function" /\ want.aux
    BY <1>2, <2>4, FactoryRight
  <2>5. CASE ~want.comp /\ want.family = "list_factory_function"
    <3>1. want.form = "fp" BY <1>2, <2>5 DEF Request, Sensible
    <3>2. want.aux BY <2>5, <3>1 DEF NoOverload
    <3> QED BY <1>2, <2>5, <3>2, ListFactoryRight
  <2>6. CASE /\ ~want.comp /\ ~(want.family = "factory_function" /\ want.aux)
             /\ want.family \notin {"constructor_function", "list_constructor_function",
                                    "list_factory_function"}
    <3>1. WrapOf = "nontype" BY <1>2, <2>6 DEF WrapOf
    <3> QED BY <1>2, <2>6, <3>1, PlainRight
  <2> QED BY <2>1, <2>2, <2>3, <2>4, <2>5, <2>6
<1> QED BY <1>1, <1>2 DEF Portable

\* The conventions of native functions.
Natives ==
  {"CDECL", "THISCALL", "THISCALL_COMP", "THISCALL_ASGLOBAL", "CDECL_OBJFIRST",
   "CDECL_OBJLAST", "THISCALL_OBJFIRST", "THISCALL_OBJLAST"}

\* What compiles is no token of a call.
LEMMA RefusedIsNoToken ==
  ASSUME NEW n \in Nat
  PROVE  /\ Refused \notin Tokens(n)
         /\ Obj \in Tokens(n) /\ Aux \in Tokens(n) /\ Comp \in Tokens(n) /\ Unread \in Tokens(n)
         /\ \A k \in 1..n : Arg(k) \in Tokens(n)
BY DEF Refused, Tokens, Obj, Aux, Comp, Unread, Arg

\* So a sequence of tokens compiles.
LEMMA SeqHasNoRefused ==
  ASSUME NEW n \in Nat, NEW s \in Seq(Tokens(n))
  PROVE  Refused \notin ToSet(s)
<1>1. \A i \in DOMAIN s : s[i] \in Tokens(n) OBVIOUS
<1> QED BY <1>1, RefusedIsNoToken DEF ToSet

\* What arrives natively is well-typed.
LEMMA NativeTyped ==
  ASSUME Request, NEW conv \in Natives, NEW family, NEW n, n = Len(EngineArgs)
  PROVE  n \in Nat /\ NativeArgs(conv, family, EngineArgs) \in Seq(Tokens(n))
<1>1. EngineArgs \in Seq(ArgKinds) BY EngineArgsAre
<1>2. n \in Nat BY <1>1, LenProperties
<1>3. PICK T : T = Tokens(n) OBVIOUS
<1>4. PICK passed, object : /\ passed = PassedArgs(EngineArgs)
                            /\ object = IF family \in AsGlobal THEN Aux ELSE Obj
  OBVIOUS
<1>5. passed \in Seq(T) BY <1>1, <1>3, <1>4, PassedIs
<1>6. Obj \in T /\ Aux \in T /\ Comp \in T /\ object \in T
  BY <1>2, <1>3, <1>4, RefusedIsNoToken
<1>7. \A x \in T : <<x>> \in Seq(T) /\ \A y \in T : <<x, y>> \in Seq(T) OBVIOUS
<1>8. \A s, t \in Seq(T) : s \o t \in Seq(T) BY ConcatProperties
<1>9. /\ <<Obj>> \in Seq(T) /\ <<Aux>> \in Seq(T) /\ <<Comp>> \in Seq(T)
      /\ <<object>> \in Seq(T) /\ <<Aux, Obj>> \in Seq(T)
  BY <1>6, <1>7
<1>10. /\ <<Obj>> \o passed \in Seq(T) /\ <<Comp>> \o passed \in Seq(T)
       /\ <<Aux>> \o passed \in Seq(T) /\ <<object>> \o passed \in Seq(T)
       /\ passed \o <<object>> \in Seq(T) /\ <<Aux, Obj>> \o passed \in Seq(T)
       /\ <<Aux>> \o passed \o <<Obj>> \in Seq(T)
  BY <1>5, <1>8, <1>9
<1>11. NativeArgs(conv, family, EngineArgs) \in Seq(T)
  BY <1>4, <1>5, <1>10 DEF NativeArgs, Natives
<1> QED BY <1>2, <1>3, <1>11

\* The convention of what compiles is one of a native function.
LEMMA ConventionNative ==
  ASSUME Request, want.form # "gfn", Convention # "ill-formed"
  PROVE  Convention \in Natives
<1>1. CASE want.form = "wrapped" BY <1>1 DEF Convention, Natives
<1>2. CASE want.form # "wrapped"
  <2>1. Fits(Convention) BY <1>2, ConventionSound DEF Sound
  <2> QED BY <2>1 DEF Fits, Natives
<1> QED BY <1>1, <1>2

\* A part of a sequence.
LEMMA Within ==
  ASSUME NEW S, NEW s \in Seq(S), NEW t \in Seq(S), NEW x \in ToSet(s)
  PROVE  x \in ToSet(t \o s) /\ x \in ToSet(s \o t)
<1>1. PICK i \in DOMAIN s : x = s[i] BY DEF ToSet
<1>2. i \in 1..Len(s) /\ Len(s) \in Nat /\ Len(t) \in Nat BY LenProperties
<1>3. PICK u, v : u = t \o s /\ v = s \o t OBVIOUS
<1>4. /\ u \in Seq(S) /\ Len(u) = Len(t) + Len(s)
      /\ \A k \in 1..Len(t) + Len(s) : u[k] = IF k <= Len(t) THEN t[k] ELSE s[k - Len(t)]
  BY <1>3, ConcatProperties
<1>5. /\ v \in Seq(S) /\ Len(v) = Len(s) + Len(t)
      /\ \A k \in 1..Len(s) + Len(t) : v[k] = IF k <= Len(s) THEN s[k] ELSE t[k - Len(s)]
  BY <1>3, ConcatProperties
<1>6. PICK j : j = Len(t) + i OBVIOUS
<1>7. j \in 1..Len(t) + Len(s) /\ ~(j <= Len(t)) /\ j - Len(t) = i BY <1>2, <1>6
<1>8. j \in DOMAIN u /\ u[j] = x BY <1>1, <1>4, <1>7, LenProperties
<1>9. i \in DOMAIN v /\ v[i] = x BY <1>1, <1>2, <1>5, LenProperties
<1> QED BY <1>3, <1>8, <1>9 DEF ToSet

\* A wrapper for more than one `?' does not compile.
LEMMA TwoRefused ==
  ASSUME Request, Portable, TwoVarTypes
  PROVE  ~Compiles(WantedWrapper)
<1> SUFFICES ASSUME Compiles(WantedWrapper) PROVE FALSE OBVIOUS
<1>1. want.form \in {"fp", "lambda"} /\ want.family = "method"
  <2>1. want.var # {} BY FS_EmptySet DEF TwoVarTypes
  <2>2. want.form \in {"fp", "lambda"} BY <2>1 DEF Request
  <2>3. want.var = AnyAt(args) BY <2>2 DEF Request
  <2>4. want.family = "method" BY <2>1, <2>3, ArgumentsAre DEF Request, IsCall
  <2> QED BY <2>2, <2>4
<1>2. want.var = AnyAt(EngineArgs) BY <1>1, EngineArgsAre DEF Request
<1>3. EngineArgs \in Seq(ArgKinds) BY EngineArgsAre
<1>4. PICK V : V = VarTypeArgs(ArgTypes(EngineArgs), want.var, EngineArgs) OBVIOUS
<1>5. Refused \in ToSet(V)
  <2>1. \E j \in DOMAIN V : V[j] = Refused BY <1>2, <1>3, <1>4, TwoAnyRefused DEF TwoVarTypes
  <2> QED BY <2>1 DEF ToSet
<1>6. PICK S : S = ToSet(V) \cup {Obj, Aux, Comp} OBVIOUS
<1>7. V \in Seq(S)
  <2>1. PICK m : m = Len(EngineArgs) + Cardinality(AnyAt(EngineArgs)) OBVIOUS
  <2>2. m \in Nat
    <3>1. IsFiniteSet(AnyAt(EngineArgs)) BY <1>3, MarksAreAny
    <3> QED BY <1>3, <2>1, <3>1, FS_CardinalityType, LenProperties
  <2>3. V = [j \in 1..m |-> V[j]] BY <1>2, <1>3, <1>4, <2>1, VarTypeElements
  <2>4. \A j \in 1..m : V[j] \in S BY <1>6, <2>3 DEF ToSet
  <2>5. V \in [1..m -> S] BY <2>3, <2>4
  <2> QED BY <2>2, <2>5
<1>8. /\ <<Obj>> \in Seq(S) /\ <<Aux>> \in Seq(S) /\ <<Comp>> \in Seq(S)
      /\ <<Aux, Obj>> \in Seq(S) /\ <<Aux, Aux>> \in Seq(S)
  BY <1>6
<1>9. Refused \in ToSet(Through)
  <2>1. CASE want.comp
    <3>1. WrapOf = "composite" BY <1>1, <2>1 DEF WrapOf
    <3>2. want.var # {} BY FS_EmptySet DEF TwoVarTypes
    <3>3. Through = <<Comp>> \o V
      BY <1>4, <3>1, <3>2, ThroughIs DEF generic_wrapper_composite, comp_accessor
    <3> QED BY <1>5, <1>7, <1>8, <3>3, Within
  <2>2. CASE ~want.comp
    <3>1. WrapOf = "nontype" /\ OrigOf = Convention BY <1>1, <2>2 DEF WrapOf, OrigOf
    <3>2. want.var # {} BY FS_EmptySet DEF TwoVarTypes
    <3>3. PICK this : this = get_generic_this(Convention) OBVIOUS
    <3>4. Through = Arranged(Convention, this, V)
      BY <1>4, <3>1, <3>2, <3>3, ThroughIs DEF var_type_wrapper
    <3>5. this \in {Obj, Aux} BY <3>3 DEF get_generic_this
    <3>6. <<this>> \in Seq(S) /\ <<Aux, this>> \in Seq(S) BY <1>8, <3>5
    <3>7. Convention # "ill-formed" BY <3>1 DEF Compiles, WantedWrapper
    <3>8. Convention \in Natives \ {"THISCALL_COMP"}
      <4>1. Convention \in Natives BY <1>1, <3>7, ConventionNative
      <4>2. Fits(Convention) BY <1>1, <3>7, ConventionSound DEF Sound
      <4> QED BY <2>2, <4>1, <4>2 DEF Fits
    <3>9. Refused \in ToSet(<<this>> \o V) /\ Refused \in ToSet(V \o <<this>>)
          /\ Refused \in ToSet(<<Aux, this>> \o V) /\ Refused \in ToSet(<<Aux>> \o V)
      BY <1>5, <1>7, <1>8, <3>6, Within
    <3>10. Refused \in ToSet(<<Aux>> \o V \o <<this>>)
      <4>1. PICK u : u = <<Aux>> \o V OBVIOUS
      <4>2. u \in Seq(S) BY <1>7, <1>8, <4>1, ConcatProperties
      <4>3. Refused \in ToSet(u \o <<this>>) BY <3>6, <3>9, <4>1, <4>2, Within
      <4> QED BY <4>1, <4>3
    <3> QED BY <1>5, <3>4, <3>8, <3>9, <3>10 DEF Arranged, Natives
  <2> QED BY <2>1, <2>2
<1> QED BY <1>9 DEF Compiles, Through

\* A wrapper compiles when there is a convention, and at most one `?'.
LEMMA WrapperCompiles ==
  ASSUME Request, Portable, ~NoOverload, ~MappedMethod, ~ListConstructor, ~TwoVarTypes,
         Convention # "ill-formed"
  PROVE  Compiles(WantedWrapper)
<1>1. Through = NativeArgs(Convention, want.family, EngineArgs) BY WrapperRight
<1>2. Convention \in Natives BY ConventionNative DEF Portable
<1>3. PICK n : n = Len(EngineArgs) OBVIOUS
<1>4. n \in Nat /\ Through \in Seq(Tokens(n)) BY <1>1, <1>2, <1>3, NativeTyped
<1>5. Refused \notin ToSet(Through) BY <1>4, SeqHasNoRefused
<1>6. OrigOf # "ill-formed" BY DEF OrigOf
<1> QED BY <1>5, <1>6 DEF Compiles, Through, WantedWrapper

\* The convention of a wrapper that compiles.
LEMMA CompiledConvention ==
  ASSUME Request, Portable, Compiles(WantedWrapper)
  PROVE  Convention # "ill-formed"
<1>1. OrigOf # "ill-formed" BY DEF Compiles, WantedWrapper
<1>2. CASE want.form = "wrapped" BY <1>2 DEF Convention
<1>3. CASE want.comp /\ want.form # "wrapped"
  <2>1. want.form # "gfn" BY DEF Portable
  <2> QED BY <1>3, <2>1 DEF Convention, Deduction
<1>4. CASE ~want.comp /\ want.form # "wrapped"
  <2>1. want.form # "gfn" BY DEF Portable
  <2> QED BY <1>1, <1>4, <2>1 DEF OrigOf
<1> QED BY <1>2, <1>3, <1>4

\* What arrives through a wrapper that compiles is well-typed, the list
\* constructors of templates and the mapped methods included.
LEMMA WrapperTyped ==
  ASSUME Request, Portable \/ want.form = "gfn", ~NoOverload, Compiles(WantedWrapper),
         NEW n, n = Len(EngineArgs)
  PROVE  n \in Nat /\ Through \in Seq(Tokens(n))
<1>1. EngineArgs \in Seq(ArgKinds) /\ n \in Nat /\ DOMAIN EngineArgs = 1..n
  BY EngineArgsAre, LenProperties
<1>2. PICK T : T = Tokens(n) OBVIOUS
<1>3. /\ Obj \in T /\ Unread \in T /\ \A k \in 1..n : Arg(k) \in T
  BY <1>1, <1>2, RefusedIsNoToken
<1>4. \A k : ArgOf(EngineArgs, k) \in T BY <1>1, <1>3 DEF ArgOf
<1>5. CASE want.form = "gfn"
  <2>1. WrapOf = "gfn" BY <1>5 DEF WrapOf
  <2>2. Through = <<>> BY <2>1, ThroughIs
  <2> QED BY <1>1, <2>2
<1>6. CASE Portable /\ MappedMethod
  <2>1. WrapOf = "map_ret" /\ ~fn.member BY <1>6 DEF WrapOf, MappedMethod
  <2>2. PICK raw : raw = Len(ParamTypes(fn, EngineArgs)) OBVIOUS
  <2>3. raw \in Nat
    <3>1. PICK types : types = ParamTypes(fn, EngineArgs) OBVIOUS
    <3>2. types \in Seq(ParamTypeNames \cup {"A"}) BY <3>1, ParametersAre
    <3> QED BY <2>2, <3>1, <3>2, LenProperties
  <2>4. Through = get_generic_args(EngineArgs, 0, raw)
    BY <2>1, <2>2, ThroughIs DEF map_ret_wrapper_generic
  <2>5. Through = [i \in 1..raw |-> ArgOf(EngineArgs, 0 + i)]
    BY <2>4 DEF get_generic_args
  <2>6. Through \in [1..raw -> T] BY <1>4, <2>5
  <2> QED BY <1>1, <1>2, <2>3, <2>6
<1>7. CASE Portable /\ ListConstructor
  <2>1. want.form # "wrapped" /\ ~want.comp /\ want.form # "gfn"
    BY <1>7 DEF ListConstructor, Request, Sensible, Portable
  <2>2. WrapOf = "list_ctor" BY <1>7, <2>1 DEF WrapOf, ListConstructor
  <2>3. Through = generic_wrapper_list_ctor(OrigOf, fn, EngineArgs) BY <2>2, ThroughIs
  <2>4. Through \in {<<Refused>>, <<Obj, ArgOf(EngineArgs, 1)>>}
    BY <2>3 DEF generic_wrapper_list_ctor
  <2>5. Through # <<Refused>>
    <3>1. ASSUME Through = <<Refused>> PROVE FALSE
      <4>1. Refused \in ToSet(<<Refused>>) BY DEF ToSet
      <4> QED BY <3>1, <4>1 DEF Compiles, Through
    <3> QED BY <3>1
  <2>6. <<Obj, ArgOf(EngineArgs, 1)>> \in Seq(T)
    <3>1. PICK x : x = ArgOf(EngineArgs, 1) OBVIOUS
    <3>2. <<Obj, x>> \in Seq(T) BY <1>3, <1>4, <3>1
    <3> QED BY <3>1, <3>2
  <2> QED BY <1>1, <1>2, <2>4, <2>5, <2>6
<1>8. CASE Portable /\ ~MappedMethod /\ ~ListConstructor
  <2>1. ~TwoVarTypes BY <1>8, TwoRefused
  <2>2. Convention # "ill-formed" BY <1>8, CompiledConvention
  <2>3. Through = NativeArgs(Convention, want.family, EngineArgs)
    BY <1>8, <2>1, <2>2, WrapperRight
  <2>4. Convention \in Natives BY <1>8, <2>2, ConventionNative DEF Portable
  <2> QED BY <1>1, <2>3, <2>4, NativeTyped
<1> QED BY <1>5, <1>6, <1>7, <1>8

(***************************************************************************)
(* The chain of overloads of a request.                                    *)
(***************************************************************************)

\* A call of an overload on behalf of the request.
Alike(c) ==
  /\ c.family = want.family /\ c.explicit = want.explicit /\ c.aux = want.aux
  /\ c.loc = want.loc /\ c.comp = want.comp

\* A call that the chain of a build may come to.
OnTheWay(b, c) ==
  /\ Alike(c)
  /\ \/ /\ c = want
     \/ /\ c = Generic(want) /\ c.generic /\ c.form = want.form /\ c.var = want.var
        /\ Portable /\ ~NoOverload
     \/ /\ c = Pointer(want) /\ c.form = "raw" /\ ~c.generic /\ c.var = {}
        /\ want.form \in {"fp", "lambda"} /\ ~want.generic /\ ~ForceGeneric(b)
        /\ ~NoOverload
        /\ ~(want.family = "method" /\ want.aux /\ want.loc # "none")

\* What an overload of the chain does.
Outcome(b, c, os) ==
  \/ os = {} /\ (NoOverload \/ ~Portable)
  \/ c = want /\ os = CallOverload(want) /\ CallsItself /\ ~ForceGeneric(b)
  \/ /\ c = want /\ os = CallOverload(Generic(want)) /\ ~want.generic
     /\ Portable /\ ~NoOverload
  \/ /\ c = want /\ os = CallOverload(Pointer(want))
     /\ want.form \in {"fp", "lambda"} /\ ~want.generic /\ ~ForceGeneric(b) /\ ~NoOverload
     /\ ~(want.family = "method" /\ want.aux /\ want.loc # "none")
  \/ /\ c.var = want.var /\ ~NoOverload /\ (Portable \/ want.form = "gfn")
     /\ os = RegisterWrapper(c, WrapOf, OrigOf)
  \/ /\ ~NoOverload /\ want.form # "gfn"
     /\ os = RegisterNative(c, Convention)

\* The convention is the same wherever it is deduced.
LEMMA SameConvention ==
  ASSUME NEW c, Alike(c)
  PROVE  /\ method_callconv(c) = method_callconv(want)
         /\ BehaviourConv(c) = BehaviourConv(want)
         /\ \A conv : Located(c, conv) = Located(want, conv)
BY DEF Alike, method_callconv, BehaviourConv, Located

\* What the overloads have in common.
Typical(b, c, os) ==
  /\ c.form = "gfn" => os = RegisterGeneric(c)
  /\ c.form = "raw" =>
       \/ os = RegisterNative(c, Convention)
       \/ os = {} /\ (c.generic \/ ForceGeneric(b)
                      \/ (c.family = "method" /\ c.aux /\ c.loc # "none"))
  /\ c.form \in {"fp", "lambda", "wrapped"} =>
       \/ NoOverload /\ os = {}
       \/ ~NoOverload /\ os = RegisterWrapper(c, WrapOf, OrigOf)
       \/ ~NoOverload /\ ~c.generic /\ os = RegisterNative(c, Convention)
       \/ ~NoOverload /\ ~c.generic /\ os = CallOverload(Generic(c))
       \/ /\ c.family = "constructor_function" /\ c.form = "fp" /\ ~c.generic
          /\ c.explicit /\ c.loc = "none" /\ ~ForceGeneric(b) /\ os = CallOverload(c)
       \/ /\ ~NoOverload /\ ~c.generic /\ c.form \in {"fp", "lambda"}
          /\ ForceGeneric(b) \/ ~(c.family = "method" /\ c.aux /\ c.loc # "none")
          /\ os = UsualChoice(b, c)

\* An overload that does what overloads have in common has an outcome for the
\* request.
LEMMA TypicalOutcome ==
  ASSUME Request, NEW b, NEW c, OnTheWay(b, c), NEW os, Typical(b, c, os)
  PROVE  Outcome(b, c, os)
<1>1. want.form \in Forms BY DEF Request, IsCall
<1>2. CASE c = want
  <2>1. CASE c.form = "gfn"
    <3>1. ~NoOverload /\ ~Portable BY <1>2, <2>1 DEF NoOverload, Portable
    <3>2. WrapOf = "gfn" /\ OrigOf = "generic" BY <1>2, <2>1 DEF WrapOf, OrigOf
    <3>3. os = {} \/ os = RegisterWrapper(c, "gfn", "generic")
      BY <2>1 DEF Typical, RegisterGeneric
    <3> QED BY <1>2, <2>1, <3>1, <3>2, <3>3 DEF Outcome
  <2>2. CASE c.form = "raw"
    <3>1. ~NoOverload /\ ~Portable BY <1>2, <2>2 DEF NoOverload, Portable
    <3>2. os = {} \/ os = RegisterNative(c, Convention) BY <2>2 DEF Typical
    <3> QED BY <1>2, <2>2, <3>1, <3>2 DEF Outcome
  <2>3. CASE c.form \in {"fp", "lambda", "wrapped"}
    <3>1. Portable BY <1>2, <2>3 DEF Portable
    <3>2. CASE NoOverload /\ os = {} BY <3>2 DEF Outcome
    <3>3. CASE ~NoOverload /\ os = RegisterWrapper(c, WrapOf, OrigOf)
      BY <1>2, <3>1, <3>3 DEF Outcome
    <3>4. CASE ~NoOverload /\ os = RegisterNative(c, Convention)
      BY <1>2, <2>3, <3>4 DEF Outcome
    <3>5. CASE ~NoOverload /\ ~c.generic /\ os = CallOverload(Generic(c))
      BY <1>2, <3>1, <3>5 DEF Outcome
    <3>7. CASE /\ c.family = "constructor_function" /\ c.form = "fp" /\ ~c.generic
               /\ c.explicit /\ c.loc = "none" /\ ~ForceGeneric(b) /\ os = CallOverload(c)
      BY <1>2, <3>7 DEF Outcome, CallsItself
    <3>6. CASE /\ ~NoOverload /\ ~c.generic /\ c.form \in {"fp", "lambda"}
               /\ ForceGeneric(b) \/ ~(c.family = "method" /\ c.aux /\ c.loc # "none")
               /\ os = UsualChoice(b, c)
      <4>1. CASE ForceGeneric(b)
        <5>1. os = CallOverload(Generic(want)) BY <1>2, <3>6, <4>1 DEF UsualChoice
        <5> QED BY <1>2, <3>1, <3>6, <5>1 DEF Outcome
      <4>2. CASE ~ForceGeneric(b)
        <5>1. os = CallOverload(Pointer(want)) BY <1>2, <3>6, <4>2 DEF UsualChoice
        <5> QED BY <1>2, <3>6, <4>2, <5>1 DEF Outcome
      <4> QED BY <4>1, <4>2
    <3> QED BY <2>3, <3>2, <3>3, <3>4, <3>5, <3>6, <3>7 DEF Typical
  <2> QED BY <1>1, <1>2, <2>1, <2>2, <2>3 DEF Forms
<1>3. CASE /\ c = Generic(want) /\ c.generic /\ c.form = want.form /\ c.var = want.var
           /\ Portable /\ ~NoOverload
  <2>1. c.form \in {"fp", "lambda", "wrapped"} BY <1>3 DEF Portable
  <2>2. os = RegisterWrapper(c, WrapOf, OrigOf) BY <1>3, <2>1 DEF Typical
  <2> QED BY <1>3, <2>2 DEF Outcome
<1>4. CASE /\ c.form = "raw" /\ ~c.generic /\ want.form \in {"fp", "lambda"}
           /\ ~ForceGeneric(b) /\ ~NoOverload
           /\ ~(want.family = "method" /\ want.aux /\ want.loc # "none")
  <2>1. ~(c.family = "method" /\ c.aux /\ c.loc # "none") BY <1>4 DEF OnTheWay, Alike
  <2>2. os = RegisterNative(c, Convention) BY <1>4, <2>1 DEF Typical
  <2> QED BY <1>4, <2>2 DEF Outcome
<1> QED BY <1>2, <1>3, <1>4 DEF OnTheWay

\* What a call on the way has of the request.
LEMMA WayIs ==
  ASSUME Request, NEW b, NEW c, OnTheWay(b, c)
  PROVE  /\ Alike(c) /\ c.form \in Forms /\ c.generic \in BOOLEAN
         /\ c.form # "raw" => c.form = want.form /\ c.var = want.var
         /\ c.form = "raw" => want.form \in {"raw", "fp", "lambda"} /\ c.var = {}
         /\ want.form = "wrapped" => c.form = "wrapped"
<1>1. want.form \in Forms /\ want.generic \in BOOLEAN BY DEF Request, IsCall
<1>2. want.form = "raw" => want.var = {} BY DEF Request
<1>3. CASE c = want BY <1>1, <1>2, <1>3 DEF OnTheWay
<1>4. CASE /\ c = Generic(want) /\ c.generic /\ c.form = want.form /\ c.var = want.var
           /\ Portable /\ ~NoOverload
  <2>1. Generic(want).generic = TRUE
    <3>1. want = Call8(want.family, want.generic, want.form, want.explicit, want.aux,
                       want.loc, want.comp, want.var)
      BY DEF Request, IsCall
    <3>2. PICK t : t = TRUE OBVIOUS
    <3>3. [want EXCEPT !.generic = t].generic = t BY <3>1 DEF Call8
    <3> QED BY <3>2, <3>3 DEF Generic
  <2>2. c.generic \in BOOLEAN BY <1>4, <2>1
  <2> QED BY <1>1, <1>4, <2>2 DEF OnTheWay, Portable
<1>5. CASE /\ c = Pointer(want) /\ c.form = "raw" /\ ~c.generic /\ c.var = {}
           /\ want.form \in {"fp", "lambda"}
  <2>1. c.generic \in BOOLEAN
    <3>1. want = Call8(want.family, want.generic, want.form, want.explicit, want.aux,
                       want.loc, want.comp, want.var)
      BY DEF Request, IsCall
    <3>2. [want EXCEPT !.form = "raw"] = Call8(want.family, want.generic, "raw", want.explicit,
                                      want.aux, want.loc, want.comp, want.var)
      BY <3>1 DEF Call8
    <3>3. Pointer(want) = [[want EXCEPT !.form = "raw"] EXCEPT !.var = {}] BY DEF Pointer
    <3>4. Pointer(want).generic = want.generic BY <3>2, <3>3 DEF Call8
    <3> QED BY <1>1, <1>5, <3>4
  <2> QED BY <1>5, <2>1 DEF OnTheWay, Forms
<1> QED BY <1>3, <1>4, <1>5 DEF OnTheWay

\* The convention of a behaviour that is given with a function or a pointer.
LEMMA BehaviourConvention ==
  ASSUME Request, NEW c, Alike(c), want.family \notin {"method", "function"},
         want.form \notin {"gfn", "wrapped"}
  PROVE  /\ Convention = Located(c, BehaviourConv(c)) /\ OrigOf = Convention
         /\ want.loc = "none" => Convention = BehaviourConv(c)
<1>1. ~want.comp BY DEF Request, Sensible
<1>2. Convention = Located(want, BehaviourConv(want)) BY <1>1 DEF Convention, Deduction
<1>3. OrigOf = Convention BY <1>1 DEF OrigOf
<1>4. Convention = Located(c, BehaviourConv(c)) BY <1>2, SameConvention
<1>5. want.loc = "none" => Located(want, BehaviourConv(want)) = BehaviourConv(want)
  BY DEF Located
<1> QED BY <1>2, <1>3, <1>4, <1>5, SameConvention

\* Behaviours, callbacks of templates and destructors.
LEMMA BehaviourTypical ==
  ASSUME Request, NEW b, NEW c, OnTheWay(b, c)
  PROVE  /\ want.family = "behaviour" => Typical(b, c, behaviour(b, c))
         /\ want.family = "template_callback" => Typical(b, c, template_callback(b, c))
         /\ want.family = "destructor_function" => Typical(b, c, destructor_function(b, c))
         /\ want.family = "list_constructor_function" =>
              Typical(b, c, list_constructor_function(b, c))
<1> SUFFICES ASSUME want.family \in {"behaviour", "template_callback", "destructor_function",
                                     "list_constructor_function"}
             PROVE  /\ want.family = "behaviour" => Typical(b, c, behaviour(b, c))
                    /\ want.family = "template_callback" => Typical(b, c, template_callback(b, c))
                    /\ want.family = "destructor_function" =>
                         Typical(b, c, destructor_function(b, c))
                    /\ want.family = "list_constructor_function" =>
                         Typical(b, c, list_constructor_function(b, c))
  OBVIOUS
<1>1. /\ Alike(c) /\ c.form \in Forms /\ c.generic \in BOOLEAN
      /\ c.form # "raw" => c.form = want.form /\ c.var = want.var
      /\ c.form = "raw" => want.form \in {"raw", "fp", "lambda"} /\ c.var = {}
  BY WayIs
<1>2. /\ want.loc = "none" /\ want.form # "wrapped" /\ ~want.comp
      /\ want.form = "lambda" => want.family = "destructor_function"
  BY DEF Request, Sensible
<1>3. ~NoOverload BY <1>2 DEF NoOverload
<1>4. want.form # "gfn" => Convention = BehaviourConv(c) /\ OrigOf = Convention
  BY <1>1, <1>2, BehaviourConvention
<1>5. c.form \in {"fp", "lambda"} =>
        WrapOf = IF want.family = "list_constructor_function" THEN "list_ctor" ELSE "nontype"
  BY <1>1, <1>2 DEF WrapOf
<1>6. c.family = want.family /\ c.aux = want.aux BY <1>1 DEF Alike
<1>a. c.form \in {"raw", "fp", "lambda", "gfn"} BY <1>1, <1>2 DEF Forms
<1>b. c.form = "raw" => want.form # "gfn" BY <1>1
<1>7. CASE want.family = "behaviour"
  <2>1. c.form # "lambda" BY <1>1, <1>2, <1>7
  <2> QED BY <1>1, <1>3, <1>4, <1>5, <1>6, <1>7, <1>a, <1>b, <2>1 DEF Typical, behaviour
<1>8. CASE want.family = "template_callback"
  <2>1. c.form # "lambda" BY <1>1, <1>2, <1>8
  <2>2. template /\ (c.aux => fn.member)
    <3>1. HasShape(fn, want.family, want.aux) BY ParametersAre
    <3>2. template BY <1>8 DEF Request
    <3>3. c.aux => fn.member BY <1>6, <1>8, <3>1 DEF HasShape, AsGlobal
    <3> QED BY <3>2, <3>3
  <2> QED BY <1>1, <1>3, <1>4, <1>5, <1>6, <1>8, <1>a, <1>b, <2>1, <2>2
        DEF Typical, template_callback
<1>9. CASE want.family = "destructor_function"
  BY <1>1, <1>3, <1>4, <1>5, <1>6, <1>9, <1>a, <1>b DEF Typical, destructor_function
<1>10. CASE want.family = "list_constructor_function"
  <2>1. c.form # "lambda" BY <1>1, <1>2, <1>10
  <2> QED BY <1>1, <1>3, <1>4, <1>5, <1>6, <1>10, <1>a, <1>b, <2>1
        DEF Typical, list_constructor_function
<1> QED BY <1>7, <1>8, <1>9, <1>10

\* Constructors.
LEMMA ConstructorTypical ==
  ASSUME Request, NEW b, NEW c, OnTheWay(b, c), want.family = "constructor_function"
  PROVE  Typical(b, c, constructor_function(b, c))
<1>1. /\ Alike(c) /\ c.form \in Forms /\ c.generic \in BOOLEAN
      /\ c.form # "raw" => c.form = want.form /\ c.var = want.var
      /\ c.form = "raw" => want.form \in {"raw", "fp", "lambda"} /\ c.var = {}
  BY WayIs
<1>2. ~want.comp /\ ~NoOverload /\ c.family # "method"
  BY <1>1 DEF Request, Sensible, NoOverload, Alike
<1>3. CASE c.form = "gfn"
  BY <1>1, <1>3 DEF Typical, constructor_function, ConstructorPointer
<1>4. CASE c.form = "raw"
  <2>1. Convention = Located(c, BehaviourConv(c)) BY <1>1, <1>4, BehaviourConvention
  <2> QED BY <1>1, <1>4, <2>1 DEF Typical, constructor_function, ConstructorPointer
<1>5. CASE c.form = "wrapped"
  <2>1. WrapOf = "ctor_fn" /\ OrigOf = "generic" /\ Convention = "CDECL_OBJFIRST"
    BY <1>1, <1>5 DEF WrapOf, OrigOf, Convention
  <2>2. constructor_function(b, c) = ConstructorWrapped(b, c)
    BY <1>5 DEF constructor_function
  <2> QED BY <1>1, <1>2, <1>5, <2>1, <2>2 DEF Typical, ConstructorWrapped
<1>6. CASE c.form \in {"fp", "lambda"}
  <2>1. want.form = c.form BY <1>1, <1>6
  <2>2. Convention = Located(c, BehaviourConv(c)) /\ OrigOf = Convention
    BY <1>1, <1>6, <2>1, BehaviourConvention
  <2>3. WrapOf = IF c.form = "fp" THEN "ctor_func" ELSE "ctor_lambda"
    BY <1>2, <1>6, <2>1 DEF WrapOf
  <2>4. CASE c.generic
    <3>1. constructor_function(b, c) = ConstructorGeneric(b, c)
      BY <1>6, <2>4 DEF constructor_function
    <3> QED BY <1>2, <1>6, <2>2, <2>3, <3>1 DEF Typical, ConstructorGeneric
  <2>5. CASE ~c.generic /\ c.form = "fp" /\ c.explicit /\ c.loc = "none"
    <3>1. constructor_function(b, c) = ConstructorExplicit(b, c)
      BY <2>5 DEF constructor_function
    <3>2. CASE ForceGeneric(b)
      <4>1. ConstructorExplicit(b, c) = CallOverload(Generic(c))
        BY <3>2 DEF ConstructorExplicit
      <4> QED BY <1>2, <2>5, <3>1, <4>1 DEF Typical
    <3>3. CASE ~ForceGeneric(b)
      <4>1. ConstructorExplicit(b, c) = CallOverload(c) BY <3>3 DEF ConstructorExplicit
      <4>2. c.family = "constructor_function" BY <1>1 DEF Alike
      <4> QED BY <2>5, <3>1, <3>3, <4>1, <4>2 DEF Typical
    <3> QED BY <3>2, <3>3
  <2>6. CASE ~c.generic /\ ~(c.form = "fp" /\ c.explicit /\ c.loc = "none")
    <3>1. constructor_function(b, c) = UsualChoice(b, c)
      BY <1>6, <2>6 DEF constructor_function
    <3> QED BY <1>2, <1>6, <2>6, <3>1 DEF Typical
  <2> QED BY <2>4, <2>5, <2>6
<1> QED BY <1>1, <1>3, <1>4, <1>5, <1>6 DEF Forms

\* Factories.
LEMMA FactoryTypical ==
  ASSUME Request, NEW b, NEW c, OnTheWay(b, c)
  PROVE  /\ want.family = "factory_function" => Typical(b, c, factory_function(b, c))
         /\ want.family = "list_factory_function" => Typical(b, c, list_factory_function(b, c))
<1> SUFFICES ASSUME want.family \in {"factory_function", "list_factory_function"}
             PROVE  /\ want.family = "factory_function" => Typical(b, c, factory_function(b, c))
                    /\ want.family = "list_factory_function" =>
                         Typical(b, c, list_factory_function(b, c))
  OBVIOUS
<1>1. /\ Alike(c) /\ c.form \in Forms /\ c.generic \in BOOLEAN
      /\ c.form # "raw" => c.form = want.form /\ c.var = want.var
      /\ c.form = "raw" => want.form \in {"raw", "fp", "lambda"} /\ c.var = {}
  BY WayIs
<1>2. want.form \notin {"wrapped", "lambda"} /\ ~want.comp BY DEF Request, Sensible
<1>3. want.form # "gfn" => Convention = Located(c, BehaviourConv(c)) /\ OrigOf = Convention
  BY <1>1, <1>2, BehaviourConvention
<1>4. c.family = want.family /\ c.aux = want.aux BY <1>1 DEF Alike
<1>5. c.form \in {"raw", "fp", "gfn"} BY <1>1, <1>2 DEF Forms
<1>6. c.form = "raw" => want.form # "gfn" BY <1>1
<1>7. CASE want.family = "factory_function"
  <2>1. ~NoOverload BY <1>7 DEF NoOverload
  <2>2. fn.member => c.aux
    <3>1. HasShape(fn, want.family, want.aux) BY ParametersAre
    <3> QED BY <1>4, <1>7, <3>1 DEF HasShape, OfObject
  <2>3. c.form = "fp" => WrapOf = IF c.aux THEN "factory_aux" ELSE "nontype"
    BY <1>1, <1>2, <1>4, <1>7 DEF WrapOf
  <2> QED BY <1>1, <1>3, <1>4, <1>5, <1>6, <1>7, <2>1, <2>2, <2>3
        DEF Typical, factory_function, FactoryPointer, FactoryGeneric
<1>8. CASE want.family = "list_factory_function"
  <2>1. c.form = "fp" => (NoOverload <=> ~c.aux) BY <1>1, <1>4, <1>8 DEF NoOverload
  <2>2. c.form = "fp" => WrapOf = "list_factory"
    BY <1>1, <1>2, <1>4, <1>8 DEF WrapOf
  <2> QED BY <1>1, <1>3, <1>4, <1>5, <1>6, <1>8, <2>1, <2>2
        DEF Typical, list_factory_function
<1> QED BY <1>7, <1>8

\* Global functions.
LEMMA FunctionTypical ==
  ASSUME Request, NEW b, NEW c, OnTheWay(b, c), want.family = "function"
  PROVE  Typical(b, c, function(b, c))
<1>1. /\ Alike(c) /\ c.form \in Forms /\ c.generic \in BOOLEAN
      /\ c.form # "raw" => c.form = want.form /\ c.var = want.var
      /\ c.form = "raw" => want.form \in {"raw", "fp", "lambda"} /\ c.var = {}
  BY WayIs
<1>2. ~want.comp /\ ~NoOverload BY DEF Request, Sensible, NoOverload
<1>3. PICK conv : conv = IF c.aux THEN "THISCALL_ASGLOBAL" ELSE deduce_function_callconv(fn)
  OBVIOUS
<1>4. c.family = want.family /\ c.aux = want.aux BY <1>1 DEF Alike
<1>5. want.form \notin {"gfn", "wrapped"} => Convention = conv /\ OrigOf = conv
  BY <1>2, <1>3, <1>4 DEF Convention, Deduction, OrigOf
<1>6. c.form \in {"fp", "lambda"} => WrapOf = "nontype"
  BY <1>1, <1>2 DEF WrapOf
<1>7. c.form = "wrapped" => WrapOf = "map_ret" /\ OrigOf = "generic" /\ Convention = "CDECL"
  BY <1>1 DEF WrapOf, OrigOf, Convention
<1>8. CASE c.form = "gfn" BY <1>8 DEF Typical, function
<1>9. CASE c.form = "raw"
  <2>1. Convention = conv BY <1>1, <1>5, <1>9
  <2>2. function(b, c) = IF ~c.generic /\ ~ForceGeneric(b) THEN RegisterNative(c, conv) ELSE {}
    BY <1>1, <1>3, <1>9 DEF function
  <2> QED BY <1>9, <2>1, <2>2 DEF Typical
<1>10. CASE c.form = "wrapped"
  BY <1>1, <1>2, <1>7, <1>10 DEF Typical, function
<1>11. CASE c.form \in {"fp", "lambda"}
  <2>1. WrapOf = "nontype" /\ OrigOf = conv BY <1>1, <1>5, <1>6, <1>11
  <2>2. function(b, c) = IF c.generic THEN RegisterWrapper(c, "nontype", conv)
                         ELSE UsualChoice(b, c)
    BY <1>1, <1>3, <1>11 DEF function
  <2> QED BY <1>1, <1>2, <1>4, <1>11, <2>1, <2>2 DEF Typical
<1> QED BY <1>1, <1>8, <1>9, <1>10, <1>11 DEF Forms

\* Methods.
LEMMA MethodTypical ==
  ASSUME Request, NEW b, NEW c, OnTheWay(b, c), want.family = "method"
  PROVE  Typical(b, c, method(b, c))
<1>1. /\ Alike(c) /\ c.form \in Forms /\ c.generic \in BOOLEAN
      /\ c.form # "raw" => c.form = want.form /\ c.var = want.var
      /\ c.form = "raw" => want.form \in {"raw", "fp", "lambda"} /\ c.var = {}
  BY WayIs
<1>2. /\ c.family = "method" /\ c.aux = want.aux /\ c.loc = want.loc /\ c.comp = want.comp
  BY <1>1 DEF Alike
<1>3. want.comp \in BOOLEAN BY DEF Request, IsCall
<1>4. PICK conv : conv = method_callconv(c) OBVIOUS
<1>5. want.form \notin {"gfn", "wrapped"} /\ ~want.comp =>
        /\ Convention = Located(c, conv) /\ OrigOf = Convention
        /\ (want.loc = "none" => Convention = conv)
  <2> SUFFICES ASSUME want.form \notin {"gfn", "wrapped"}, ~want.comp
               PROVE  /\ Convention = Located(c, conv) /\ OrigOf = Convention
                      /\ (want.loc = "none" => Convention = conv)
    OBVIOUS
  <2>1. Convention = Located(want, method_callconv(want)) BY DEF Convention, Deduction
  <2>2. Convention = Located(want, conv) BY <1>1, <1>4, <2>1, SameConvention
  <2>3. Located(c, conv) = Located(want, conv) BY <1>1, SameConvention
  <2>4. want.loc = "none" => Located(want, conv) = conv BY DEF Located
  <2>5. OrigOf = Convention BY DEF OrigOf
  <2> QED BY <2>2, <2>3, <2>4, <2>5
<1>6. want.form \in {"fp", "lambda"} /\ ~want.comp => WrapOf = "nontype" BY DEF WrapOf
<1>7. CASE c.form = "gfn"
  <2>1. method(b, c) = RegisterGeneric(c)
    <3>1. ~c.comp /\ c.var = {} BY <1>1, <1>2, <1>7 DEF Request, Sensible
    <3> QED BY <1>7, <3>1 DEF method
  <2> QED BY <1>7, <2>1 DEF Typical
<1>8. CASE c.form = "wrapped"
  <2>1. ~c.comp /\ c.var = {} /\ ~NoOverload
    BY <1>1, <1>2, <1>8 DEF Request, Sensible, NoOverload
  <2>2. method(b, c) = MethodWrapped(b, c) BY <1>8, <2>1 DEF method
  <2>3. WrapOf = "map_ret" /\ OrigOf = "generic" /\ Convention = "CDECL_OBJFIRST"
    BY <1>1, <1>8 DEF WrapOf, OrigOf, Convention
  <2> QED BY <1>1, <1>8, <2>1, <2>2, <2>3 DEF Typical, MethodWrapped
<1>9. CASE c.comp
  <2>1. /\ want.form \in {"fp", "raw"} /\ Convention = "THISCALL_COMP" /\ ~NoOverload
        /\ WrapOf = "composite" /\ OrigOf = "THISCALL" /\ ~want.aux
    BY <1>2, <1>9 DEF Request, Sensible, Convention, Deduction, WrapOf, OrigOf, NoOverload
  <2>2. c.form \in {"fp", "raw"} BY <1>1, <2>1
  <2>3. method(b, c) = MethodComposite(b, c) BY <1>9, <2>2 DEF method
  <2>4. CASE c.form = "raw"
    BY <1>1, <2>1, <2>3, <2>4 DEF Typical, MethodComposite
  <2>5. CASE c.form = "fp" /\ c.generic
    BY <1>1, <2>1, <2>3, <2>5 DEF Typical, MethodComposite
  <2>6. CASE c.form = "fp" /\ ~c.generic
    <3>1. method(b, c) = UsualChoice(b, c) BY <2>3, <2>6 DEF MethodComposite
    <3> QED BY <1>2, <2>1, <2>6, <3>1 DEF Typical
  <2> QED BY <1>1, <2>2, <2>4, <2>5, <2>6
<1>10. CASE c.form = "raw" /\ ~c.comp
  <2>1. method(b, c) = MethodPointer(b, c) BY <1>1, <1>10 DEF method
  <2>2. Convention = Located(c, conv) BY <1>1, <1>2, <1>5, <1>10
  <2> QED BY <1>2, <1>4, <1>10, <2>1, <2>2 DEF Typical, MethodPointer
<1>11. CASE c.form \in {"fp", "lambda"} /\ ~c.comp /\ c.var # {}
  <2>1. want.form = c.form /\ want.var = c.var BY <1>1, <1>11
  <2>2. want.loc = "none" /\ ~NoOverload
    BY <1>2, <1>11, <2>1 DEF Request, Sensible, NoOverload
  <2>3. Convention = conv /\ OrigOf = conv /\ WrapOf = "nontype"
    BY <1>2, <1>5, <1>6, <1>11, <2>1, <2>2
  <2>4. method(b, c) = MethodVarType(b, c) BY <1>11 DEF method
  <2>5. CASE c.generic \/ (c.aux /\ ~ForceGeneric(b))
    <3>1. method(b, c) = RegisterWrapper(c, "nontype", conv)
      BY <1>4, <2>4, <2>5 DEF MethodVarType
    <3> QED BY <1>11, <2>2, <2>3, <3>1 DEF Typical
  <2>6. CASE ~c.generic /\ ForceGeneric(b)
    <3>1. method(b, c) = CallOverload(Generic(c)) BY <2>4, <2>6 DEF MethodVarType
    <3> QED BY <1>11, <2>2, <2>6, <3>1 DEF Typical
  <2>7. CASE ~c.generic /\ ~c.aux /\ ~ForceGeneric(b) /\ c.form = "fp"
    <3>1. method(b, c) = CallOverload(Pointer(c)) BY <2>4, <2>7 DEF MethodVarType
    <3>2. method(b, c) = UsualChoice(b, c) BY <2>7, <3>1 DEF UsualChoice
    <3> QED BY <2>2, <2>7, <3>2 DEF Typical
  <2>8. CASE ~c.generic /\ ~c.aux /\ ~ForceGeneric(b) /\ c.form = "lambda"
    <3>1. method(b, c) = RegisterNative(c, conv) BY <1>4, <2>4, <2>8 DEF MethodVarType
    <3> QED BY <2>2, <2>3, <2>8, <3>1 DEF Typical
  <2> QED BY <1>11, <2>5, <2>6, <2>7, <2>8
<1>12. CASE c.form = "fp" /\ ~c.comp /\ c.var = {}
  <2>1. want.form = c.form /\ want.var = c.var BY <1>1, <1>12
  <2>2. Convention = Located(c, conv) /\ OrigOf = Convention /\ WrapOf = "nontype"
    BY <1>2, <1>5, <1>6, <1>12, <2>1
  <2>3. NoOverload <=> c.loc # "none" /\ ~c.aux BY <1>2, <1>12, <2>1 DEF NoOverload
  <2>4. method(b, c) = MethodFp(b, c) BY <1>12 DEF method
  <2>5. CASE c.loc # "none" /\ ~c.aux
    <3>1. MethodFp(b, c) = {} BY <2>5 DEF MethodFp
    <3> QED BY <1>12, <2>3, <2>4, <2>5, <3>1 DEF Typical
  <2>6. CASE c.generic /\ (c.loc = "none" \/ c.aux)
    <3>1. MethodFp(b, c) = RegisterWrapper(c, "nontype", Located(c, conv))
      BY <1>4, <2>6 DEF MethodFp
    <3>2. ~NoOverload BY <2>3, <2>6
    <3> QED BY <1>12, <2>2, <2>4, <3>1, <3>2 DEF Typical
  <2>7. CASE ~c.generic /\ c.loc # "none" /\ c.aux /\ ~ForceGeneric(b)
    <3>1. MethodFp(b, c) = RegisterNative(c, conv_of_loc(c.loc, TRUE))
      BY <2>7 DEF MethodFp
    <3>2. Located(c, conv) = conv_of_loc(c.loc, TRUE)
      <4>1. c.family = "method" /\ c.aux BY <1>2, <2>7
      <4>2. Located(c, conv) = conv_of_loc(c.loc, c.family = "method" /\ c.aux)
        BY <2>7 DEF Located
      <4>3. Located(c, conv)
              = IF c.loc = "first" THEN "THISCALL_OBJFIRST" ELSE "THISCALL_OBJLAST"
        BY <4>1, <4>2 DEF conv_of_loc
      <4> QED BY <4>3 DEF conv_of_loc
    <3>3. ~NoOverload BY <2>3, <2>7
    <3> QED BY <1>12, <2>2, <2>4, <2>7, <3>1, <3>2, <3>3 DEF Typical
  <2>8. CASE /\ ~c.generic /\ ~(c.loc # "none" /\ ~c.aux)
             /\ ~(c.loc # "none" /\ c.aux /\ ~ForceGeneric(b))
    <3>1. MethodFp(b, c) = UsualChoice(b, c) BY <2>8 DEF MethodFp
    <3>2. ~NoOverload BY <2>3, <2>8
    <3> QED BY <1>12, <2>4, <2>8, <3>1, <3>2 DEF Typical
  <2> QED BY <1>1, <2>5, <2>6, <2>7, <2>8
<1>13. CASE c.form = "lambda" /\ ~c.comp /\ c.var = {}
  <2>1. want.form = c.form /\ want.var = c.var /\ ~NoOverload BY <1>1, <1>13 DEF NoOverload
  <2>2. Convention = Located(c, conv) /\ OrigOf = Convention /\ WrapOf = "nontype"
    BY <1>2, <1>5, <1>6, <1>13, <2>1
  <2>3. method(b, c) = MethodLambda(b, c) BY <1>13 DEF method
  <2>4. ~c.aux BY <1>2, <1>13, <2>1 DEF Request, Sensible
  <2>5. CASE c.generic
    <3>1. MethodLambda(b, c) = RegisterWrapper(c, "nontype", Located(c, conv))
      BY <1>4, <2>5 DEF MethodLambda
    <3> QED BY <1>13, <2>1, <2>2, <2>3, <3>1 DEF Typical
  <2>6. CASE ~c.generic /\ ForceGeneric(b)
    <3>1. MethodLambda(b, c) = CallOverload(Generic(c)) BY <2>6 DEF MethodLambda
    <3> QED BY <1>13, <2>1, <2>3, <2>6, <3>1 DEF Typical
  <2>7. CASE ~c.generic /\ ~ForceGeneric(b) /\ c.loc = "none"
    <3>1. MethodLambda(b, c) = RegisterNative(c, conv) BY <1>4, <2>7 DEF MethodLambda
    <3>2. Convention = conv BY <1>2, <1>5, <1>13, <2>1, <2>7
    <3> QED BY <1>13, <2>1, <2>3, <2>7, <3>1, <3>2 DEF Typical
  <2>8. CASE ~c.generic /\ ~ForceGeneric(b) /\ c.loc # "none"
    <3>1. MethodLambda(b, c) = RegisterWrapper(c, "nontype", conv_of_loc(c.loc, FALSE))
      BY <2>8 DEF MethodLambda
    <3>2. Located(c, conv) = conv_of_loc(c.loc, FALSE)
      <4>1. Located(c, conv) = conv_of_loc(c.loc, c.family = "method" /\ c.aux)
        BY <2>8 DEF Located
      <4> QED BY <2>4, <4>1 DEF conv_of_loc
    <3> QED BY <1>13, <2>1, <2>2, <2>3, <3>1, <3>2 DEF Typical
  <2> QED BY <1>1, <2>5, <2>6, <2>7, <2>8
<1> QED BY <1>1, <1>2, <1>3, <1>7, <1>8, <1>9, <1>10, <1>11, <1>12, <1>13 DEF Forms

\* Every overload of the chain has an outcome for the request.
LEMMA OutcomesAre ==
  ASSUME Request, NEW b, NEW c, OnTheWay(b, c)
  PROVE  Outcome(b, c, Overload(b, c))
<1>1. want.family \in Families /\ c.family = want.family
  BY DEF Request, IsCall, OnTheWay, Alike
<1>2. Typical(b, c, Overload(b, c))
  <2>1. CASE want.family = "method"
    <3>1. Overload(b, c) = method(b, c) BY <1>1, <2>1 DEF Overload
    <3> QED BY <2>1, <3>1, MethodTypical
  <2>2. CASE want.family = "behaviour"
    <3>1. Overload(b, c) = behaviour(b, c) BY <1>1, <2>2 DEF Overload
    <3> QED BY <2>2, <3>1, BehaviourTypical
  <2>3. CASE want.family = "template_callback"
    <3>1. Overload(b, c) = template_callback(b, c) BY <1>1, <2>3 DEF Overload
    <3> QED BY <2>3, <3>1, BehaviourTypical
  <2>4. CASE want.family = "constructor_function"
    <3>1. Overload(b, c) = constructor_function(b, c) BY <1>1, <2>4 DEF Overload
    <3> QED BY <2>4, <3>1, ConstructorTypical
  <2>5. CASE want.family = "destructor_function"
    <3>1. Overload(b, c) = destructor_function(b, c) BY <1>1, <2>5 DEF Overload
    <3> QED BY <2>5, <3>1, BehaviourTypical
  <2>6. CASE want.family = "list_constructor_function"
    <3>1. Overload(b, c) = list_constructor_function(b, c) BY <1>1, <2>6 DEF Overload
    <3> QED BY <2>6, <3>1, BehaviourTypical
  <2>7. CASE want.family = "factory_function"
    <3>1. Overload(b, c) = factory_function(b, c) BY <1>1, <2>7 DEF Overload
    <3> QED BY <2>7, <3>1, FactoryTypical
  <2>8. CASE want.family = "list_factory_function"
    <3>1. Overload(b, c) = list_factory_function(b, c) BY <1>1, <2>8 DEF Overload
    <3> QED BY <2>8, <3>1, FactoryTypical
  <2>9. CASE want.family = "function"
    <3>1. Overload(b, c) = function(b, c) BY <1>1, <2>9 DEF Overload
    <3> QED BY <2>9, <3>1, FunctionTypical
  <2> QED BY <1>1, <2>1, <2>2, <2>3, <2>4, <2>5, <2>6, <2>7, <2>8, <2>9 DEF Families
<1> QED BY <1>2, TypicalOutcome

(***************************************************************************)
(* What each build does with the request.                                  *)
(***************************************************************************)

\* Does the wrapper of the request compile?
WrapperBuilds == Compiles(WantedWrapper)

\* What the function receives natively.
NativeGot == NativeArgs(Convention, want.family, EngineArgs)

\* AngelScript is given the function of the request, or its wrapper.
IsGiven(r) ==
  /\ ~NoOverload
  /\ \/ r = WantedNative /\ Convention \in Natives /\ want.form # "gfn"
     \/ r = WantedWrapper /\ WrapperBuilds /\ (Portable \/ want.form = "gfn")

\* A request without a function pointer that is refused has no overload, no
\* convention, or a wrapper that does not compile.
Unfit == NoOverload \/ Convention = "ill-formed" \/ ~WrapperBuilds

\* How far a build may have come: the overload c that it has reached, its
\* stage s, what AngelScript was given and what the function received.
Follows(b, c, s, r, g) ==
  /\ OnTheWay(b, c)
  /\ s \in {"calling", "registered", "called", "refused"}
  /\ s \in {"calling", "refused"} => r = NoReg
  /\ s \in {"registered", "called"} => IsGiven(r)
  /\ s # "called" => g = <<>>
  /\ s = "called" => g = IF r.conv = "generic" THEN Through ELSE NativeGot
  /\ s = "refused" /\ Portable => Unfit

\* The inductive invariant.
IInv ==
  /\ Request
  /\ at = [b \in Builds |-> at[b]] /\ stage = [b \in Builds |-> stage[b]]
  /\ reg = [b \in Builds |-> reg[b]] /\ got = [b \in Builds |-> got[b]]
  /\ \A b \in Builds : Follows(b, at[b], stage[b], reg[b], got[b])

\* What the outcomes of an overload are.
LEMMA OutcomeIs ==
  ASSUME Request, NEW b, NEW c, OnTheWay(b, c), NEW o \in Overload(b, c)
  PROVE  /\ o.do = "call" =>
              /\ OnTheWay(b, o.call)
              /\ \/ CallsItself /\ ~ForceGeneric(b)
                 \/ c = want /\ o.call # want
         /\ o.do = "register" => IsGiven(o.reg)
<1>1. PICK os : os = Overload(b, c) OBVIOUS
<1>2. Outcome(b, c, os) BY <1>1, OutcomesAre
<1>3. Alike(c) BY DEF OnTheWay
<1>a. IsCall(want) BY DEF Request
<1>4. /\ Alike(want) /\ Alike(Generic(want)) /\ Alike(Pointer(want))
      /\ Generic(want).generic /\ Generic(want).form = want.form /\ Generic(want).var = want.var
      /\ Pointer(want).form = "raw" /\ Pointer(want).var = {}
      /\ Pointer(want).generic = want.generic
  <2>2. Generic(want) = Call8(want.family, TRUE, want.form, want.explicit, want.aux,
                              want.loc, want.comp, want.var)
    BY <1>a, CallsGivenOn
  <2>3. Pointer(want) = Call8(want.family, want.generic, "raw", want.explicit, want.aux,
                              want.loc, want.comp, {})
    BY <1>a, CallsGivenOn
  <2>4. Alike(want) BY DEF Alike
  <2>5. Alike(Generic(want)) BY <2>2 DEF Alike, Call8
  <2>6. Alike(Pointer(want)) BY <2>3 DEF Alike, Call8
  <2>7. Generic(want).generic
    <3>1. PICK t : t = TRUE OBVIOUS
    <3>2. Generic(want) = Call8(want.family, t, want.form, want.explicit, want.aux,
                              want.loc, want.comp, want.var)
      BY <2>2, <3>1
    <3>3. Generic(want).generic = t BY <3>2 DEF Call8
    <3> QED BY <3>1, <3>3
  <2> QED BY <2>2, <2>3, <2>4, <2>5, <2>6, <2>7 DEF Call8
<1>5. CASE os = {} BY <1>1, <1>5
<1>6. CASE c = want /\ os = CallOverload(want) /\ CallsItself /\ ~ForceGeneric(b)
  <2>1. o.do = "call" /\ o.call = want BY <1>1, <1>6 DEF CallOverload
  <2> QED BY <2>1, <1>4, <1>6 DEF OnTheWay
<1>7. CASE /\ c = want /\ os = CallOverload(Generic(want)) /\ ~want.generic
           /\ Portable /\ ~NoOverload
  <2>1. o.do = "call" /\ o.call = Generic(want) BY <1>1, <1>7 DEF CallOverload
  <2>2. Generic(want) # want BY <1>4, <1>7
  <2> QED BY <1>4, <1>7, <2>1, <2>2 DEF OnTheWay
<1>8. CASE /\ c = want /\ os = CallOverload(Pointer(want))
           /\ want.form \in {"fp", "lambda"} /\ ~want.generic /\ ~ForceGeneric(b) /\ ~NoOverload
           /\ ~(want.family = "method" /\ want.aux /\ want.loc # "none")
  <2>1. o.do = "call" /\ o.call = Pointer(want) BY <1>1, <1>8 DEF CallOverload
  <2>2. Pointer(want) # want BY <1>4, <1>8
  <2> QED BY <1>4, <1>8, <2>1, <2>2 DEF OnTheWay
<1>9. CASE /\ c.var = want.var /\ ~NoOverload /\ (Portable \/ want.form = "gfn")
           /\ os = RegisterWrapper(c, WrapOf, OrigOf)
  <2>1. [conv |-> "generic", wrapper |-> WrapOf, orig |-> OrigOf,
         explicit |-> c.explicit, aux |-> c.aux, var |-> c.var] = WantedWrapper
    BY <1>3, <1>9 DEF WantedWrapper, Alike
  <2>2. o.do = "register" /\ o.reg = WantedWrapper /\ Compiles(WantedWrapper)
    BY <1>1, <1>9, <2>1 DEF RegisterWrapper
  <2> QED BY <1>9, <2>2 DEF IsGiven, WrapperBuilds
<1>10. CASE ~NoOverload /\ want.form # "gfn" /\ os = RegisterNative(c, Convention)
  <2>1. o.do = "register" /\ Convention # "ill-formed" /\ o.reg = WantedNative
    <3>1. PICK conv : conv = Convention OBVIOUS
    <3>2. PICK r : r = WantedNative OBVIOUS
    <3>3. r = [conv |-> conv, wrapper |-> "none", orig |-> conv,
               explicit |-> c.explicit, aux |-> c.aux, var |-> {}]
      BY <1>3, <3>1, <3>2 DEF WantedNative, Alike
    <3>4. o \in RegisterNative(c, conv) BY <1>1, <1>10, <3>1
    <3>5. conv # "ill-formed" /\ o = [do |-> "register", reg |-> r]
      BY <3>3, <3>4 DEF RegisterNative
    <3> QED BY <3>1, <3>2, <3>5
  <2>2. Convention \in Natives BY <1>10, <2>1, ConventionNative
  <2> QED BY <1>10, <2>1, <2>2 DEF IsGiven
<1> QED BY <1>2, <1>5, <1>6, <1>7, <1>8, <1>9, <1>10 DEF Outcome

\* When there is none.
LEMMA RefusalIs ==
  ASSUME Request, NEW b, NEW c, OnTheWay(b, c), Overload(b, c) = {}, Portable
  PROVE  Unfit
<1>1. PICK os : os = Overload(b, c) OBVIOUS
<1>2. os = {} /\ Outcome(b, c, os) BY <1>1, OutcomesAre
<1>3. \A d : CallOverload(d) # {} BY DEF CallOverload
<1>4. CASE NoOverload BY <1>4 DEF Unfit
<1>5. CASE c.var = want.var /\ os = RegisterWrapper(c, WrapOf, OrigOf)
  <2>1. [conv |-> "generic", wrapper |-> WrapOf, orig |-> OrigOf,
         explicit |-> c.explicit, aux |-> c.aux, var |-> c.var] = WantedWrapper
    BY <1>5 DEF WantedWrapper, Alike, OnTheWay
  <2>2. ~Compiles(WantedWrapper)
    <3>1. ASSUME Compiles(WantedWrapper) PROVE FALSE
      <4>1. [do |-> "register", reg |-> WantedWrapper] \in os
        BY <1>5, <2>1, <3>1 DEF RegisterWrapper
      <4> QED BY <1>2, <4>1
    <3> QED BY <3>1
  <2> QED BY <2>2 DEF Unfit, WrapperBuilds
<1>6. CASE os = RegisterNative(c, Convention)
  BY <1>2, <1>6 DEF RegisterNative, Unfit
<1> QED BY <1>2, <1>3, <1>4, <1>5, <1>6 DEF Outcome

\* The request stays as it is, and with it all that depends on it.
LEMMA RequestStays ==
  ASSUME UNCHANGED request
  PROVE  /\ Request' <=> Request
         /\ Convention' = Convention /\ WantedNative' = WantedNative
         /\ WantedWrapper' = WantedWrapper /\ (WrapperBuilds' <=> WrapperBuilds)
         /\ Through' = Through /\ NativeGot' = NativeGot
         /\ (NoOverload' <=> NoOverload) /\ (Portable' <=> Portable)
<1>1. template' = template /\ fn' = fn /\ args' = args /\ want' = want BY DEF request
<1>2. EngineArgs' = EngineArgs BY <1>1 DEF EngineArgs
<1>3. Request' <=> Request BY <1>1 DEF Request
<1>4. Deduction' = Deduction
  BY <1>1, <1>2 DEF Deduction, Located, method_callconv, BehaviourConv
<1>5. Convention' = Convention BY <1>1, <1>4 DEF Convention
<1>6. WrapOf' = WrapOf /\ OrigOf' = OrigOf BY <1>1, <1>5 DEF WrapOf, OrigOf
<1>7. WantedNative' = WantedNative BY <1>1, <1>5 DEF WantedNative
<1>8. WantedWrapper' = WantedWrapper BY <1>1, <1>6 DEF WantedWrapper
<1>9. Through' = Through BY <1>1, <1>2, <1>8 DEF Through, ThroughWrapper
<1>10. WrapperBuilds' <=> WrapperBuilds
  BY <1>8, <1>9 DEF WrapperBuilds, Compiles, Through
<1>11. NativeGot' = NativeGot BY <1>1, <1>2, <1>5 DEF NativeGot
<1>12. (NoOverload' <=> NoOverload) /\ (Portable' <=> Portable)
  BY <1>1 DEF NoOverload, Portable
<1> QED BY <1>3, <1>5, <1>7, <1>8, <1>9, <1>10, <1>11, <1>12

\* A call of what AngelScript was given goes through the wrapper when it is a
\* generic function, else by the convention of the request.
LEMMA WhatIsGiven ==
  ASSUME NEW r, IsGiven(r)
  PROVE  /\ r.conv = "generic" => r = WantedWrapper /\ ThroughWrapper(r) = Through
         /\ r.conv # "generic" =>
              /\ r = WantedNative /\ Convention \in Natives /\ want.form # "gfn"
              /\ NativeArgs(r.conv, want.family, EngineArgs) = NativeGot
<1>1. CASE r = WantedNative /\ Convention \in Natives /\ want.form # "gfn"
  <2>1. r.conv = Convention BY <1>1 DEF WantedNative
  <2>2. r.conv # "generic" BY <1>1, <2>1 DEF Natives
  <2> QED BY <1>1, <2>1, <2>2 DEF NativeGot
<1>2. CASE r = WantedWrapper
  <2>1. r.conv = "generic" BY <1>2 DEF WantedWrapper
  <2> QED BY <1>2, <2>1 DEF Through
<1> QED BY <1>1, <1>2 DEF IsGiven

\* The invariant holds when the application makes its call.
LEMMA InitIInv == Init => IInv
<1> SUFFICES ASSUME Init PROVE IInv OBVIOUS
<1>a. \E family \in Families, auxiliary, generic, explicit, comp \in BOOLEAN, form \in Forms :
        \E f \in Functions(family, auxiliary), as \in ArgLists(family) :
          \E loc \in {"none", f.end} :
            LET c == [family |-> family, generic |-> generic, form |-> form,
                      explicit |-> explicit, aux |-> auxiliary, loc |-> loc, comp |-> comp,
                      var |-> IF form \in {"fp", "lambda"} THEN AnyAt(as) ELSE {}]
            IN  Sensible(c, f, as) /\ want = c /\ fn = f /\ args = as
  BY DEF Init
<1>b. PICK family \in Families, auxiliary \in BOOLEAN, generic \in BOOLEAN,
           explicit \in BOOLEAN, comp \in BOOLEAN, form \in Forms :
        \E f \in Functions(family, auxiliary), as \in ArgLists(family) :
          \E loc \in {"none", f.end} :
            LET c == [family |-> family, generic |-> generic, form |-> form,
                      explicit |-> explicit, aux |-> auxiliary, loc |-> loc, comp |-> comp,
                      var |-> IF form \in {"fp", "lambda"} THEN AnyAt(as) ELSE {}]
            IN  Sensible(c, f, as) /\ want = c /\ fn = f /\ args = as
  BY <1>a
<1>1. \E f \in Functions(family, auxiliary), as \in ArgLists(family) :
        \E loc \in {"none", f.end} : \E var :
        /\ var = IF form \in {"fp", "lambda"} THEN AnyAt(as) ELSE {}
        /\ want = Call8(family, generic, form, explicit, auxiliary, loc, comp, var)
        /\ Sensible(want, f, as) /\ fn = f /\ args = as
  BY <1>b DEF Call8
<1>2. PICK loc, var :
        /\ fn \in Functions(family, auxiliary) /\ args \in ArgLists(family)
        /\ loc \in {"none", fn.end}
        /\ var = IF form \in {"fp", "lambda"} THEN AnyAt(args) ELSE {}
        /\ want = Call8(family, generic, form, explicit, auxiliary, loc, comp, var)
        /\ Sensible(want, fn, args)
  BY <1>1
<1>3. /\ want.family = family /\ want.generic = generic /\ want.form = form
      /\ want.explicit = explicit /\ want.aux = auxiliary /\ want.loc = loc
      /\ want.comp = comp /\ want.var = var
  BY <1>2 DEF Call8
<1>4. want.comp => want.family = "method" /\ want.form \in {"fp", "raw"}
  BY <1>2 DEF Sensible
<1>5. IsCall(want) BY <1>2, <1>3, <1>4 DEF IsCall
<1>6. /\ template \in BOOLEAN /\ (template => want.family \in TakesTypeInfo)
      /\ (want.family = "template_callback" => template)
  <2>1. template \in {FALSE} \cup {want.family \in TakesTypeInfo} BY DEF Init
  <2>2. want.family = "template_callback" => template BY DEF Init
  <2>3. CASE want.family \in TakesTypeInfo BY <2>1, <2>2, <2>3
  <2>4. CASE want.family \notin TakesTypeInfo
    <3>1. (want.family \in TakesTypeInfo) = FALSE BY <2>4
    <3>2. template = FALSE BY <2>1, <3>1
    <3> QED BY <2>2, <3>2
  <2> QED BY <2>3, <2>4
<1>7. Request BY <1>2, <1>3, <1>5, <1>6 DEF Request
<1>8. \A b \in Builds : OnTheWay(b, want) BY DEF OnTheWay, Alike
<1>9. \A b \in Builds : Follows(b, want, "calling", NoReg, <<>>)
  BY <1>8 DEF Follows
<1> QED BY <1>7, <1>9 DEF Init, IInv

\* Every step of a build keeps it.
LEMMA NextIInv == IInv /\ [Next]_vars => IInv'
<1> SUFFICES ASSUME IInv, [Next]_vars PROVE IInv' OBVIOUS
<1>1. UNCHANGED request
  BY DEF vars, request, Next, Step, Forward, Register, Refuse, Call
<1>2. /\ Request' <=> Request
      /\ Convention' = Convention /\ WantedNative' = WantedNative
      /\ WantedWrapper' = WantedWrapper /\ (WrapperBuilds' <=> WrapperBuilds)
      /\ Through' = Through /\ NativeGot' = NativeGot
      /\ (NoOverload' <=> NoOverload) /\ (Portable' <=> Portable)
  BY <1>1, RequestStays
<1>3. want' = want BY <1>1 DEF request
<1>4. Request' BY <1>2 DEF IInv
<1>5. \A b, c : OnTheWay(b, c)' <=> OnTheWay(b, c)
  BY <1>2, <1>3 DEF OnTheWay, Alike
<1>6. \A r : IsGiven(r)' <=> IsGiven(r)
  BY <1>2, <1>3 DEF IsGiven
<1>7. Unfit' <=> Unfit BY <1>2 DEF Unfit
<1>8. \A b, c, s, r, g : Follows(b, c, s, r, g)' <=> Follows(b, c, s, r, g)
  BY <1>2, <1>5, <1>6, <1>7 DEF Follows
<1>9. CASE UNCHANGED vars BY <1>4, <1>8, <1>9 DEF IInv, vars
<1>10. CASE Next
  <2>1. PICK b \in Builds : Step(b) BY <1>10 DEF Next
  <2>2. /\ OnTheWay(b, at[b]) /\ Follows(b, at[b], stage[b], reg[b], got[b])
        /\ Request
    BY <2>1 DEF IInv, Follows
  <2>3. CASE Forward(b)
    <3>1. PICK o \in Overload(b, at[b]) : o.do = "call" /\ at' = [at EXCEPT ![b] = o.call]
      BY <2>3 DEF Forward
    <3>2. OnTheWay(b, o.call) BY <2>2, <3>1, OutcomeIs
    <3>3. Follows(b, o.call, stage[b], reg[b], got[b]) BY <2>2, <3>2 DEF Follows
    <3> QED BY <1>4, <1>8, <2>1, <2>3, <3>1, <3>3 DEF IInv, Forward
  <2>4. CASE Register(b)
    <3>1. PICK o \in Overload(b, at[b]) :
            o.do = "register" /\ reg' = [reg EXCEPT ![b] = o.reg]
      BY <2>4 DEF Register
    <3>2. IsGiven(o.reg) BY <2>2, <3>1, OutcomeIs
    <3>3. Follows(b, at[b], "registered", o.reg, got[b])
      BY <2>2, <2>4, <3>2 DEF Follows, Register
    <3> QED BY <1>4, <1>8, <2>1, <2>4, <3>1, <3>3 DEF IInv, Register
  <2>5. CASE Refuse(b)
    <3>1. Overload(b, at[b]) = {} /\ stage[b] = "calling" BY <2>5 DEF Refuse
    <3>2. Portable => Unfit BY <2>2, <3>1, RefusalIs
    <3>3. Follows(b, at[b], "refused", reg[b], got[b]) BY <2>2, <3>1, <3>2 DEF Follows
    <3> QED BY <1>4, <1>8, <2>1, <2>5, <3>3 DEF IInv, Refuse
  <2>6. CASE Call(b)
    <3>1. PICK g : g = IF reg[b].conv = "generic" THEN ThroughWrapper(reg[b])
                       ELSE NativeArgs(reg[b].conv, want.family, EngineArgs)
      OBVIOUS
    <3>2. stage[b] = "registered" /\ got' = [got EXCEPT ![b] = g] BY <2>6, <3>1 DEF Call
    <3>3. IsGiven(reg[b]) BY <2>2, <3>2 DEF Follows
    <3>4. g = IF reg[b].conv = "generic" THEN Through ELSE NativeGot
      BY <3>1, <3>3, WhatIsGiven
    <3>5. Follows(b, at[b], "called", reg[b], g) BY <2>2, <3>2, <3>3, <3>4 DEF Follows
    <3> QED BY <1>4, <1>8, <2>1, <2>6, <3>2, <3>5 DEF IInv, Call
  <2> QED BY <2>1, <2>3, <2>4, <2>5, <2>6 DEF Step
<1> QED BY <1>9, <1>10 DEF Next

\* A call is one of those that the model has, and so are the calls that the
\* overloads make on its behalf.
LEMMA CallsAre ==
  ASSUME Request, NEW b, NEW c, OnTheWay(b, c)
  PROVE  want \in Calls /\ c \in Calls
<1>1. /\ IsCall(want) /\ want.aux \in BOOLEAN /\ want.explicit \in BOOLEAN
      /\ want = Call8(want.family, want.generic, want.form, want.explicit, want.aux,
                      want.loc, want.comp, want.var)
  BY DEF Request, IsCall
<1>2. PICK family, generic, form, explicit, aux, loc, comp, var :
        /\ family = want.family /\ generic = want.generic /\ form = want.form
        /\ explicit = want.explicit /\ aux = want.aux /\ loc = want.loc
        /\ comp = want.comp /\ var = want.var
  OBVIOUS
<1>3. want.var \in SUBSET (0..MaxArgs - 1)
  <2>1. AnyAt(args) \subseteq 0..MaxArgs - 1 BY ArgumentsAre DEF Request, IsCall
  <2> QED BY <2>1 DEF Request
<1>4. want.loc \in {"none", "first", "last"}
  <2>1. fn.end \in {"first", "last", "none"}
    <3>1. HasShape(fn, want.family, want.aux) BY ParametersAre
    <3> QED BY <3>1 DEF HasShape
  <2> QED BY <2>1 DEF Request
<1>5. /\ family \in Families /\ generic \in BOOLEAN /\ form \in Forms
      /\ explicit \in BOOLEAN /\ aux \in BOOLEAN /\ loc \in {"none", "first", "last"}
      /\ comp \in BOOLEAN /\ var \in SUBSET (0..MaxArgs - 1)
  BY <1>2, <1>3, <1>4 DEF Request, IsCall
<1>6. \A g \in BOOLEAN, f \in Forms, v \in SUBSET (0..MaxArgs - 1) :
        Call8(family, g, f, explicit, aux, loc, comp, v) \in Calls
  BY <1>5 DEF Call8, Calls
<1>7. Generic(want) = Call8(family, TRUE, form, explicit, aux, loc, comp, var)
  BY <1>1, <1>2, CallsGivenOn
<1>8. Pointer(want) = Call8(family, generic, "raw", explicit, aux, loc, comp, {})
  BY <1>1, <1>2, CallsGivenOn
<1>9. c \in {want, Generic(want), Pointer(want)} BY DEF OnTheWay
<1>10. "raw" \in Forms /\ TRUE \in BOOLEAN /\ {} \in SUBSET (0..MaxArgs - 1) BY DEF Forms
<1>11. want \in Calls BY <1>1, <1>2, <1>5, <1>6
<1>12. Generic(want) \in Calls BY <1>5, <1>6, <1>7, <1>10
<1>13. Pointer(want) \in Calls BY <1>5, <1>6, <1>8, <1>10
<1> QED BY <1>9, <1>11, <1>12, <1>13

\* So is what AngelScript is given.
LEMMA RegistrationsAre ==
  ASSUME Request, NEW r, IsGiven(r) \/ r = NoReg
  PROVE  r \in Registrations
<1>1. /\ want.explicit \in BOOLEAN /\ want.aux \in BOOLEAN
      /\ want.var \in SUBSET (0..MaxArgs - 1)
  <2>1. AnyAt(args) \subseteq 0..MaxArgs - 1 BY ArgumentsAre DEF Request, IsCall
  <2> QED BY <2>1 DEF Request
<1>2. CASE r = NoReg BY <1>2 DEF NoReg, Registrations, Conventions, Wrappers
<1>3. CASE IsGiven(r) /\ r.conv # "generic"
  <2>1. r = WantedNative /\ Convention \in Natives BY <1>3, WhatIsGiven
  <2>2. PICK conv : conv = Convention OBVIOUS
  <2>3. conv \in Natives BY <2>1, <2>2
  <2>4. conv \in Conventions /\ "none" \in Wrappers
    BY <2>3 DEF Natives, Conventions, Wrappers
  <2> QED BY <1>1, <2>1, <2>2, <2>4 DEF WantedNative, Registrations
<1>4. CASE IsGiven(r) /\ r.conv = "generic"
  <2>1. r = WantedWrapper /\ WrapperBuilds /\ (Portable \/ want.form = "gfn")
    <3>1. r = WantedWrapper BY <1>4, WhatIsGiven
    <3>2. ~(r = WantedNative /\ Convention \in Natives) BY <1>4 DEF WantedNative, Natives
    <3> QED BY <1>4, <3>1, <3>2 DEF IsGiven
  <2>2. WrapOf \in Wrappers BY DEF WrapOf, Wrappers
  <2>3. OrigOf \in Conventions
    <3>1. CASE want.form \in {"gfn", "wrapped"} BY <3>1 DEF OrigOf, Conventions
    <3>2. CASE want.form \notin {"gfn", "wrapped"} /\ want.comp
      BY <3>2 DEF OrigOf, Conventions
    <3>3. CASE want.form \notin {"gfn", "wrapped"} /\ ~want.comp
      <4>1. OrigOf = Convention BY <3>3 DEF OrigOf
      <4>2. Convention # "ill-formed"
        BY <2>1, <4>1 DEF WrapperBuilds, Compiles, WantedWrapper
      <4>3. Convention \in Natives BY <3>3, <4>2, ConventionNative
      <4> QED BY <4>1, <4>3 DEF Natives, Conventions
    <3> QED BY <3>1, <3>2, <3>3
  <2>4. PICK wrapper, orig : wrapper = WrapOf /\ orig = OrigOf OBVIOUS
  <2>5. "generic" \in Conventions BY DEF Conventions
  <2> QED BY <1>1, <2>1, <2>2, <2>3, <2>4, <2>5 DEF WantedWrapper, Registrations
<1> QED BY <1>2, <1>3, <1>4

\* When a wrapper is given, it compiles.
LEMMA GivenWrapper ==
  ASSUME NEW r, IsGiven(r), r.conv = "generic"
  PROVE  WrapperBuilds /\ ~NoOverload /\ (Portable \/ want.form = "gfn")
<1>1. ~(r = WantedNative /\ Convention \in Natives) BY DEF WantedNative, Natives
<1> QED BY <1>1 DEF IsGiven

\* What the function received natively, or through the wrapper.
LEMMA Received ==
  ASSUME Request, NEW r, IsGiven(r), NEW g, NEW n, n = Len(EngineArgs),
         g = IF r.conv = "generic" THEN Through ELSE NativeGot
  PROVE  g \in Seq(Tokens(n))
<1>1. CASE r.conv = "generic"
  <2>1. WrapperBuilds /\ ~NoOverload /\ (Portable \/ want.form = "gfn")
    BY <1>1, GivenWrapper
  <2> QED BY <1>1, <2>1, WrapperTyped DEF WrapperBuilds
<1>2. CASE r.conv # "generic"
  <2>1. Convention \in Natives BY <1>2, WhatIsGiven
  <2> QED BY <1>2, <2>1, NativeTyped DEF NativeGot
<1> QED BY <1>1, <1>2

\* The state is well-typed in every build and at every stage, for functions of
\* any number of arguments: the overloads call each other with calls that an
\* application could have made, AngelScript is given conventions that it has,
\* and the function receives nothing but the object, the auxiliary, the
\* composite and the arguments and type ids of the call (class.hpp, global.hpp,
\* genfunc.hpp).
THEOREM TypeCorrect == Spec => []TypeOK
<1>1. IInv => TypeOK
  <2> SUFFICES ASSUME IInv PROVE TypeOK OBVIOUS
  <2>1. Request /\ \A b \in Builds : Follows(b, at[b], stage[b], reg[b], got[b])
    BY DEF IInv
  <2>2. template \in BOOLEAN BY <2>1 DEF Request
  <2>3. fn \in [member : BOOLEAN, end : {"first", "last", "none"}, obj : {"T", "A", "void"}]
    <3>1. HasShape(fn, want.family, want.aux) BY <2>1, ParametersAre
    <3> QED BY <3>1 DEF HasShape
  <2>4. args \in Seq(ArgKinds) /\ Len(args) <= 1 + MaxArgs
    BY <2>1, ArgumentsAre DEF Request, IsCall
  <2>5. \A b \in Builds : want \in Calls /\ at[b] \in Calls
    BY <2>1, CallsAre DEF Follows
  <2>6. "native" \in Builds BY DEF Builds
  <2>7. \A b \in Builds : reg[b] \in Registrations
    <3> SUFFICES ASSUME NEW b \in Builds PROVE reg[b] \in Registrations OBVIOUS
    <3>1. IsGiven(reg[b]) \/ reg[b] = NoReg BY <2>1 DEF Follows
    <3> QED BY <2>1, <3>1, RegistrationsAre
  <2>8. \A b \in Builds : stage[b] \in {"calling", "registered", "called", "refused"}
    BY <2>1 DEF Follows
  <2>9. \A b \in Builds : \A i \in DOMAIN got[b] :
          got[b][i] \in {"obj", "aux", "comp", "arg", "id", "none"} \X (0..Len(EngineArgs))
    <3> SUFFICES ASSUME NEW b \in Builds, NEW i \in DOMAIN got[b]
                 PROVE  got[b][i] \in Tokens(Len(EngineArgs))
      BY DEF Tokens
    <3>1. PICK n, g : n = Len(EngineArgs) /\ g = got[b] OBVIOUS
    <3>2. CASE stage[b] # "called" BY <2>1, <3>2 DEF Follows
    <3>3. CASE stage[b] = "called"
      <4>1. /\ IsGiven(reg[b])
            /\ g = IF reg[b].conv = "generic" THEN Through ELSE NativeGot
        BY <2>1, <3>1, <3>3 DEF Follows
      <4>2. g \in Seq(Tokens(n)) BY <2>1, <3>1, <4>1, Received
      <4> QED BY <3>1, <4>2
    <3> QED BY <3>2, <3>3
  <2> QED BY <2>2, <2>3, <2>4, <2>5, <2>6, <2>7, <2>8, <2>9 DEF IInv, TypeOK
<1> QED BY <1>1, InitIInv, NextIInv, PTL DEF Spec

\* Whatever overload, deduction and wrapper a registration goes through, the
\* C++ function receives the object, the auxiliary and every argument of the
\* script at the parameter that is meant for it, for functions of any number of
\* arguments: natively as the convention that was deduced says, and through a
\* wrapper because the wrapper arranges what it fetches as that convention
\* would (common.hpp:58-306, genfunc.hpp, class.hpp, global.hpp).
THEOREM ArgumentsGetThrough == Spec => []ArgumentsArrive
<1>1. IInv => ArgumentsArrive
  <2> SUFFICES ASSUME IInv, NEW b \in Builds, stage[b] = "called", ~Misleading,
                      ~(reg[b].conv = "generic" /\ (MappedMethod \/ ListConstructor))
               PROVE  got[b] = Intended
    BY DEF ArgumentsArrive
  <2>1. Request /\ Follows(b, at[b], stage[b], reg[b], got[b]) BY DEF IInv
  <2>2. PICK r : r = reg[b] OBVIOUS
  <2>3. IsGiven(r) /\ got[b] = IF r.conv = "generic" THEN Through ELSE NativeGot
    BY <2>1, <2>2 DEF Follows
  <2>4. CASE r.conv # "generic"
    <3>1. Convention \in Natives /\ want.form # "gfn" BY <2>3, <2>4, WhatIsGiven
    <3>2. Convention # "ill-formed" BY <3>1 DEF Natives
    <3> QED BY <2>1, <2>3, <2>4, <3>1, <3>2, NativeRight DEF NativeGot
  <2>5. CASE r.conv = "generic"
    <3>1. WrapperBuilds /\ ~NoOverload /\ (Portable \/ want.form = "gfn")
      BY <2>3, <2>5, GivenWrapper
    <3>2. ~MappedMethod /\ ~ListConstructor BY <2>2, <2>5
    <3>3. CASE want.form = "gfn"
      <4>1. WrapOf = "gfn" BY <3>3 DEF WrapOf
      <4>2. Through = <<>> BY <4>1, ThroughIs
      <4>3. Intended = <<>> BY <3>3 DEF Intended
      <4> QED BY <2>3, <2>5, <4>2, <4>3
    <3>4. CASE Portable
      <4>1. ~TwoVarTypes BY <2>1, <3>1, <3>4, TwoRefused DEF WrapperBuilds
      <4>2. Convention # "ill-formed" BY <2>1, <3>1, <3>4, CompiledConvention DEF WrapperBuilds
      <4>3. Through = NativeArgs(Convention, want.family, EngineArgs)
        BY <2>1, <3>1, <3>2, <3>4, <4>1, <4>2, WrapperRight
      <4>4. want.form # "gfn" BY <3>4 DEF Portable
      <4> QED BY <2>1, <2>3, <2>5, <4>2, <4>3, <4>4, NativeRight
    <3> QED BY <3>1, <3>3, <3>4
  <2> QED BY <2>4, <2>5
<1> QED BY <1>1, InitIInv, NextIInv, PTL DEF Spec

\* A registration without function pointers means the same with and without
\* ForceGeneric, for functions of any number of arguments: it compiles in both
\* builds or in none, and the function receives the same (class.hpp:1956 and
\* its like, genfunc.hpp).
THEOREM PortsMeanTheSame == Spec => []PortsAgree
<1>1. IInv => PortsAgree
  <2> SUFFICES ASSUME IInv, want.form \in {"fp", "lambda", "wrapped"},
                      \A b \in Builds : stage[b] \in {"called", "refused"},
                      ~(MappedMethod \/ ListConstructor \/ TwoVarTypes)
               PROVE  /\ stage["native"] = stage["portable"]
                      /\ got["native"] = got["portable"]
    BY DEF PortsAgree
  <2>1. Request /\ Portable /\ "native" \in Builds /\ "portable" \in Builds
    BY DEF IInv, Portable, Builds
  <2>2. \A b \in Builds : Follows(b, at[b], stage[b], reg[b], got[b]) BY DEF IInv
  <2>3. CASE Unfit
    <3>1. NoOverload \/ Convention = "ill-formed"
      BY <2>1, <2>3, WrapperCompiles DEF Unfit, WrapperBuilds
    <3>2. \A r : ~IsGiven(r)
      <4> SUFFICES ASSUME NEW r, IsGiven(r) PROVE FALSE OBVIOUS
      <4>1. Convention = "ill-formed" BY <3>1 DEF IsGiven
      <4>2. ~WrapperBuilds BY <2>1, <4>1, CompiledConvention DEF WrapperBuilds
      <4> QED BY <4>1, <4>2 DEF IsGiven, Natives
    <3>3. \A b \in Builds : stage[b] = "refused" /\ got[b] = <<>>
      BY <2>2, <3>2 DEF Follows
    <3> QED BY <2>1, <3>3
  <2>4. CASE ~Unfit
    <3>1. Through = NativeGot BY <2>1, <2>4, WrapperRight DEF Unfit, NativeGot
    <3>2. \A b \in Builds : stage[b] = "called" /\ got[b] = NativeGot
      BY <2>1, <2>2, <2>4, <3>1 DEF Follows
    <3> QED BY <2>1, <3>2
  <2> QED BY <2>3, <2>4
<1> QED BY <1>1, InitIInv, NextIInv, PTL DEF Spec

\* A call is given on once at most, for functions of any number of arguments, so
\* that every chain of overloads ends, but that of an overload that calls itself
\* (class.hpp, global.hpp).
THEOREM ChainsAreShort == Spec => []GivenOnOnce
<1>1. IInv => GivenOnOnce
  <2> SUFFICES ASSUME IInv, NEW b \in Builds, NEW o \in Overload(b, at[b]), o.do = "call"
               PROVE  \/ CallsItself /\ b = "native"
                      \/ at[b] = want /\ o.call # want
    BY DEF GivenOnOnce
  <2>1. Request /\ OnTheWay(b, at[b]) BY DEF IInv, Follows
  <2>2. \/ CallsItself /\ ~ForceGeneric(b)
        \/ at[b] = want /\ o.call # want
    BY <2>1, OutcomeIs
  <2> QED BY <2>2 DEF ForceGeneric, Builds
<1> QED BY <1>1, InitIInv, NextIInv, PTL DEF Spec
=============================================================================
