-------------------------- MODULE ObjectVectorProofs --------------------------
(***************************************************************************)
(* Proofs about ObjectVector, for any finite number of vectors, any objects*)
(* and any bounds: vectors own their elements, exactly, and elements that  *)
(* are not handles are never shared.                                       *)
(*                                                                         *)
(* The counters of the engine and the places in the vectors are compared by*)
(* what a call does to one vector: how often an object occurs in the       *)
(* sequence it had and in the one it has then.                             *)
(***************************************************************************)
EXTENDS ObjectVector, FiniteSetTheorems, FunctionTheorems, SequenceTheorems, TLAPS

(* What an element may be.                                                  *)
Cells == Objects \cup {Null, Wild}

-----------------------------------------------------------------------------
(* How often an object occurs in a sequence.                                *)

(* The positions of o in s.                                                 *)
Where(s, o) == { i \in DOMAIN s : s[i] = o }

(* How often o occurs in the sequence of x.                                 *)
One(x, o) == IF x = o THEN 1 ELSE 0

(* It is a number: sequences are finite.                                    *)
LEMMA OccursType ==
    ASSUME NEW s \in Seq(Cells), NEW o
    PROVE  /\ IsFiniteSet(Where(s, o))
           /\ Occurs(s, o) = Cardinality(Where(s, o))
           /\ Occurs(s, o) \in Nat
<1>1. IsFiniteSet(1..Len(s)) /\ Where(s, o) \in SUBSET (1..Len(s))
  BY FS_Interval DEF Where
<1>2. IsFiniteSet(Where(s, o))
  BY <1>1, FS_Subset
<1>3. Occurs(s, o) = Cardinality(Where(s, o))
  BY DEF Occurs, Where
<1> QED
  BY <1>2, <1>3, FS_CardinalityType

(* Nothing occurs in the empty sequence.                                    *)
LEMMA OccursEmpty ==
    ASSUME NEW o
    PROVE  Occurs(<< >>, o) = 0
<1>1. Where(<< >>, o) = {}
  BY DEF Where
<1> QED
  BY <1>1, FS_EmptySet DEF Occurs, Where

(* What occurs is at some position.                                         *)
LEMMA OccursSomewhere ==
    ASSUME NEW s \in Seq(Cells), NEW o
    PROVE  Occurs(s, o) > 0 <=> \E i \in 1..Len(s) : s[i] = o
<1>1. Where(s, o) # {} <=> \E i \in 1..Len(s) : s[i] = o
  BY DEF Where
<1> QED
  BY <1>1, OccursType, FS_EmptySet

(* One element.                                                             *)
LEMMA OccursOne ==
    ASSUME NEW x \in Cells, NEW o
    PROVE  Occurs(<<x>>, o) = One(x, o)
<1>1. <<x>> \in Seq(Cells) /\ Len(<<x>>) = 1 /\ <<x>>[1] = x
  OBVIOUS
<1>2. CASE x = o
  <2>1. Where(<<x>>, o) = {1}
    BY <1>1, <1>2 DEF Where
  <2> QED
    BY <1>1, <1>2, <2>1, OccursType, FS_Singleton DEF One
<1>3. CASE x # o
  <2>1. Where(<<x>>, o) = {}
    BY <1>1, <1>3 DEF Where
  <2> QED
    BY <1>1, <1>3, <2>1, OccursType, FS_EmptySet DEF One
<1> QED
  BY <1>2, <1>3

(* What has one position occurs once.                                       *)
LEMMA OccursAtMostOnce ==
    ASSUME NEW s \in Seq(Cells), NEW o,
           \A i, j \in 1..Len(s) : s[i] = o /\ s[j] = o => i = j
    PROVE  Occurs(s, o) <= 1
<1>1. CASE Where(s, o) = {}
  BY <1>1, OccursType, FS_EmptySet
<1>2. CASE Where(s, o) # {}
  <2>1. PICK i : i \in Where(s, o)
    BY <1>2
  <2>2. \A j \in Where(s, o) : j = i
    BY <2>1 DEF Where
  <2>3. Where(s, o) = {i}
    BY <2>1, <2>2
  <2>4. Cardinality({i}) = 1
    BY FS_Singleton
  <2>5. Occurs(s, o) = Cardinality({i})
    BY <2>3, OccursType
  <2> QED
    BY <2>4, <2>5
<1> QED
  BY <1>1, <1>2

(* Counting is additive: the positions of o in t, moved by the length of s, *)
(* are its other positions in s \o t.                                       *)
LEMMA OccursCat ==
    ASSUME NEW s \in Seq(Cells), NEW t \in Seq(Cells), NEW o
    PROVE  /\ s \o t \in Seq(Cells)
           /\ Len(s \o t) = Len(s) + Len(t)
           /\ Occurs(s \o t, o) = Occurs(s, o) + Occurs(t, o)
<1>1. PICK m, n, u : m = Len(s) /\ n = Len(t) /\ u = s \o t
  OBVIOUS
<1>2. m \in Nat /\ n \in Nat
  BY <1>1, LenProperties
<1>3. /\ u \in Seq(Cells) /\ Len(u) = m + n
      /\ \A i \in 1..m + n : u[i] = IF i <= m THEN s[i] ELSE t[i - m]
  BY <1>1, ConcatProperties
<1> DEFINE A == Where(s, o)
           B == Where(t, o)
           C == { i \in m + 1..m + n : t[i - m] = o }
           f == [j \in B |-> m + j]
<1>4. A \subseteq 1..m /\ B \subseteq 1..n
  BY <1>1 DEF Where
<1>5. f \in Bijection(B, C)
  <2>1. \A j \in B : m + j \in C
    BY <1>1, <1>2 DEF Where
  <2>2. \A i \in C : i - m \in B /\ m + (i - m) = i
    BY <1>1, <1>2 DEF Where
  <2>3. \A j, k \in B : m + j = m + k => j = k
    BY <1>2, <1>4
  <2> HIDE DEF B, C
  <2> QED
    BY <2>1, <2>2, <2>3, Fun_IsBij
<1>6. IsFiniteSet(C) /\ Cardinality(C) = Cardinality(B)
  <2>1. ExistsBijection(B, C)
    BY <1>5 DEF ExistsBijection
  <2>2. IsFiniteSet(B)
    BY OccursType
  <2> HIDE DEF B, C
  <2> QED
    BY <2>1, <2>2, FS_Bijection
<1>7. Where(u, o) = A \cup C
  <2>1. ASSUME NEW i
        PROVE  i \in Where(u, o) <=> i \in A \cup C
    <3>1. i \in 1..m + n <=> i \in 1..m \/ i \in m + 1..m + n
      BY <1>2
    <3>2. i \in 1..m => i <= m
      BY <1>2
    <3>3. i \in m + 1..m + n => ~(i <= m)
      BY <1>2
    <3> QED
      BY <1>1, <1>2, <1>3, <3>1, <3>2, <3>3 DEF Where
  <2> QED
    BY <2>1
<1>8. A \cap C = {}
  <2>1. \A i \in C : i > m
    BY <1>2
  <2> QED
    BY <1>2, <1>4, <2>1
<1>9. Cardinality(Where(u, o)) = Cardinality(A) + Cardinality(C)
  <2>1. IsFiniteSet(A) /\ Cardinality(A) \in Nat /\ Cardinality(C) \in Nat
    BY <1>6, OccursType, FS_CardinalityType
  <2> HIDE DEF A, C
  <2>2. Cardinality(A \cup C) = Cardinality(A) + Cardinality(C) - Cardinality(A \cap C)
    BY <1>6, <2>1, FS_Union
  <2>3. Cardinality(A \cap C) = 0
    BY <1>8, FS_EmptySet
  <2> QED
    BY <1>7, <2>1, <2>2, <2>3
<1> QED
  BY <1>1, <1>3, <1>6, <1>9, OccursType

Joins(u, s, t) == s \in Seq(Cells) /\ t \in Seq(Cells) /\ u = s \o t

(* The same, for a sequence with a name.                                    *)
LEMMA Cat ==
    ASSUME NEW s, NEW t, NEW u, Joins(u, s, t), NEW o
    PROVE  /\ u \in Seq(Cells)
           /\ Len(u) = Len(s) + Len(t)
           /\ Occurs(u, o) = Occurs(s, o) + Occurs(t, o)
BY OccursCat DEF Joins

(* A part of a sequence.                                                    *)
LEMMA PartIs ==
    ASSUME NEW s \in Seq(Cells), NEW a \in Nat, NEW b \in Nat, a >= 1, a <= b + 1,
           b <= Len(s)
    PROVE  /\ SubSeq(s, a, b) \in Seq(Cells)
           /\ Len(SubSeq(s, a, b)) = b + 1 - a
           /\ \A i \in 1..b + 1 - a : SubSeq(s, a, b)[i] = s[a + i - 1]
<1>1. CASE a <= b
  OBVIOUS
<1>2. CASE a = b + 1
  <2>1. SubSeq(s, a, b) = << >>
    BY <1>2
  <2> QED
    BY <1>2, <2>1
<1> QED
  BY <1>1, <1>2

(* A part of one element.                                                   *)
LEMMA PartOfOne ==
    ASSUME NEW s \in Seq(Cells), NEW j \in 1..Len(s)
    PROVE  SubSeq(s, j, j) = <<s[j]>> /\ s[j] \in Cells
<1>1. PICK p, x : p = SubSeq(s, j, j) /\ x = s[j]
  OBVIOUS
<1>2. j \in Nat /\ j >= 1 /\ j <= Len(s) /\ j <= j + 1 /\ j + 1 - j = 1 /\ j + 1 - 1 = j
  BY LenProperties
<1>3. /\ p \in Seq(Cells) /\ Len(p) = j + 1 - j
      /\ \A q \in 1..j + 1 - j : p[q] = s[j + q - 1]
  BY <1>1, <1>2, PartIs
<1>4. p \in Seq(Cells) /\ Len(p) = 1 /\ p[1] = x
  BY <1>1, <1>2, <1>3
<1>5. x \in Cells
  BY <1>1, ElementOfSeq
<1>6. p = <<x>>
  BY <1>4
<1> QED
  BY <1>1, <1>5, <1>6

(* A sequence in two parts.                                                 *)
LEMMA Split ==
    ASSUME NEW s \in Seq(Cells), NEW k \in 0..Len(s), NEW o
    PROVE  Occurs(s, o) = Occurs(SubSeq(s, 1, k), o)
                            + Occurs(SubSeq(s, k + 1, Len(s)), o)
<1>1. PICK n, a, b : n = Len(s) /\ a = SubSeq(s, 1, k) /\ b = SubSeq(s, k + 1, n)
  OBVIOUS
<1>2. n \in Nat /\ k \in Nat /\ k <= n
  BY <1>1, LenProperties
<1>3. a \in Seq(Cells) /\ Len(a) = k /\ \A i \in 1..k : a[i] = s[i]
  BY <1>1, <1>2, PartIs
<1>4. b \in Seq(Cells) /\ Len(b) = n - k /\ \A i \in 1..n - k : b[i] = s[k + i]
  BY <1>1, <1>2, PartIs
<1>5. PICK u : u = a \o b
  OBVIOUS
<1>6. /\ u \in Seq(Cells) /\ Len(u) = k + (n - k)
      /\ \A i \in 1..k + (n - k) : u[i] = IF i <= k THEN a[i] ELSE b[i - k]
  <2>1. /\ u \in Seq(Cells) /\ Len(u) = Len(a) + Len(b)
        /\ \A i \in 1..Len(a) + Len(b) :
              u[i] = IF i <= Len(a) THEN a[i] ELSE b[i - Len(a)]
    <3>1. a \in Seq(Cells) /\ b \in Seq(Cells)
      BY <1>3, <1>4
    <3> QED
      BY SMTT(20), <3>1, <1>5, ConcatProperties
  <2>2. Len(a) = k /\ Len(b) = n - k
    BY <1>3, <1>4
  <2> QED
    BY <2>1, <2>2
<1>7. Len(u) = n
  BY <1>2, <1>6
<1>8. ASSUME NEW i \in 1..n
      PROVE  u[i] = s[i]
  <2>1. CASE i <= k
    BY <1>2, <1>3, <1>6, <2>1
  <2>2. CASE ~(i <= k)
    <3>1. i - k \in 1..n - k /\ k + (i - k) = i
      BY <1>2, <2>2
    <3>2. b[i - k] = s[i]
      <4>1. b[i - k] = s[k + (i - k)]
        BY <3>1, <1>4
      <4> QED
        BY <4>1, <3>1
    <3>3. i \in 1..k + (n - k)
      BY <1>2
    <3>4. u[i] = b[i - k]
      BY <3>3, <2>2, <1>6
    <3> QED
      BY <3>2, <3>4
  <2> QED
    BY <2>1, <2>2
<1>9. s = u
  BY <1>1, <1>6, <1>7, <1>8, SeqEqual
<1>10. Occurs(a \o b, o) = Occurs(a, o) + Occurs(b, o)
  BY <1>3, <1>4, OccursCat
<1> QED
  BY <1>1, <1>5, <1>9, <1>10

(* ... and in three.                                                        *)
LEMMA SplitTwice ==
    ASSUME NEW s \in Seq(Cells), NEW m \in 0..Len(s), NEW k \in 0..m, NEW o
    PROVE  Occurs(s, o) = Occurs(SubSeq(s, 1, k), o)
                            + Occurs(SubSeq(s, k + 1, m), o)
                            + Occurs(SubSeq(s, m + 1, Len(s)), o)
<1>1. PICK a : a = SubSeq(s, 1, m)
  OBVIOUS
<1>2. m \in Nat /\ k \in Nat /\ Len(s) \in Nat /\ k <= m /\ m <= Len(s)
  BY LenProperties
<1>3. a \in Seq(Cells) /\ Len(a) = m /\ \A i \in 1..m : a[i] = s[i]
  BY <1>1, <1>2, PartIs
<1>4. Occurs(s, o) = Occurs(a, o) + Occurs(SubSeq(s, m + 1, Len(s)), o)
  BY <1>1, <1>2, Split
<1>5. Occurs(a, o) = Occurs(SubSeq(a, 1, k), o) + Occurs(SubSeq(a, k + 1, m), o)
  BY <1>2, <1>3, Split
<1>6. SubSeq(a, 1, k) = SubSeq(s, 1, k)
  BY <1>2, <1>3
<1>7. SubSeq(a, k + 1, m) = SubSeq(s, k + 1, m)
  <2>1. \A i \in k + 1..m : a[i] = s[i]
    BY <1>2, <1>3
  <2> QED
    BY <1>2, <2>1
<1> QED
  BY <1>4, <1>5, <1>6, <1>7

(* Reversing moves position i to the position as far from the end.          *)
LEMMA OccursReversed ==
    ASSUME NEW s \in Seq(Cells), NEW o
    PROVE  /\ Reverse(s) \in Seq(Cells)
           /\ Len(Reverse(s)) = Len(s)
           /\ Occurs(Reverse(s), o) = Occurs(s, o)
<1>1. PICK n, t : n = Len(s) /\ t = Reverse(s)
  OBVIOUS
<1>2. n \in Nat /\ t = [i \in 1..n |-> s[n - i + 1]]
  BY <1>1, LenProperties DEF Reverse
<1>3. \A i \in 1..n : n - i + 1 \in 1..n /\ n - (n - i + 1) + 1 = i
  BY <1>2
<1>4. t \in Seq(Cells) /\ Len(t) = n
  <2>1. \A i \in 1..n : s[n - i + 1] \in Cells
    BY <1>1, <1>3, ElementOfSeq
  <2>2. t \in [1..n -> Cells]
    BY <1>2, <2>1
  <2> QED
    BY <1>2, <2>2
<1> DEFINE A == Where(s, o)
           B == Where(t, o)
           f == [i \in A |-> n - i + 1]
<1>5. /\ \A i : i \in A <=> i \in 1..n /\ s[i] = o
      /\ \A i : i \in B <=> i \in 1..n /\ t[i] = o
  BY <1>1, <1>4 DEF Where
<1>6. f \in Bijection(A, B)
  <2>1. \A i \in A : n - i + 1 \in B
    BY <1>2, <1>3, <1>5
  <2>2. \A i \in B : n - i + 1 \in A /\ n - (n - i + 1) + 1 = i
    BY <1>2, <1>3, <1>5
  <2>3. \A i, j \in A : n - i + 1 = n - j + 1 => i = j
    BY <1>2, <1>5
  <2> HIDE DEF A, B
  <2> QED
    BY <2>1, <2>2, <2>3, Fun_IsBij
<1>7. ExistsBijection(A, B)
  BY <1>6 DEF ExistsBijection
<1>8. IsFiniteSet(A)
  BY OccursType
<1>9. Cardinality(B) = Cardinality(A)
  <2> HIDE DEF A, B
  <2> QED
    BY <1>7, <1>8, FS_Bijection
<1> QED
  BY <1>1, <1>4, <1>9, OccursType

(* An element is replaced.                                                  *)
LEMMA OccursReplaced ==
    ASSUME NEW s \in Seq(Cells), NEW i \in 1..Len(s), NEW x \in Cells, NEW o
    PROVE  /\ ReplaceAt(s, i, x) \in Seq(Cells)
           /\ Len(ReplaceAt(s, i, x)) = Len(s)
           /\ Occurs(ReplaceAt(s, i, x), o) + One(s[i], o) = Occurs(s, o) + One(x, o)
<1>1. PICK t : t = ReplaceAt(s, i, x)
  OBVIOUS
<1>2. /\ t \in Seq(Cells) /\ Len(t) = Len(s) /\ t[i] = x
      /\ \A j \in 1..Len(s) : j # i => t[j] = s[j]
  BY <1>1 DEF ReplaceAt
<1> DEFINE A == Where(s, o)
           B == Where(t, o)
<1>3. A \ {i} = B \ {i}
  BY <1>2 DEF Where
<1>4. (i \in A <=> s[i] = o) /\ (i \in B <=> x = o)
  BY <1>2 DEF Where
<1>5. /\ IsFiniteSet(A) /\ Occurs(s, o) = Cardinality(A) /\ Cardinality(A) \in Nat
      /\ IsFiniteSet(B) /\ Occurs(t, o) = Cardinality(B) /\ Cardinality(B) \in Nat
  BY <1>2, OccursType
<1> HIDE DEF A, B
<1>6. /\ Cardinality(A \ {i}) = Cardinality(A) - One(s[i], o)
      /\ Cardinality(B \ {i}) = Cardinality(B) - One(x, o)
  <2>1. /\ Cardinality(A \ {i}) = IF i \in A THEN Cardinality(A) - 1 ELSE Cardinality(A)
        /\ Cardinality(B \ {i}) = IF i \in B THEN Cardinality(B) - 1 ELSE Cardinality(B)
    BY <1>5, FS_RemoveElement
  <2>2. /\ One(s[i], o) = IF i \in A THEN 1 ELSE 0
        /\ One(x, o) = IF i \in B THEN 1 ELSE 0
    BY <1>4 DEF One
  <2> QED
    BY <1>5, <2>1, <2>2
<1>7. Cardinality(A) - One(s[i], o) = Cardinality(B) - One(x, o)
  BY <1>3, <1>6
<1>8. One(s[i], o) \in Nat /\ One(x, o) \in Nat
  BY DEF One
<1>9. Occurs(t, o) + One(s[i], o) = Occurs(s, o) + One(x, o)
  BY <1>5, <1>7, <1>8
<1> QED
  BY <1>1, <1>2, <1>9

-----------------------------------------------------------------------------
(* What the operations make of a sequence.                                  *)

(* An insertion adds what is inserted.                                      *)
LEMMA Inserted ==
    ASSUME NEW s \in Seq(Cells), NEW i \in 0..Len(s), NEW x \in Cells, NEW o
    PROVE  /\ InsertAt(s, i + 1, x) \in Seq(Cells)
           /\ Len(InsertAt(s, i + 1, x)) = Len(s) + 1
           /\ Occurs(InsertAt(s, i + 1, x), o) = Occurs(s, o) + One(x, o)
<1>1. PICK a, b, n : a = SubSeq(s, 1, i) /\ b = SubSeq(s, i + 1, Len(s)) /\ n = Len(s)
  OBVIOUS
<1>2. n \in Nat /\ i \in Nat /\ i <= n /\ (i + 1) - 1 = i
  BY <1>1, LenProperties
<1>3. a \in Seq(Cells) /\ Len(a) = i /\ b \in Seq(Cells) /\ Len(b) = n - i
  BY <1>1, <1>2, PartIs
<1>4. PICK y, c, d : y = <<x>> /\ c = a \o y /\ d = c \o b
  OBVIOUS
<1>5. y \in Seq(Cells) /\ Len(y) = 1 /\ Occurs(y, o) = One(x, o)
  BY <1>4, OccursOne
<1>6. InsertAt(s, i + 1, x) = d
  BY <1>1, <1>2, <1>4 DEF InsertAt
<1>7. Joins(c, a, y)
  BY <1>3, <1>4, <1>5 DEF Joins
<1>8. /\ c \in Seq(Cells) /\ Len(c) = Len(a) + Len(y)
      /\ Occurs(c, o) = Occurs(a, o) + Occurs(y, o)
  BY <1>7, Cat
<1>9. Joins(d, c, b)
  BY <1>3, <1>4, <1>8 DEF Joins
<1>10. /\ d \in Seq(Cells) /\ Len(d) = Len(c) + Len(b)
       /\ Occurs(d, o) = Occurs(c, o) + Occurs(b, o)
  BY <1>9, Cat
<1>11. Occurs(s, o) = Occurs(a, o) + Occurs(b, o)
  BY <1>1, Split
<1>12. Occurs(a, o) \in Nat /\ Occurs(b, o) \in Nat /\ One(x, o) \in Nat
  BY <1>3, OccursType DEF One
<1>13. Len(d) = n + 1
  BY <1>2, <1>3, <1>5, <1>8, <1>10
<1>14. Occurs(d, o) = Occurs(s, o) + One(x, o)
  BY <1>5, <1>8, <1>10, <1>11, <1>12
<1> QED
  BY <1>1, <1>6, <1>10, <1>13, <1>14

Cuts(t, s, k, m) == t = SubSeq(s, 1, k) \o SubSeq(s, m + 1, Len(s))

(* An erased sequence and what was erased are what there was.               *)
LEMMA Erased ==
    ASSUME NEW s \in Seq(Cells), NEW m \in 0..Len(s), NEW k \in 0..m, NEW o,
           NEW t, Cuts(t, s, k, m)
    PROVE  /\ t \in Seq(Cells)
           /\ Len(t) = Len(s) - (m - k)
           /\ SubSeq(s, k + 1, m) \in Seq(Cells)
           /\ Occurs(t, o) + Occurs(SubSeq(s, k + 1, m), o) = Occurs(s, o)
<1>1. PICK a, b, c, n : /\ a = SubSeq(s, 1, k) /\ b = SubSeq(s, k + 1, m)
                        /\ c = SubSeq(s, m + 1, Len(s)) /\ n = Len(s)
  OBVIOUS
<1>2. n \in Nat /\ m \in Nat /\ k \in Nat /\ k <= m /\ m <= n
  BY <1>1, LenProperties
<1>3. /\ a \in Seq(Cells) /\ Len(a) = k
      /\ b \in Seq(Cells) /\ Len(b) = m - k
      /\ c \in Seq(Cells) /\ Len(c) = n - m
  <2>1. a \in Seq(Cells) /\ Len(a) = k
    BY <1>1, <1>2, PartIs
  <2>2. b \in Seq(Cells) /\ Len(b) = m - k
    BY SMTT(20), <1>1, <1>2, PartIs
  <2>3. c \in Seq(Cells) /\ Len(c) = n - m
    BY SMTT(20), <1>1, <1>2, PartIs
  <2> QED
    BY <2>1, <2>2, <2>3
<1>4. t \in Seq(Cells) /\ Len(t) = Len(a) + Len(c) /\ Occurs(t, o) = Occurs(a, o) + Occurs(c, o)
  <2>1. Joins(t, a, c)
    BY <1>1, <1>3 DEF Joins, Cuts
  <2> QED
    BY <2>1, Cat
<1>5. Occurs(s, o) = Occurs(a, o) + Occurs(b, o) + Occurs(c, o)
  BY <1>1, SplitTwice
<1>6. Occurs(a, o) \in Nat /\ Occurs(b, o) \in Nat /\ Occurs(c, o) \in Nat
  BY <1>3, OccursType
<1>7. Len(t) = n - (m - k) /\ Occurs(t, o) + Occurs(b, o) = Occurs(s, o)
  BY <1>2, <1>3, <1>4, <1>5, <1>6
<1> QED
  BY <1>1, <1>3, <1>4, <1>7

Turns(t, s, k, m) ==
    t = SubSeq(s, 1, k) \o Reverse(SubSeq(s, k + 1, m)) \o SubSeq(s, m + 1, Len(s))

(* Reversing a part keeps every occurrence.                                 *)
LEMMA Turned ==
    ASSUME NEW s \in Seq(Cells), NEW m \in 0..Len(s), NEW k \in 0..m, NEW o,
           NEW t, Turns(t, s, k, m)
    PROVE  /\ t \in Seq(Cells)
           /\ Len(t) = Len(s)
           /\ Occurs(t, o) = Occurs(s, o)
<1>1. PICK a, b, c, n : /\ a = SubSeq(s, 1, k) /\ b = SubSeq(s, k + 1, m)
                        /\ c = SubSeq(s, m + 1, Len(s)) /\ n = Len(s)
  OBVIOUS
<1>2. n \in Nat /\ m \in Nat /\ k \in Nat /\ k <= m /\ m <= n
  BY <1>1, LenProperties
<1>3. /\ a \in Seq(Cells) /\ Len(a) = k
      /\ b \in Seq(Cells) /\ Len(b) = m - k
      /\ c \in Seq(Cells) /\ Len(c) = n - m
  BY SMTT(20), <1>1, <1>2, PartIs
<1>4. PICK r, d : r = Reverse(b) /\ d = a \o r
  OBVIOUS
<1>5. r \in Seq(Cells) /\ Len(r) = m - k /\ Occurs(r, o) = Occurs(b, o)
  BY <1>3, <1>4, OccursReversed
<1>6. Joins(d, a, r)
  BY <1>3, <1>4, <1>5 DEF Joins
<1>7. /\ d \in Seq(Cells) /\ Len(d) = Len(a) + Len(r)
      /\ Occurs(d, o) = Occurs(a, o) + Occurs(r, o)
  BY <1>6, Cat
<1>8. Joins(t, d, c)
  BY <1>1, <1>3, <1>4, <1>7 DEF Joins, Turns
<1>9. /\ t \in Seq(Cells) /\ Len(t) = Len(d) + Len(c)
      /\ Occurs(t, o) = Occurs(d, o) + Occurs(c, o)
  BY <1>8, Cat
<1>10. Occurs(s, o) = Occurs(a, o) + Occurs(b, o) + Occurs(c, o)
  BY <1>1, SplitTwice
<1>11. Len(t) = n
  BY <1>2, <1>3, <1>5, <1>7, <1>9
<1>12. Occurs(t, o) = Occurs(s, o)
  BY <1>5, <1>7, <1>9, <1>10
<1> QED
  BY <1>1, <1>9, <1>11, <1>12

(* Moving an element to the end keeps every occurrence.                     *)
LEMMA Rotated ==
    ASSUME NEW s \in Seq(Cells), NEW i \in 0..Len(s), i < Len(s), NEW o
    PROVE  /\ Append(RemoveAt(s, i + 1), s[i + 1]) \in Seq(Cells)
           /\ Len(Append(RemoveAt(s, i + 1), s[i + 1])) = Len(s)
           /\ Occurs(Append(RemoveAt(s, i + 1), s[i + 1]), o) = Occurs(s, o)
<1>1. PICK n, j, x, u : n = Len(s) /\ j = i + 1 /\ x = s[j] /\ u = RemoveAt(s, j)
  OBVIOUS
<1>2. n \in Nat /\ i \in Nat /\ j \in 1..n /\ j - 1 = i /\ i \in 0..j /\ j \in 0..n
  BY <1>1, LenProperties
<1>3. x \in Cells
  BY <1>1, <1>2, ElementOfSeq
<1>4. Cuts(u, s, i, j)
  BY <1>1, <1>2 DEF RemoveAt, Cuts
<1>5. /\ u \in Seq(Cells) /\ Len(u) = Len(s) - (j - i)
      /\ Occurs(u, o) + Occurs(SubSeq(s, i + 1, j), o) = Occurs(s, o)
  BY <1>1, <1>2, <1>4, Erased
<1>6. SubSeq(s, i + 1, j) = <<x>>
  BY <1>1, <1>2, PartOfOne
<1>7. Occurs(<<x>>, o) = One(x, o)
  BY <1>3, OccursOne
<1>8. PICK t, y : y = <<x>> /\ t = u \o y
  OBVIOUS
<1>9. t = Append(u, x)
  BY <1>3, <1>5, <1>8, AppendIsConcat
<1>10. y \in Seq(Cells) /\ Len(y) = 1 /\ Occurs(y, o) = One(x, o)
  BY <1>3, <1>7, <1>8
<1>11. /\ t \in Seq(Cells) /\ Len(t) = Len(u) + Len(y)
       /\ Occurs(t, o) = Occurs(u, o) + Occurs(y, o)
  <2>1. Joins(t, u, y)
    BY <1>5, <1>8, <1>10 DEF Joins
  <2> QED
    BY <2>1, Cat
<1>12. Len(t) = n
  BY <1>1, <1>2, <1>5, <1>10, <1>11
<1>13. Occurs(t, o) = Occurs(s, o)
  <2>1. Occurs(SubSeq(s, i + 1, j), o) = Occurs(y, o)
    BY <1>6, <1>8
  <2> QED
    BY <1>5, <1>11, <2>1
<1> QED
  BY <1>1, <1>9, <1>11, <1>12, <1>13

-----------------------------------------------------------------------------
(* The places where the vectors have an object.                             *)

(* What a vector may have: cells, no more than fit, or it is not there.     *)
Stored == { s \in Seq(Cells) : Len(s) <= MaxSize } \cup {Absent}

(* How often o is an element of the vector x.                               *)
Own(x, o) == IF x = Absent THEN 0 ELSE Occurs(x, o)

(* The places of o in x, which is vector v.                                 *)
PlacesOf(v, x, o) == IF x = Absent THEN {} ELSE {v} \X Where(x, o)

(* Places, for any vectors.                                                 *)
PlacesIn(ve, o) == UNION { {v} \X Where(ve[v], o) : v \in { x \in Vecs : ve[x] # Absent } }

(* The places in vectors other than v.                                      *)
Others(ve, v, o) == { p \in PlacesIn(ve, o) : p[1] # v }

(* Storage has a vector or none.                                            *)
LEMMA StoredIs ==
    ASSUME NEW x \in Stored
    PROVE  x = Absent \/ (x # Absent /\ x \in Seq(Cells) /\ Len(x) \in 0..MaxSize)
<1>1. CASE x = Absent
  BY <1>1
<1>2. CASE x \in Seq(Cells) /\ Len(x) <= MaxSize
  <2>1. x # Absent
    BY <1>2, AbsentAssumption DEF Cells
  <2>2. Len(x) \in Nat
    BY <1>2, LenProperties
  <2> QED
    BY <1>2, <2>1, <2>2, BoundsAssumption
<1> QED
  BY <1>1, <1>2 DEF Stored

(* The places in one vector are as many as its occurrences.                 *)
LEMMA OwnIs ==
    ASSUME NEW x \in Stored, NEW v, NEW o
    PROVE  /\ IsFiniteSet(PlacesOf(v, x, o))
           /\ Cardinality(PlacesOf(v, x, o)) = Own(x, o)
           /\ Own(x, o) \in Nat
<1>1. CASE x = Absent
  BY <1>1, FS_EmptySet DEF PlacesOf, Own
<1>2. CASE x # Absent
  <2>1. x \in Seq(Cells)
    BY <1>2, StoredIs
  <2> DEFINE W == Where(x, o)
  <2>2. IsFiniteSet(W) /\ Occurs(x, o) = Cardinality(W) /\ Occurs(x, o) \in Nat
    BY <2>1, OccursType
  <2> HIDE DEF W
  <2>3. IsFiniteSet({v}) /\ Cardinality({v}) = 1
    BY FS_Singleton
  <2>4. IsFiniteSet({v} \X W) /\ Cardinality({v} \X W) = 1 * Cardinality(W)
    BY <2>2, <2>3, FS_Product
  <2>5. PlacesOf(v, x, o) = {v} \X W /\ Own(x, o) = Occurs(x, o)
    BY <1>2 DEF PlacesOf, Own, W
  <2> QED
    BY <2>2, <2>4, <2>5
<1> QED
  BY <1>1, <1>2

(* A place is a vector and a position.                                      *)
LEMMA PlacesAre ==
    ASSUME NEW ve, NEW o, NEW p
    PROVE  p \in PlacesIn(ve, o) <=>
              \E v \in Vecs : ve[v] # Absent /\ \E i \in Where(ve[v], o) : p = <<v, i>>
<1>1. ASSUME p \in PlacesIn(ve, o)
      PROVE  \E v \in Vecs : ve[v] # Absent /\ \E i \in Where(ve[v], o) : p = <<v, i>>
  <2>1. PICK v \in Vecs : ve[v] # Absent /\ p \in {v} \X Where(ve[v], o)
    BY <1>1 DEF PlacesIn
  <2>2. PICK i \in Where(ve[v], o) : p = <<v, i>>
    BY <2>1
  <2> QED
    BY <2>1, <2>2
<1>2. ASSUME NEW v \in Vecs, ve[v] # Absent, NEW i \in Where(ve[v], o), p = <<v, i>>
      PROVE  p \in PlacesIn(ve, o)
  <2>1. p \in {v} \X Where(ve[v], o)
    BY <1>2
  <2> QED
    BY <1>2, <2>1 DEF PlacesIn
<1> QED
  BY <1>1, <1>2

(* Finitely many vectors have finitely many places.                         *)
LEMMA PlacesFinite ==
    ASSUME NEW ve \in [Vecs -> Stored], NEW o
    PROVE  IsFiniteSet(PlacesIn(ve, o))
<1>1. IsFiniteSet(1..MaxSize)
  BY FS_Interval, BoundsAssumption
<1>2. IsFiniteSet(Vecs \X (1..MaxSize))
  BY <1>1, FS_Product, VecsAssumption
<1>3. ASSUME NEW v \in Vecs, ve[v] # Absent, NEW i \in Where(ve[v], o)
      PROVE  i \in 1..MaxSize
  <2>1. ve[v] \in Seq(Cells) /\ Len(ve[v]) \in 0..MaxSize
    BY <1>3, StoredIs
  <2>2. i \in 1..Len(ve[v])
    BY <2>1 DEF Where
  <2> QED
    BY <2>1, <2>2, BoundsAssumption
<1>4. PlacesIn(ve, o) \in SUBSET (Vecs \X (1..MaxSize))
  BY <1>3, PlacesAre
<1> QED
  BY <1>2, <1>4, FS_Subset

(* A vector has its own places, apart from those of the others.             *)
LEMMA PlacesSplit ==
    ASSUME NEW ve \in [Vecs -> Stored], NEW v \in Vecs, NEW o
    PROVE  /\ Cardinality(PlacesIn(ve, o))
                = Cardinality(Others(ve, v, o)) + Own(ve[v], o)
           /\ Cardinality(Others(ve, v, o)) \in Nat
           /\ Own(ve[v], o) \in Nat
<1> DEFINE A == Others(ve, v, o)
           B == PlacesOf(v, ve[v], o)
           C == PlacesIn(ve, o)
<1>1. C = A \cup B
  <2>1. ASSUME NEW p \in C
        PROVE  p \in A \cup B
    <3>1. PICK w \in Vecs : ve[w] # Absent /\ \E i \in Where(ve[w], o) : p = <<w, i>>
      BY PlacesAre
    <3>2. CASE w = v
      BY <3>1, <3>2 DEF PlacesOf
    <3>3. CASE w # v
      BY <3>1, <3>3 DEF Others
    <3> QED
      BY <3>2, <3>3
  <2>2. ASSUME NEW p \in B
        PROVE  p \in C
    <3>1. ve[v] # Absent /\ \E i \in Where(ve[v], o) : p = <<v, i>>
      BY DEF PlacesOf
    <3> QED
      BY <3>1, PlacesAre
  <2> QED
    BY <2>1, <2>2 DEF Others
<1>2. A \cap B = {}
  <2>1. \A p \in B : p[1] = v
    BY DEF PlacesOf
  <2> QED
    BY <2>1 DEF Others
<1>3. IsFiniteSet(C) /\ A \in SUBSET C
  BY PlacesFinite DEF Others
<1>4. IsFiniteSet(B) /\ Cardinality(B) = Own(ve[v], o) /\ Own(ve[v], o) \in Nat
  BY OwnIs
<1> HIDE DEF A, B, C
<1>5. IsFiniteSet(A)
  BY <1>3, FS_Subset
<1>6. Cardinality(A) \in Nat
  BY <1>5, FS_CardinalityType
<1>7. Cardinality(A \cup B) = Cardinality(A) + Cardinality(B) - Cardinality(A \cap B)
  BY <1>4, <1>5, FS_Union
<1>8. Cardinality(A \cap B) = 0
  BY <1>2, FS_EmptySet
<1>9. Cardinality(C) = Cardinality(A) + Own(ve[v], o)
  BY <1>1, <1>4, <1>6, <1>7, <1>8
<1> QED
  BY <1>4, <1>6, <1>9 DEF A, C

(* What one vector has makes no difference to the others.                   *)
LEMMA OthersStay ==
    ASSUME NEW ve \in [Vecs -> Stored], NEW v \in Vecs, NEW x \in Stored, NEW o
    PROVE  Others([ve EXCEPT ![v] = x], v, o) = Others(ve, v, o)
<1>1. PICK we : we = [ve EXCEPT ![v] = x]
  OBVIOUS
<1>2. \A w \in Vecs : w # v => we[w] = ve[w]
  BY <1>1
<1>3. ASSUME NEW p
      PROVE  p \in Others(we, v, o) <=> p \in Others(ve, v, o)
  <2>1. ASSUME NEW w \in Vecs, NEW i, p = <<w, i>>
        PROVE  p[1] = w
    BY <2>1
  <2>2. ASSUME p \in Others(we, v, o)
        PROVE  p \in Others(ve, v, o)
    <3>1. PICK w \in Vecs : we[w] # Absent /\ \E i \in Where(we[w], o) : p = <<w, i>>
      BY <2>2, PlacesAre DEF Others
    <3>2. w # v /\ p[1] # v
      BY <2>1, <2>2, <3>1 DEF Others
    <3>3. ve[w] # Absent /\ \E i \in Where(ve[w], o) : p = <<w, i>>
      BY <1>2, <3>1, <3>2
    <3> QED
      BY <3>2, <3>3, PlacesAre DEF Others
  <2>3. ASSUME p \in Others(ve, v, o)
        PROVE  p \in Others(we, v, o)
    <3>1. PICK w \in Vecs : ve[w] # Absent /\ \E i \in Where(ve[w], o) : p = <<w, i>>
      BY <2>3, PlacesAre DEF Others
    <3>2. w # v /\ p[1] # v
      BY <2>1, <2>3, <3>1 DEF Others
    <3>3. we[w] # Absent /\ \E i \in Where(we[w], o) : p = <<w, i>>
      BY <1>2, <3>1, <3>2
    <3> QED
      BY <3>2, <3>3, PlacesAre DEF Others
  <2> QED
    BY <2>2, <2>3
<1>4. Others(we, v, o) = Others(ve, v, o)
  BY <1>3
<1> QED
  BY <1>1, <1>4

-----------------------------------------------------------------------------
(* The inductive invariant.                                                 *)

(* The counters of the objects.                                             *)
Counts == [Objects -> Nat \cup {Corrupt}]

TypeInv == /\ kind \in Kinds
           /\ vec \in [Vecs -> Stored]
           /\ rc \in Counts
           /\ ext \in [Objects -> 0..MaxExt]
           /\ flaw \in {"none", "copy", "assign", "bad_alloc", "freed"}

Inv == TypeInv /\ Counted /\ Separate

(* The cells of a vector have their types.                                  *)
LEMMA TypeInvIsEnough == TypeInv => TypeOK
<1> SUFFICES ASSUME TypeInv
             PROVE  TypeOK
  OBVIOUS
<1>1. ASSUME NEW v \in Vecs, Live(v)
      PROVE  Size(v) <= MaxSize /\ ToSet(vec[v]) \subseteq Pointers \cup {Wild}
  <2>1. vec[v] \in Seq(Cells) /\ Len(vec[v]) \in 0..MaxSize
    BY <1>1, StoredIs DEF TypeInv, Live
  <2>2. Len(vec[v]) <= MaxSize
    BY <2>1, BoundsAssumption
  <2> QED
    BY <2>1, <2>2 DEF Size, ToSet, Pointers, Cells
<1> QED
  BY <1>1 DEF TypeInv, TypeOK, Counts

(* Elements counts the places, now and after a step.                        *)
LEMMA ElementsAre ==
    ASSUME NEW o
    PROVE  /\ Elements(o) = Cardinality(PlacesIn(vec, o))
           /\ Elements(o)' = Cardinality(PlacesIn(vec', o))
BY DEF Elements, Places, PlacesIn, Live, Where

(* What a call makes of the count when it gives one vector x.               *)
Balance(was, is, now, total) ==
    /\ total \in Nat /\ now \in Nat /\ was \in Nat /\ is \in Nat
    /\ was <= total
    /\ now + was = total + is

(* A call gives v what it has then.                                         *)
Puts(v, x) == x \in Stored /\ vec' = [vec EXCEPT ![v] = x]

(* Only the occurrences in that vector change.                              *)
LEMMA ElementsChange ==
    ASSUME TypeInv, NEW v \in Vecs, NEW x, Puts(v, x), NEW o
    PROVE  Balance(Own(vec[v], o), Own(x, o), Elements(o)', Elements(o))
<1>1. vec \in [Vecs -> Stored] /\ x \in Stored
  BY DEF TypeInv, Puts
<1>2. vec' \in [Vecs -> Stored] /\ vec'[v] = x
  BY <1>1 DEF Puts
<1>3. PICK r : r = Cardinality(Others(vec, v, o))
  OBVIOUS
<1>4. Cardinality(Others(vec', v, o)) = r
  BY <1>1, <1>3, OthersStay DEF Puts
<1>5. Elements(o) = r + Own(vec[v], o) /\ r \in Nat /\ Own(vec[v], o) \in Nat
  BY <1>1, <1>3, PlacesSplit, ElementsAre
<1>6. Elements(o)' = r + Own(x, o) /\ Own(x, o) \in Nat
  BY <1>2, <1>4, PlacesSplit, ElementsAre
<1>7. PICK n, m, e, f : /\ n = Own(vec[v], o) /\ m = Own(x, o)
                        /\ e = Elements(o) /\ f = Elements(o)'
  OBVIOUS
<1>8. e = r + n /\ f = r + m /\ r \in Nat /\ n \in Nat /\ m \in Nat
  BY <1>5, <1>6, <1>7
<1>9. Balance(n, m, f, e)
  BY <1>8 DEF Balance
<1> QED
  BY <1>7, <1>9

(* A vector has at most the elements there are.                             *)
LEMMA ElementsType ==
    ASSUME TypeInv, NEW v \in Vecs, NEW o
    PROVE  /\ Elements(o) \in Nat /\ Own(vec[v], o) \in Nat
           /\ Own(vec[v], o) <= Elements(o)
<1>1. PICK r, n : r = Cardinality(Others(vec, v, o)) /\ n = Own(vec[v], o)
  OBVIOUS
<1>2. Elements(o) = r + n /\ r \in Nat /\ n \in Nat
  BY <1>1, PlacesSplit, ElementsAre DEF TypeInv
<1> QED
  BY <1>1, <1>2

(* Before a miscount the counters are what the references are.              *)
LEMMA CountedIs ==
    ASSUME TypeInv, Counted, flaw = "none", NEW o \in Objects
    PROVE  rc[o] = ext[o] + Elements(o)
BY DEF Counted, OwnsElements

-----------------------------------------------------------------------------
(* The calls to the engine.                                                 *)

(* Adding references adds one for each element, when the objects exist.     *)
LEMMA AcquiredIs ==
    ASSUME NEW counts \in Counts, NEW s \in Seq(Cells)
    PROVE  /\ Acquired(counts, s) \in Counts
           /\ \A o \in Objects :
                 Occurs(s, o) = 0 \/ ~IsHandle \/ counts[o] > 0 =>
                    Acquired(counts, s)[o] = counts[o] + Occurs(s, o)
<1>1. ASSUME NEW o \in Objects
      PROVE  /\ Acquired(counts, s)[o] \in Nat \cup {Corrupt}
             /\ Occurs(s, o) = 0 \/ ~IsHandle \/ counts[o] > 0 =>
                   Acquired(counts, s)[o] = counts[o] + Occurs(s, o)
  <2>1. PICK n, c : n = Occurs(s, o) /\ c = counts[o]
    OBVIOUS
  <2>2. n \in Nat /\ c \in Nat \cup {Corrupt}
    BY <2>1, OccursType DEF Counts
  <2>3. Acquired(counts, s)[o] = IF n = 0 THEN c
                                 ELSE IF IsHandle /\ c <= 0 THEN Corrupt ELSE c + n
    BY <2>1 DEF Acquired
  <2>4. c \in Int /\ c >= -1 /\ (n # 0 => c + n \in Nat)
    BY <2>2 DEF Corrupt
  <2> QED
    BY <2>1, <2>2, <2>3, <2>4
<1>2. Acquired(counts, s) = [o \in Objects |-> Acquired(counts, s)[o]]
  BY DEF Acquired
<1> QED
  BY <1>1, <1>2 DEF Counts

(* Releasing takes one for each element, when there are as many.            *)
LEMMA ReleasedIs ==
    ASSUME NEW counts \in Counts, NEW s \in Seq(Cells)
    PROVE  /\ Released(counts, s) \in Counts
           /\ \A o \in Objects :
                 counts[o] >= Occurs(s, o) =>
                    Released(counts, s)[o] = counts[o] - Occurs(s, o)
<1>1. ASSUME NEW o \in Objects
      PROVE  /\ Released(counts, s)[o] \in Nat \cup {Corrupt}
             /\ counts[o] >= Occurs(s, o) =>
                   Released(counts, s)[o] = counts[o] - Occurs(s, o)
  <2>1. PICK n, c : n = Occurs(s, o) /\ c = counts[o]
    OBVIOUS
  <2>2. n \in Nat /\ c \in Nat \cup {Corrupt}
    BY <2>1, OccursType DEF Counts
  <2>3. Released(counts, s)[o] = IF n = 0 THEN c ELSE IF c < n THEN Corrupt ELSE c - n
    BY <2>1 DEF Released
  <2>4. c \in Int /\ (~(c < n) => c - n \in Nat)
    BY <2>2 DEF Corrupt
  <2> QED
    BY <2>1, <2>2, <2>3, <2>4
<1>2. Released(counts, s) = [o \in Objects |-> Released(counts, s)[o]]
  BY DEF Released
<1> QED
  BY <1>1, <1>2 DEF Counts

-----------------------------------------------------------------------------
(* What a call may do to one vector, for each object.                       *)

(* What is added has references: handles to objects that are held or        *)
(* elements already, or objects that are new.                               *)
Fresh(s) ==
    /\ s \in Seq(Cells)
    /\ \A o \in Objects : Occurs(s, o) > 0 =>
          IF IsHandle THEN ext[o] > 0 \/ Elements(o) > 0
                      ELSE rc[o] = 0 /\ Occurs(s, o) <= 1

(* v has what it had and s.                                                 *)
Gains(v, x, s) == \A o \in Objects : Own(x, o) = Own(vec[v], o) + Occurs(s, o)

(* v has what it had but s.                                                 *)
Loses(v, x, s) == \A o \in Objects : Own(vec[v], o) = Own(x, o) + Occurs(s, o)

(* v has what it had, in any order.                                         *)
Same(v, x) == \A o \in Objects : Own(x, o) = Own(vec[v], o)

(* A call that leaves everything else alone.                                *)
Only(v, x) == Puts(v, x) /\ UNCHANGED <<kind, ext, flaw>>

(* A call leaves each storage with a vector or none.                        *)
LEMMA PutsType ==
    ASSUME TypeInv, NEW v \in Vecs, NEW x, Puts(v, x)
    PROVE  vec' \in [Vecs -> Stored]
BY DEF TypeInv, Puts

(* After the first miscount there is nothing left to say.                   *)
LEMMA FlawedIsInv ==
    ASSUME TypeInv', flaw' # "none"
    PROVE  Inv'
BY DEF Inv, Counted, Separate

(* Elements and their references are added together.                        *)
LEMMA GainsIsRight ==
    ASSUME Inv, NEW v \in Vecs, NEW x, NEW s, Fresh(s), Gains(v, x, s), Only(v, x),
           rc' = Acquired(rc, s)
    PROVE  Inv'
<1>1. TypeInv /\ s \in Seq(Cells)
  BY DEF Inv, Fresh
<1>2. TypeInv'
  BY <1>1, AcquiredIs, PutsType DEF Only, TypeInv
<1>3. ASSUME NEW o \in Objects, flaw = "none"
      PROVE  /\ rc'[o] = ext'[o] + Elements(o)'
             /\ ~IsHandle /\ Elements(o) <= 1 => Elements(o)' <= 1
  <2>1. PICK n, was, is, now, total, c, e :
           /\ n = Occurs(s, o) /\ was = Own(vec[v], o) /\ is = Own(x, o)
           /\ now = Elements(o)' /\ total = Elements(o) /\ c = rc[o] /\ e = ext[o]
    OBVIOUS
  <2>2. Balance(was, is, now, total) /\ is = was + n /\ n \in Nat
    BY <1>1, <2>1, ElementsChange, OccursType DEF Gains, Only
  <2>3. c = e + total /\ e \in Nat
    BY <1>1, <1>3, <2>1, CountedIs, BoundsAssumption DEF Inv, TypeInv
  <2>4. n > 0 => IF IsHandle THEN e > 0 \/ total > 0 ELSE c = 0 /\ n <= 1
    BY <2>1 DEF Fresh
  <2>5. n = 0 \/ ~IsHandle \/ c > 0
    BY <2>2, <2>3, <2>4 DEF Balance
  <2>6. rc'[o] = c + n
    BY <1>1, <2>1, <2>5, AcquiredIs DEF TypeInv
  <2>7. now = total + n
    BY <2>2 DEF Balance
  <2>8. c + n = e + now
    BY <2>2, <2>3, <2>7 DEF Balance
  <2>9. ext'[o] = e
    BY <2>1 DEF Only
  <2>10. ~IsHandle /\ total <= 1 => now <= 1
    BY <2>2, <2>3, <2>4, <2>7 DEF Balance
  <2> QED
    BY <2>1, <2>6, <2>8, <2>9, <2>10
<1> QED
  BY <1>2, <1>3 DEF Inv, Counted, OwnsElements, Separate, Only, IsHandle

(* They go together: before a miscount each element has its reference, so   *)
(* there are enough to release.                                             *)
LEMMA LosesIsRight ==
    ASSUME Inv, NEW v \in Vecs, NEW x, NEW s \in Seq(Cells), Loses(v, x, s), Only(v, x),
           rc' = Released(rc, s)
    PROVE  Inv'
<1>1. TypeInv
  BY DEF Inv
<1>2. TypeInv'
  BY <1>1, ReleasedIs, PutsType DEF Only, TypeInv
<1>3. ASSUME NEW o \in Objects, flaw = "none"
      PROVE  /\ rc'[o] = ext'[o] + Elements(o)'
             /\ Elements(o) <= 1 => Elements(o)' <= 1
  <2>1. PICK n, was, is, now, total, c, e :
           /\ n = Occurs(s, o) /\ was = Own(vec[v], o) /\ is = Own(x, o)
           /\ now = Elements(o)' /\ total = Elements(o) /\ c = rc[o] /\ e = ext[o]
    OBVIOUS
  <2>2. Balance(was, is, now, total) /\ was = is + n /\ n \in Nat
    BY <1>1, <2>1, ElementsChange, OccursType DEF Loses, Only
  <2>3. c = e + total /\ e \in Nat
    BY <1>1, <1>3, <2>1, CountedIs, BoundsAssumption DEF Inv, TypeInv
  <2>4. now + n = total /\ c >= n
    BY <2>2, <2>3 DEF Balance
  <2>5. rc'[o] = c - n
    BY <1>1, <2>1, <2>4, ReleasedIs DEF TypeInv
  <2>6. c - n = e + now /\ (total <= 1 => now <= 1)
    BY <2>2, <2>3, <2>4 DEF Balance
  <2>7. ext'[o] = e
    BY <2>1 DEF Only
  <2> QED
    BY <2>1, <2>5, <2>6, <2>7
<1> QED
  BY <1>2, <1>3 DEF Inv, Counted, OwnsElements, Separate, Only, IsHandle

(* Another order of the same elements needs no reference.                   *)
LEMMA SameIsRight ==
    ASSUME Inv, NEW v \in Vecs, NEW x, Same(v, x), Only(v, x), UNCHANGED rc
    PROVE  Inv'
<1>1. TypeInv
  BY DEF Inv
<1>2. TypeInv'
  BY <1>1, PutsType DEF Only, TypeInv
<1>3. ASSUME NEW o \in Objects
      PROVE  Elements(o)' = Elements(o)
  <2>1. PICK was, is, now, total :
           /\ was = Own(vec[v], o) /\ is = Own(x, o)
           /\ now = Elements(o)' /\ total = Elements(o)
    OBVIOUS
  <2>2. Balance(was, is, now, total) /\ is = was
    BY <1>1, <2>1, ElementsChange DEF Same, Only
  <2>3. now = total
    BY <2>2 DEF Balance
  <2> QED
    BY <2>1, <2>3
<1> QED
  BY <1>2, <1>3 DEF Inv, Counted, OwnsElements, Separate, Only, IsHandle

(* Nothing about the vectors changes.                                       *)
LEMMA StillIsRight ==
    ASSUME Inv, UNCHANGED <<kind, vec, rc, ext, flaw>>
    PROVE  Inv'
<1>1. \A o : Elements(o)' = Elements(o)
  BY ElementsAre
<1> QED
  BY <1>1 DEF Inv, TypeInv, Counted, OwnsElements, Separate, IsHandle

-----------------------------------------------------------------------------
(* Elements that are added.                                                 *)

(* A sequence within the bound is a vector.                                 *)
LEMMA OwnOfSeq ==
    ASSUME NEW x \in Seq(Cells), Len(x) <= MaxSize
    PROVE  /\ x \in Stored /\ x # Absent
           /\ \A o : Own(x, o) = Occurs(x, o)
<1>1. x # Absent
  BY AbsentAssumption DEF Cells
<1> QED
  BY <1>1 DEF Stored, Own

(* What a constructed vector has.                                           *)
LEMMA LiveIs ==
    ASSUME TypeInv, NEW v \in Vecs, Live(v)
    PROVE  /\ vec[v] \in Seq(Cells)
           /\ Len(vec[v]) \in Nat /\ Len(vec[v]) <= MaxSize
           /\ Size(v) = Len(vec[v])
           /\ \A o : Own(vec[v], o) = Occurs(vec[v], o)
<1>1. vec[v] \in Seq(Cells) /\ Len(vec[v]) \in 0..MaxSize
  BY StoredIs DEF TypeInv, Live
<1> QED
  BY <1>1, OwnOfSeq, BoundsAssumption DEF Size

(* Storage without a vector has no elements.                                *)
LEMMA DeadOwnsNothing ==
    ASSUME NEW v, ~Live(v), NEW o
    PROVE  Own(vec[v], o) = 0
BY DEF Live, Own

(* Objects made for the elements are new, one for each.                     *)
LEMMA DistinctIsFresh ==
    ASSUME ~IsHandle, NEW s \in Seq(Free \cup {Null}), Distinct(s)
    PROVE  Fresh(s)
<1>1. s \in Seq(Cells) /\ Len(s) \in Nat
  BY DEF Free, Cells
<1>2. ASSUME NEW o \in Objects, Occurs(s, o) > 0
      PROVE  rc[o] = 0 /\ Occurs(s, o) <= 1
  <2>1. o # Null
    BY PointersAssumption
  <2>2. PICK i \in 1..Len(s) : s[i] = o
    BY <1>1, <1>2, OccursSomewhere
  <2>3. o \in Free
    BY <2>1, <2>2, ElementOfSeq
  <2>4. \A j, k \in 1..Len(s) : s[j] = o /\ s[k] = o => j = k
    BY <2>1 DEF Distinct
  <2> QED
    BY <1>1, <2>3, <2>4, OccursAtMostOnce DEF Free
<1> QED
  BY <1>1, <1>2 DEF Fresh

(* A handle that is passed in has an object that is held or an element.     *)
LEMMA ArgIsHeld ==
    ASSUME TypeInv, NEW a \in Args, a \in Objects
    PROVE  ext[a] > 0 \/ Elements(a) > 0
<1>1. SUFFICES ASSUME NEW v \in Vecs, Live(v), a \in ToSet(vec[v])
               PROVE  Elements(a) > 0
  BY PointersAssumption DEF Args, HasElement
<1>2. vec \in [Vecs -> Stored] /\ vec[v] \in Seq(Cells) /\ vec[v] # Absent
  BY <1>1, LiveIs DEF TypeInv, Live
<1>3. PICK i \in 1..Len(vec[v]) : vec[v][i] = a
  BY <1>1, <1>2 DEF ToSet
<1>4. <<v, i>> \in PlacesIn(vec, a)
  BY <1>2, <1>3, PlacesAre DEF Where
<1>5. IsFiniteSet(PlacesIn(vec, a))
  BY <1>2, PlacesFinite
<1> QED
  BY <1>4, <1>5, ElementsAre, FS_EmptySet, FS_CardinalityType

(* So copies of it are of an object that exists.                            *)
LEMMA RepeatedIsFresh ==
    ASSUME TypeInv, IsHandle, NEW n \in Nat, NEW a \in Args, NEW s \in Repeated(n, a)
    PROVE  Fresh(s) /\ Len(s) = n
<1>1. a \in Cells /\ (a \in Objects => ext[a] > 0 \/ Elements(a) > 0)
  BY ArgIsHeld, PointersAssumption DEF Args, Cells
<1>2. s = [i \in 1..n |-> a]
  BY DEF Repeated
<1>3. s \in Seq(Cells) /\ Len(s) = n
  <2>1. s \in [1..n -> Cells]
    BY <1>1, <1>2
  <2> QED
    BY <2>1
<1>4. ASSUME NEW o \in Objects, Occurs(s, o) > 0
      PROVE  ext[o] > 0 \/ Elements(o) > 0
  <2>1. PICK i \in 1..Len(s) : s[i] = o
    BY <1>3, <1>4, OccursSomewhere
  <2>2. o = a
    BY <1>2, <1>3, <2>1
  <2> QED
    BY <1>1, <2>2
<1> QED
  BY <1>3, <1>4 DEF Fresh

(* The loop that creates makes at most n objects, all different.            *)
LEMMA CreatedIs ==
    ASSUME NEW n \in Nat, NEW s \in Created(n)
    PROVE  /\ s \in Seq(Free) /\ s \in Seq(Free \cup {Null}) /\ s \in Seq(Objects)
           /\ Len(s) \in Nat /\ Len(s) <= n
           /\ Distinct(s)
<1>1. PICK k \in 0..n : s \in [1..k -> Free]
  BY DEF Created
<1>2. k \in Nat /\ k <= n
  OBVIOUS
<1>3. /\ s \in [1..k -> Free \cup {Null}]
      /\ s \in [1..k -> Objects]
  BY <1>1 DEF Free
<1>4. /\ s \in Seq(Free) /\ Len(s) = k
      /\ s \in Seq(Free \cup {Null})
      /\ s \in Seq(Objects)
  BY <1>1, <1>2, <1>3
<1> QED
  BY <1>2, <1>4 DEF Created

(* Either way, what is added has references of its own.                     *)
LEMMA CopiesAreFresh ==
    ASSUME TypeInv, NEW n \in Nat, NEW a \in Args, NEW s \in Copies(n, a)
    PROVE  Fresh(s) /\ Len(s) \in Nat /\ Len(s) <= n
<1>1. CASE IsHandle
  BY <1>1, RepeatedIsFresh DEF Copies
<1>2. CASE ~IsHandle
  <2>1. s \in Created(n)
    BY <1>2 DEF Copies
  <2> QED
    BY <1>2, <2>1, CreatedIs, DistinctIsFresh
<1> QED
  BY <1>1, <1>2

(* push_back and emplace_back: as many elements as could be made.           *)
LEMMA AppendsIsRight ==
    ASSUME Inv, NEW v \in Vecs, NEW n \in Nat, NEW a \in Args, Appends(v, n, Copies(n, a))
    PROVE  Inv'
<1>1. TypeInv /\ Live(v)
  BY DEF Inv, Appends
<1>2. PICK s \in Copies(n, a) : /\ Becomes(v, vec[v] \o s)
                                /\ rc' = Acquired(rc, s)
  BY DEF Appends
<1>3. Fresh(s) /\ s \in Seq(Cells) /\ Len(s) \in Nat /\ Len(s) <= n
  BY <1>1, CopiesAreFresh DEF Fresh
<1>4. PICK u, x : u = vec[v] /\ x = u \o s
  OBVIOUS
<1>5. u \in Seq(Cells) /\ Len(u) \in Nat /\ Len(u) + n <= MaxSize
  BY <1>1, <1>4, LiveIs DEF Appends
<1>6. Joins(x, u, s)
  BY <1>3, <1>4, <1>5 DEF Joins
<1>7. x \in Seq(Cells) /\ Len(x) = Len(u) + Len(s)
  BY <1>6, Cat
<1>8. Len(x) <= MaxSize
  BY <1>3, <1>5, <1>7, BoundsAssumption
<1>9. Gains(v, x, s)
  <2>1. \A o \in Objects : Occurs(x, o) = Occurs(u, o) + Occurs(s, o)
    BY <1>6, Cat
  <2>2. \A o : Own(u, o) = Occurs(u, o) /\ Own(x, o) = Occurs(x, o)
    BY <1>1, <1>4, <1>7, <1>8, LiveIs, OwnOfSeq
  <2> QED
    BY <1>4, <2>1, <2>2 DEF Gains
<1>10. Only(v, x)
  BY <1>2, <1>4, <1>7, <1>8, OwnOfSeq DEF Only, Puts, Becomes, Appends
<1> QED
  BY <1>2, <1>3, <1>9, <1>10, GainsIsRight

(* What is read from a freed slot is a miscount.                            *)
LEMMA PushBackFreedIsRight ==
    ASSUME Inv, NEW v \in Vecs, NEW n \in 1..MaxSize, PushBackFreed(v, n)
    PROVE  Inv'
<1>1. PICK s \in [1..n -> Cells] : /\ Becomes(v, vec[v] \o s)
                                   /\ rc' = Acquired(rc, s)
  BY DEF PushBackFreed, Pointers, Cells
<1>2. n \in Nat /\ MaxSize \in Nat
  BY BoundsAssumption
<1>3. s \in Seq(Cells) /\ Len(s) = n
  BY <1>1, <1>2
<1>4. PICK u, x : u = vec[v] /\ x = u \o s
  OBVIOUS
<1>5. TypeInv /\ u \in Seq(Cells) /\ Len(u) \in Nat /\ Len(u) + n <= MaxSize
  BY <1>4, LiveIs DEF Inv, PushBackFreed
<1>6. Joins(x, u, s)
  BY <1>3, <1>4, <1>5 DEF Joins
<1>7. x \in Seq(Cells) /\ Len(x) = Len(u) + Len(s)
  BY <1>6, Cat
<1>8. x \in Stored
  BY <1>2, <1>3, <1>5, <1>7, OwnOfSeq
<1>9. vec' \in [Vecs -> Stored]
  BY <1>1, <1>4, <1>5, <1>8 DEF TypeInv, Becomes
<1>10. rc' \in Counts
  BY <1>1, <1>3, <1>5, AcquiredIs DEF TypeInv
<1>11. flaw' # "none" /\ flaw' \in {"none", "copy", "assign", "bad_alloc", "freed"}
  BY <1>5 DEF PushBackFreed, Flawed, TypeInv
<1>12. UNCHANGED <<kind, ext>>
  BY DEF PushBackFreed
<1> QED
  BY <1>5, <1>9, <1>10, <1>11, <1>12, FlawedIsInv DEF TypeInv

(* emplace_back copies null handles or creates objects.                     *)
LEMMA EmplaceIsAppends ==
    ASSUME NEW v, NEW n, EmplaceBackN(v, n)
    PROVE  Null \in Args /\ Appends(v, n, Copies(n, Null))
BY DEF EmplaceBackN, Copies, Args

(* A list of values is copied.                                              *)
LEMMA CtorFromValuesIsRight ==
    ASSUME Inv, NEW v \in Vecs, NEW s, CtorFromValues(v, s)
    PROVE  Inv'
<1>1. PICK n \in 1..MaxSize : s \in [1..n -> Free \cup {Null}]
  BY DEF CtorFromValues
<1>2. s \in Seq(Free \cup {Null}) /\ Len(s) <= MaxSize
  <2>1. n \in Nat /\ n <= MaxSize
    BY BoundsAssumption
  <2> QED
    BY <1>1, <2>1
<1>3. Fresh(s) /\ s \in Seq(Cells)
  BY <1>2, DistinctIsFresh DEF CtorFromValues, IsHandle, Fresh
<1>4. Gains(v, s, s)
  <2>1. \A o \in Objects : Own(vec[v], o) = 0 /\ Own(s, o) = Occurs(s, o) /\ Occurs(s, o) \in Nat
    BY <1>2, <1>3, DeadOwnsNothing, OwnOfSeq, OccursType DEF CtorFromValues
  <2> QED
    BY <2>1 DEF Gains
<1>5. Only(v, s)
  BY <1>2, <1>3, OwnOfSeq DEF Only, Puts, Becomes, CtorFromValues
<1> QED
  BY <1>3, <1>4, <1>5, GainsIsRight DEF CtorFromValues

(* One element is s[1].                                                     *)
LEMMA OneFresh ==
    ASSUME TypeInv, NEW a \in Args, NEW s \in Copies(1, a), s # << >>
    PROVE  /\ Fresh(s) /\ s = <<s[1]>> /\ s[1] \in Cells
           /\ \A o : Occurs(s, o) = One(s[1], o)
<1>1. Fresh(s) /\ s \in Seq(Cells) /\ Len(s) \in Nat /\ Len(s) <= 1
  BY CopiesAreFresh DEF Fresh
<1>2. Len(s) = 1 /\ s[1] \in Cells /\ s = <<s[1]>>
  <2>1. Len(s) # 0
    BY <1>1, EmptySeq
  <2>2. Len(s) = 1
    <3>1. PICK n : n = Len(s)
      OBVIOUS
    <3>2. n \in Nat /\ n <= 1 /\ n # 0
      BY <1>1, <2>1, <3>1
    <3>3. n = 1
      BY <3>2
    <3> QED
      BY <3>1, <3>3
  <2>3. s[1] \in Cells
    BY <1>1, <2>2, ElementOfSeq
  <2> QED
    BY <1>1, <2>2, <2>3
<1>3. ASSUME NEW o
      PROVE  Occurs(s, o) = One(s[1], o)
  <2>1. PICK y : y = s[1]
    OBVIOUS
  <2>2. y \in Cells /\ s = <<y>>
    BY <1>2, <2>1
  <2>3. Occurs(<<y>>, o) = One(y, o)
    BY <2>2, OccursOne
  <2> QED
    BY <2>1, <2>2, <2>3
<1> QED
  BY <1>1, <1>2, <1>3

(* insert_one moves the others and adds the copy.                           *)
LEMMA InsertOneIsRight ==
    ASSUME Inv, NEW v \in Vecs, NEW where \in Positions, NEW a \in Args,
           InsertOne(v, where, a)
    PROVE  Inv'
<1>1. TypeInv /\ Live(v) /\ where < Size(v) /\ Size(v) < MaxSize
  BY DEF Inv, InsertOne
<1>2. PICK s \in Copies(1, a) :
         IF s = << >> THEN UNCHANGED <<vec, rc>>
         ELSE Becomes(v, InsertAt(vec[v], where + 1, s[1])) /\ rc' = Acquired(rc, s)
  BY DEF InsertOne
<1>3. UNCHANGED <<kind, ext, flaw>>
  BY DEF InsertOne
<1>4. CASE s = << >>
  BY <1>2, <1>3, <1>4, StillIsRight
<1>5. CASE s # << >>
  <2>1. PICK u, y, x : u = vec[v] /\ y = s[1] /\ x = InsertAt(u, where + 1, y)
    OBVIOUS
  <2>2. /\ u \in Seq(Cells) /\ Len(u) \in Nat /\ Size(v) = Len(u)
        /\ \A o : Own(u, o) = Occurs(u, o)
    BY <1>1, <2>1, LiveIs
  <2>3. Fresh(s) /\ y \in Cells /\ \A o : Occurs(s, o) = One(y, o)
    BY <1>1, <1>5, <2>1, OneFresh
  <2>4. where \in 0..Len(u)
    BY <1>1, <2>2, BoundsAssumption DEF Positions
  <2>5. /\ x \in Seq(Cells) /\ Len(x) = Len(u) + 1
        /\ \A o : Occurs(x, o) = Occurs(u, o) + One(y, o)
    BY <2>1, <2>2, <2>3, <2>4, Inserted
  <2>6. Len(x) <= MaxSize
    BY <1>1, <2>2, <2>5, BoundsAssumption
  <2>7. x \in Stored /\ \A o : Own(x, o) = Occurs(x, o)
    BY <2>5, <2>6, OwnOfSeq
  <2>8. Gains(v, x, s)
    BY <2>1, <2>2, <2>3, <2>5, <2>7 DEF Gains
  <2>9. Only(v, x)
    BY <1>2, <1>3, <1>5, <2>1, <2>7 DEF Only, Puts, Becomes
  <2> QED
    BY <1>2, <1>5, <2>3, <2>8, <2>9, GainsIsRight
<1> QED
  BY <1>4, <1>5

(* Without memory the copy is lost: a miscount, unless it is null.          *)
LEMMA InsertOneNoMemoryIsRight ==
    ASSUME Inv, NEW v \in Vecs, NEW where, NEW a \in Args,
           InsertOneNoMemory(v, where, a)
    PROVE  Inv'
<1>1. PICK s \in Copies(1, a) \ {<< >>} :
         /\ rc' = Acquired(rc, s)
         /\ IF s = <<Null>> THEN UNCHANGED flaw ELSE Flawed("bad_alloc")
  BY DEF InsertOneNoMemory
<1>2. UNCHANGED <<kind, vec, ext>>
  BY DEF InsertOneNoMemory
<1>3. Fresh(s) /\ s \in Seq(Cells) /\ \A o : Occurs(s, o) = One(s[1], o)
  BY OneFresh DEF Inv, Fresh
<1>4. TypeInv
  BY DEF Inv
<1>5. rc' \in Counts
  BY <1>1, <1>3, <1>4, AcquiredIs DEF TypeInv
<1>6. CASE s = <<Null>>
  <2>1. \A o \in Objects : Occurs(s, o) = 0
    BY <1>3, <1>6, PointersAssumption DEF One
  <2>2. \A o \in Objects : rc[o] \in Int /\ rc'[o] = rc[o] + 0
    BY <1>1, <1>3, <1>4, <2>1, AcquiredIs DEF TypeInv, Counts, Corrupt
  <2>3. \A o \in Objects : rc'[o] = rc[o]
    BY <2>2
  <2>4. rc' = rc
    BY <1>4, <1>5, <2>3 DEF TypeInv, Counts
  <2> QED
    BY <1>1, <1>2, <1>6, <2>4, StillIsRight
<1>7. CASE s # <<Null>>
  <2>1. flaw' # "none" /\ flaw' \in {"none", "copy", "assign", "bad_alloc", "freed"}
    BY <1>1, <1>4, <1>7 DEF Flawed, TypeInv
  <2> QED
    BY <1>2, <1>4, <1>5, <2>1, FlawedIsInv DEF TypeInv
<1> QED
  BY <1>6, <1>7

(* Assigning to an object leaves it its reference; a null element gets an   *)
(* object.                                                                  *)
LEMMA AssignObjectIsRight ==
    ASSUME Inv, NEW v \in Vecs, NEW where \in Positions, AssignObject(v, where)
    PROVE  Inv'
<1>1. TypeInv /\ Live(v) /\ where < Size(v) /\ ~IsHandle
  BY DEF Inv, AssignObject
<1>2. UNCHANGED <<kind, ext, flaw>>
  BY DEF AssignObject
<1>3. CASE UNCHANGED <<vec, rc>>
  BY <1>2, <1>3, StillIsRight
<1>4. ASSUME vec[v][where + 1] = Null, NEW s \in Created(1), s # << >>,
             Becomes(v, ReplaceAt(vec[v], where + 1, s[1])), rc' = Acquired(rc, s)
      PROVE  Inv'
  <2>1. PICK u, i, y, x : /\ u = vec[v] /\ i = where + 1 /\ y = s[1]
                          /\ x = ReplaceAt(u, i, y)
    OBVIOUS
  <2>2. /\ u \in Seq(Cells) /\ Len(u) \in Nat /\ Size(v) = Len(u) /\ Len(u) <= MaxSize
        /\ \A o : Own(u, o) = Occurs(u, o)
    BY <1>1, <2>1, LiveIs
  <2>3. Null \in Args /\ s \in Copies(1, Null)
    BY <1>1 DEF Args, Copies
  <2>4. Fresh(s) /\ y \in Cells /\ \A o : Occurs(s, o) = One(y, o)
    BY <1>1, <1>4, <2>1, <2>3, OneFresh
  <2>5. i \in 1..Len(u)
    BY <1>1, <2>1, <2>2, BoundsAssumption DEF Positions
  <2>6. /\ x \in Seq(Cells) /\ Len(x) = Len(u)
        /\ \A o : Occurs(x, o) + One(u[i], o) = Occurs(u, o) + One(y, o)
    <3>1. x \in Seq(Cells) /\ Len(x) = Len(u)
      BY <2>1, <2>2, <2>4, <2>5, OccursReplaced
    <3>2. ASSUME NEW o
          PROVE  Occurs(x, o) + One(u[i], o) = Occurs(u, o) + One(y, o)
      BY <2>1, <2>2, <2>4, <2>5, OccursReplaced
    <3> QED
      BY <3>1, <3>2
  <2>7. x \in Stored /\ \A o : Own(x, o) = Occurs(x, o)
    BY <2>2, <2>6, OwnOfSeq
  <2>8. ASSUME NEW o \in Objects
        PROVE  Own(x, o) = Own(u, o) + Occurs(s, o)
    <3>1. One(u[i], o) = 0
      BY <1>4, <2>1, PointersAssumption DEF One
    <3>2. Occurs(x, o) \in Nat
      BY <2>6, OccursType
    <3>3. Occurs(x, o) + 0 = Occurs(u, o) + One(y, o)
      BY <2>6, <3>1
    <3> QED
      BY <2>2, <2>4, <2>7, <3>2, <3>3
  <2>9. Gains(v, x, s)
    BY <2>1, <2>8 DEF Gains
  <2>10. Only(v, x)
    BY <1>2, <1>4, <2>1, <2>7 DEF Only, Puts, Becomes
  <2> QED
    BY <1>4, <2>4, <2>9, <2>10, GainsIsRight
<1> QED
  BY <1>3, <1>4 DEF AssignObject

-----------------------------------------------------------------------------
(* Construction, and elements that change hands.                            *)

(* A new vector has no elements.                                            *)
LEMMA CtorIsRight ==
    ASSUME Inv, NEW v \in Vecs, Ctor(v)
    PROVE  Inv'
<1>1. << >> \in Seq(Cells) /\ Len(<< >>) <= MaxSize
  BY BoundsAssumption
<1>2. Only(v, << >>)
  BY <1>1, OwnOfSeq DEF Ctor, Becomes, Only, Puts
<1>3. Same(v, << >>)
  BY <1>1, OwnOfSeq, OccursEmpty, DeadOwnsNothing DEF Ctor, Same
<1> QED
  BY <1>2, <1>3, SameIsRight DEF Ctor

(* A copy of elements is a miscount; a copy of none is a new vector.        *)
LEMMA CopyCtorIsRight ==
    ASSUME Inv, NEW v \in Vecs, NEW w \in Vecs, CopyCtor(v, w)
    PROVE  Inv'
<1>1. PICK u, x : u = vec[w] /\ x = IF IsHandle THEN [i \in DOMAIN u |-> Wild] ELSE u
  OBVIOUS
<1>2. TypeInv /\ u \in Seq(Cells) /\ Len(u) \in Nat /\ Len(u) <= MaxSize
  BY <1>1, LiveIs DEF Inv, CopyCtor
<1>3. x \in Seq(Cells) /\ Len(x) = Len(u)
  <2>1. CASE IsHandle
    <3>1. x = [i \in 1..Len(u) |-> Wild]
      BY <1>1, <1>2, <2>1
    <3>2. x \in [1..Len(u) -> Cells]
      BY <3>1 DEF Cells
    <3> QED
      BY <1>2, <3>2
  <2>2. CASE ~IsHandle
    BY <1>1, <1>2, <2>2
  <2> QED
    BY <2>1, <2>2
<1>4. x \in Stored /\ \A o : Own(x, o) = Occurs(x, o)
  BY <1>2, <1>3, OwnOfSeq
<1>5. Puts(v, x) /\ UNCHANGED <<kind, rc, ext>>
  BY <1>1, <1>4 DEF CopyCtor, Becomes, Puts
<1>6. CASE u = << >>
  <2>1. x = << >>
    BY <1>3, <1>6, EmptySeq
  <2>2. Same(v, x)
    BY <1>4, <2>1, OccursEmpty, DeadOwnsNothing DEF CopyCtor, Same
  <2>3. UNCHANGED flaw
    BY <1>1, <1>6 DEF CopyCtor
  <2> QED
    BY <1>5, <2>2, <2>3, SameIsRight DEF Only
<1>7. CASE u # << >>
  <2>1. Flawed("copy")
    BY <1>1, <1>7 DEF CopyCtor
  <2>2. flaw' # "none" /\ flaw' \in {"none", "copy", "assign", "bad_alloc", "freed"}
    BY <1>2, <2>1 DEF Flawed, TypeInv
  <2>3. vec' \in [Vecs -> Stored]
    BY <1>2, <1>5, PutsType
  <2> QED
    BY <1>2, <1>5, <2>2, <2>3, FlawedIsInv DEF TypeInv
<1> QED
  BY <1>6, <1>7

(* Two vectors change: one has the elements of the other, which has none.   *)
LEMMA MoveCtorIsRight ==
    ASSUME Inv, NEW v \in Vecs, NEW w \in Vecs, MoveCtor(v, w)
    PROVE  Inv'
<1>1. PICK u, ve : u = vec[w] /\ ve = [vec EXCEPT ![v] = u]
  OBVIOUS
<1>2. /\ TypeInv /\ vec \in [Vecs -> Stored]
      /\ u \in Stored /\ vec[v] = Absent /\ v # w
  BY <1>1 DEF Inv, TypeInv, MoveCtor, Live
<1>3. vec' = [ve EXCEPT ![w] = << >>]
  BY <1>1 DEF MoveCtor
<1>4. ve \in [Vecs -> Stored] /\ ve[v] = u /\ ve[w] = u
  BY <1>1, <1>2
<1>5. << >> \in Stored /\ \A o : Own(<< >>, o) = 0
  <2>1. << >> \in Seq(Cells) /\ Len(<< >>) <= MaxSize
    BY BoundsAssumption
  <2> QED
    BY <2>1, OwnOfSeq, OccursEmpty
<1>6. vec' \in [Vecs -> Stored] /\ vec'[w] = << >>
  BY <1>3, <1>4, <1>5
<1>7. ASSUME NEW o
      PROVE  Elements(o)' = Elements(o)
  <2>1. PICK r, q, n : /\ r = Cardinality(Others(vec, v, o)) /\ n = Own(u, o)
                       /\ q = Cardinality(Others(ve, w, o))
    OBVIOUS
  <2>2. Own(vec[v], o) = 0
    BY <1>2 DEF Own
  <2>3. Cardinality(PlacesIn(vec, o)) = r + 0 /\ r \in Nat
    BY <1>2, <2>1, <2>2, PlacesSplit
  <2>4. Cardinality(Others(ve, v, o)) = r
    BY ZenonT(30), <1>1, <1>2, <2>1, OthersStay
  <2>5. Cardinality(PlacesIn(ve, o)) = r + n /\ n \in Nat
    BY <1>4, <2>1, <2>4, PlacesSplit
  <2>6. Cardinality(PlacesIn(ve, o)) = q + n /\ q \in Nat
    BY <1>4, <2>1, PlacesSplit
  <2>7. Cardinality(Others(vec', w, o)) = q
    BY <1>3, <1>4, <1>5, <2>1, OthersStay
  <2>8. Cardinality(PlacesIn(vec', o)) = q + 0
    BY <1>5, <1>6, <2>7, PlacesSplit
  <2>9. q + 0 = r + 0
    BY <2>3, <2>5, <2>6
  <2> QED
    BY <2>3, <2>8, <2>9, ElementsAre
<1> QED
  BY <1>2, <1>6, <1>7 DEF Inv, TypeInv, Counted, OwnsElements, Separate, IsHandle, MoveCtor

(* A vector that ends, or has no elements any more, releases all of them.   *)
LEMMA DtorIsRight ==
    ASSUME Inv, NEW v \in Vecs, NEW x, x = Absent \/ x = << >>,
           Live(v), Only(v, x), rc' = Released(rc, vec[v])
    PROVE  Inv'
<1>1. TypeInv
  BY DEF Inv
<1>2. PICK u : u = vec[v]
  OBVIOUS
<1>3. u \in Seq(Cells) /\ \A o : Own(u, o) = Occurs(u, o)
  BY <1>1, <1>2, LiveIs
<1>4. \A o : Own(x, o) = 0
  <2>1. << >> \in Seq(Cells) /\ Len(<< >>) <= MaxSize
    BY BoundsAssumption
  <2> QED
    BY <2>1, OwnOfSeq, OccursEmpty DEF Own
<1>5. Loses(v, x, u)
  <2>1. \A o : Own(u, o) = Own(x, o) + Occurs(u, o)
    BY <1>3, <1>4, OccursType
  <2> QED
    BY <1>2, <2>1 DEF Loses
<1> QED
  BY <1>2, <1>3, <1>5, LosesIsRight

(* The destructor and clear.                                                *)
LEMMA EndsAreRight ==
    ASSUME Inv, NEW v \in Vecs, Dtor(v) \/ Clear(v)
    PROVE  Inv'
<1>1. Absent \in Stored /\ << >> \in Stored
  <2>1. << >> \in Seq(Cells) /\ Len(<< >>) <= MaxSize
    BY BoundsAssumption
  <2> QED
    BY <2>1 DEF Stored
<1>2. CASE Dtor(v)
  <2>1. Only(v, Absent) /\ rc' = Released(rc, vec[v]) /\ Live(v)
    BY <1>1, <1>2 DEF Dtor, Only, Puts, Becomes
  <2> QED
    BY <2>1, DtorIsRight
<1>3. CASE Clear(v)
  <2>1. Only(v, << >>) /\ rc' = Released(rc, vec[v]) /\ Live(v)
    BY <1>1, <1>3 DEF Clear, Only, Puts, Becomes
  <2> QED
    BY <2>1, DtorIsRight
<1> QED
  BY <1>2, <1>3

-----------------------------------------------------------------------------
(* Fewer elements, and another order.                                       *)

(* pop_back releases the last element.                                      *)
LEMMA PopBackIsRight ==
    ASSUME Inv, NEW v \in Vecs, PopBack(v)
    PROVE  Inv'
<1>1. PICK u, n, x, y : u = vec[v] /\ n = Len(u) /\ x = SubSeq(u, 1, n - 1) /\ y = <<u[n]>>
  OBVIOUS
<1>2. /\ TypeInv /\ u \in Seq(Cells) /\ n \in Nat /\ n <= MaxSize
      /\ \A o : Own(u, o) = Occurs(u, o)
  BY <1>1, LiveIs DEF Inv, PopBack
<1>3. n >= 1
  <2>1. n # 0
    BY <1>1, <1>2, EmptySeq DEF PopBack
  <2> QED
    BY <1>2, <2>1
<1>4. n \in 1..Len(u) /\ n - 1 \in 0..Len(u) /\ (n - 1) + 1 = n /\ n - 1 \in Nat
  BY <1>1, <1>2, <1>3
<1>5. SubSeq(u, n, n) = y /\ y \in Seq(Cells)
  <2>1. SubSeq(u, n, n) = <<u[n]>> /\ u[n] \in Cells
    BY <1>2, <1>4, PartOfOne
  <2> QED
    BY <1>1, <2>1
<1>6. x \in Seq(Cells) /\ Len(x) = n - 1
  BY <1>1, <1>2, <1>4, PartIs
<1>7. x \in Stored /\ \A o : Own(x, o) = Occurs(x, o)
  <2>1. Len(x) <= MaxSize
    BY <1>2, <1>6, BoundsAssumption
  <2> QED
    BY <1>6, <2>1, OwnOfSeq
<1>8. ASSUME NEW o \in Objects
      PROVE  Own(u, o) = Own(x, o) + Occurs(y, o)
  <2>1. PICK k : k = n - 1
    OBVIOUS
  <2>2. k \in 0..Len(u) /\ k + 1 = n
    BY <1>4, <2>1
  <2>3. Occurs(u, o) = Occurs(SubSeq(u, 1, k), o) + Occurs(SubSeq(u, k + 1, Len(u)), o)
    BY <1>2, <2>2, Split
  <2>4. SubSeq(u, 1, k) = x /\ SubSeq(u, k + 1, Len(u)) = y
    BY <1>1, <1>5, <2>1, <2>2
  <2> QED
    BY <1>2, <1>7, <2>3, <2>4
<1>9. Loses(v, x, y)
  BY <1>1, <1>8 DEF Loses
<1>10. Only(v, x) /\ rc' = Released(rc, y)
  BY <1>1, <1>7 DEF PopBack, Front, Last, Only, Puts, Becomes
<1> QED
  BY <1>5, <1>9, <1>10, LosesIsRight

(* How many elements there are from start, at most n.                       *)
LEMMA RangeEnds ==
    ASSUME TypeInv, NEW v \in Vecs, Live(v), NEW start \in Nat, start < Size(v),
           NEW n \in Nat, NEW k, k = IF Size(v) - start < n THEN Size(v) - start ELSE n
    PROVE  /\ start + k \in 0..Len(vec[v])
           /\ start \in 0..start + k
           /\ (start + k) - start \in Nat
<1>1. PICK s : s = Len(vec[v])
  OBVIOUS
<1>2. s \in Nat /\ Size(v) = s
  BY <1>1, LiveIs
<1> QED
  BY <1>1, <1>2

(* erase_n releases the elements between the two parts that are left.       *)
LEMMA EraseNIsRight ==
    ASSUME Inv, NEW v \in Vecs, NEW start \in Nat, NEW n \in Nat, EraseN(v, start, n)
    PROVE  Inv'
<1>1. PICK k : k = IF Size(v) - start < n THEN Size(v) - start ELSE n
  OBVIOUS
<1>2. PICK u, m, x, y : /\ u = vec[v] /\ m = start + k
                        /\ x = SubSeq(u, 1, start) \o SubSeq(u, m + 1, Len(u))
                        /\ y = SubSeq(u, start + 1, m)
  OBVIOUS
<1>3. /\ TypeInv /\ Live(v) /\ start < Size(v)
      /\ u \in Seq(Cells) /\ Len(u) \in Nat /\ Len(u) <= MaxSize /\ Size(v) = Len(u)
      /\ \A o : Own(u, o) = Occurs(u, o)
  BY <1>2, LiveIs DEF Inv, EraseN
<1>4. m \in 0..Len(u) /\ start \in 0..m /\ m - start \in Nat
  BY <1>1, <1>2, <1>3, RangeEnds
<1>5. Cuts(x, u, start, m)
  BY <1>2 DEF Cuts
<1>6. x \in Seq(Cells) /\ Len(x) = Len(u) - (m - start) /\ y \in Seq(Cells)
  <2>1. u \in Seq(Cells)
    BY <1>3
  <2>2. /\ x \in Seq(Cells) /\ Len(x) = Len(u) - (m - start)
        /\ SubSeq(u, start + 1, m) \in Seq(Cells)
    BY ZenonT(30), <2>1, <1>4, <1>5, Erased
  <2> QED
    BY <2>2, <1>2
<1>7. x \in Stored /\ \A o : Own(x, o) = Occurs(x, o)
  <2>1. Len(x) <= MaxSize
    BY <1>3, <1>4, <1>6, BoundsAssumption
  <2> QED
    BY <1>6, <2>1, OwnOfSeq
<1>8. ASSUME NEW o \in Objects
      PROVE  Own(u, o) = Own(x, o) + Occurs(y, o)
  <2>1. Occurs(x, o) + Occurs(y, o) = Occurs(u, o)
    BY SMTT(20), <1>2, <1>3, <1>4, <1>5, Erased
  <2> QED
    BY <1>3, <1>7, <2>1
<1>9. Loses(v, x, y)
  BY <1>2, <1>8 DEF Loses
<1>10. vec' = [vec EXCEPT ![v] = x] /\ rc' = Released(rc, y) /\ UNCHANGED <<kind, ext, flaw>>
  BY <1>1, <1>2, <1>3 DEF EraseN, Becomes
<1>11. Only(v, x)
  BY <1>7, <1>10 DEF Only, Puts
<1> QED
  BY <1>6, <1>9, <1>10, <1>11, LosesIsRight

(* reverse moves pointers only.                                             *)
LEMMA ReverseNIsRight ==
    ASSUME Inv, NEW v \in Vecs, NEW start \in Nat, NEW n \in Nat, ReverseN(v, start, n)
    PROVE  Inv'
<1>1. PICK k : k = IF Size(v) - start < n THEN Size(v) - start ELSE n
  OBVIOUS
<1>2. PICK u, m, x : /\ u = vec[v] /\ m = start + k
                     /\ x = SubSeq(u, 1, start) \o Reverse(SubSeq(u, start + 1, m))
                              \o SubSeq(u, m + 1, Len(u))
  OBVIOUS
<1>3. /\ TypeInv /\ Live(v) /\ start < Size(v)
      /\ u \in Seq(Cells) /\ Len(u) \in Nat /\ Len(u) <= MaxSize /\ Size(v) = Len(u)
      /\ \A o : Own(u, o) = Occurs(u, o)
  BY <1>2, LiveIs DEF Inv, ReverseN
<1>4. m \in 0..Len(u) /\ start \in 0..m
  BY <1>1, <1>2, <1>3, RangeEnds
<1>5. Turns(x, u, start, m)
  BY <1>2 DEF Turns
<1>6. x \in Seq(Cells) /\ Len(x) = Len(u)
  BY <1>3, <1>4, <1>5, Turned
<1>7. x \in Stored /\ \A o : Own(x, o) = Occurs(x, o)
  BY <1>3, <1>6, OwnOfSeq
<1>8. ASSUME NEW o \in Objects
      PROVE  Own(x, o) = Own(u, o)
  <2>1. Occurs(x, o) = Occurs(u, o)
    BY <1>3, <1>4, <1>5, Turned
  <2> QED
    BY <1>3, <1>7, <2>1
<1>9. Same(v, x)
  BY <1>2, <1>8 DEF Same
<1>10. vec' = [vec EXCEPT ![v] = x] /\ UNCHANGED <<kind, rc, ext, flaw>>
  BY <1>1, <1>2, <1>3 DEF ReverseN, Becomes
<1> QED
  BY <1>7, <1>9, <1>10, SameIsRight DEF Only, Puts

(* remove_one moves pointers only.                                          *)
LEMMA RemoveOneIsRight ==
    ASSUME Inv, NEW v \in Vecs, NEW where \in Nat, RemoveOne(v, where)
    PROVE  Inv'
<1>1. PICK u, x : u = vec[v] /\ x = Append(RemoveAt(u, where + 1), u[where + 1])
  OBVIOUS
<1>2. /\ TypeInv /\ Live(v) /\ where < Size(v)
      /\ u \in Seq(Cells) /\ Len(u) \in Nat /\ Len(u) <= MaxSize /\ Size(v) = Len(u)
      /\ \A o : Own(u, o) = Occurs(u, o)
  BY <1>1, LiveIs DEF Inv, RemoveOne
<1>3. where \in 0..Len(u) /\ where < Len(u)
  BY <1>2
<1>4. x \in Seq(Cells) /\ Len(x) = Len(u)
  BY <1>1, <1>2, <1>3, Rotated
<1>5. x \in Stored /\ \A o : Own(x, o) = Occurs(x, o)
  BY <1>2, <1>4, OwnOfSeq
<1>6. ASSUME NEW o \in Objects
      PROVE  Own(x, o) = Own(u, o)
  <2>1. Occurs(x, o) = Occurs(u, o)
    BY <1>1, <1>2, <1>3, Rotated
  <2> QED
    BY <1>2, <1>5, <2>1
<1>7. Same(v, x)
  BY <1>1, <1>6 DEF Same
<1>8. vec' = [vec EXCEPT ![v] = x] /\ UNCHANGED <<kind, rc, ext, flaw>>
  BY <1>1 DEF RemoveOne, Becomes
<1> QED
  BY <1>5, <1>7, <1>8, SameIsRight DEF Only, Puts

(* resize is one of three calls, none of which takes a negative count.      *)
LEMMA ResizeIs ==
    ASSUME TypeInv, NEW v \in Vecs, NEW n \in 0..MaxSize, Resize(v, n)
    PROVE  \/ Clear(v)
           \/ n \in Nat /\ MaxSize \in Nat /\ EraseN(v, n, MaxSize)
           \/ n - Size(v) \in Nat /\ EmplaceBackN(v, n - Size(v))
<1>1. Size(v) \in Nat /\ n \in Nat /\ MaxSize \in Nat
  BY LiveIs, BoundsAssumption DEF Resize
<1>2. n = 0 \/ n \in 1..Size(v) \/ n > Size(v)
  BY <1>1
<1>3. n > Size(v) => n - Size(v) \in Nat
  BY <1>1
<1>4. CASE n = 0
  <2>1. ~(n \in 1..Size(v)) /\ ~(n > Size(v))
    BY <1>1, <1>4
  <2> QED
    BY <1>4, <2>1, Zenon DEF Resize
<1>5. CASE n \in 1..Size(v)
  <2>1. n # 0 /\ ~(n > Size(v))
    BY <1>1, <1>5
  <2>2. EraseN(v, n, MaxSize)
    BY <1>5, <2>1, Zenon DEF Resize
  <2> QED
    BY <1>1, <2>2
<1>6. CASE n > Size(v)
  <2>1. n # 0 /\ ~(n \in 1..Size(v))
    BY <1>1, <1>6
  <2>2. EmplaceBackN(v, n - Size(v))
    BY <1>6, <2>1, Zenon DEF Resize
  <2> QED
    BY <1>3, <1>6, <2>2
<1> QED
  BY <1>2, <1>4, <1>5, <1>6

(* resize is clear, erase_n or emplace_back.                                *)
LEMMA ResizeIsRight ==
    ASSUME Inv, NEW v \in Vecs, NEW n \in 0..MaxSize, Resize(v, n)
    PROVE  Inv'
<1>1. TypeInv
  BY DEF Inv
<1>2. CASE Clear(v)
  BY <1>2, EndsAreRight
<1>3. CASE n \in Nat /\ MaxSize \in Nat /\ EraseN(v, n, MaxSize)
  BY <1>3, EraseNIsRight
<1>4. CASE n - Size(v) \in Nat /\ EmplaceBackN(v, n - Size(v))
  BY <1>4, EmplaceIsAppends, AppendsIsRight
<1> QED
  BY <1>1, <1>2, <1>3, <1>4, ResizeIs

-----------------------------------------------------------------------------
(* Handles that are assigned.                                               *)

(* The handle that is assigned has a reference that outlives the release of *)
(* the old one, unless it is that very reference.                           *)
LEMMA AssignHandleIsRight ==
    ASSUME Inv, NEW v \in Vecs, NEW where \in Nat, NEW a \in Args,
           AssignHandle(v, where, a)
    PROVE  Inv'
<1>1. PICK u, i, old, x, y, z, mid :
         /\ u = vec[v] /\ i = where + 1 /\ old = u[i] /\ x = ReplaceAt(u, i, a)
         /\ y = <<old>> /\ z = <<a>> /\ mid = Released(rc, y)
  OBVIOUS
<1>2. /\ TypeInv /\ Live(v) /\ where < Size(v) /\ IsHandle
      /\ u \in Seq(Cells) /\ Len(u) \in Nat /\ Len(u) <= MaxSize /\ Size(v) = Len(u)
      /\ \A o : Own(u, o) = Occurs(u, o)
  BY <1>1, LiveIs DEF Inv, AssignHandle
<1>3. i \in 1..Len(u) /\ old \in Cells /\ a \in Cells
  <2>1. i \in 1..Len(u)
    BY <1>1, <1>2
  <2> QED
    BY <1>1, <1>2, <2>1, ElementOfSeq DEF Args, Cells
<1>4. /\ y \in Seq(Cells) /\ \A o : Occurs(y, o) = One(old, o)
      /\ z \in Seq(Cells) /\ \A o : Occurs(z, o) = One(a, o)
  BY <1>1, <1>3, OccursOne
<1>5. mid \in Counts
  BY <1>1, <1>2, <1>4, ReleasedIs DEF TypeInv
<1>6. rc' = Acquired(mid, z) /\ rc' \in Counts
  BY <1>1, <1>4, <1>5, AcquiredIs DEF AssignHandle
<1>7. x \in Seq(Cells) /\ Len(x) = Len(u)
  BY <1>1, <1>2, <1>3, OccursReplaced
<1>8. x \in Stored /\ \A o : Own(x, o) = Occurs(x, o)
  BY <1>2, <1>7, OwnOfSeq
<1>9. Puts(v, x) /\ UNCHANGED <<kind, ext>>
  BY <1>1, <1>8 DEF AssignHandle, Becomes, Puts
<1>10. vec' \in [Vecs -> Stored]
  BY <1>2, <1>9, PutsType
<1>11. IF a = old /\ a \in Objects /\ rc[a] = 1 THEN Flawed("assign") ELSE UNCHANGED flaw
  BY <1>1 DEF AssignHandle
<1>12. TypeInv'
  BY <1>2, <1>6, <1>9, <1>10, <1>11 DEF TypeInv, Flawed
<1>13. CASE flaw' # "none"
  BY <1>12, <1>13, FlawedIsInv
<1>14. ASSUME flaw' = "none", NEW o \in Objects
       PROVE  rc'[o] = ext'[o] + Elements(o)'
  <2>1. flaw = "none" /\ ~(a = old /\ a \in Objects /\ rc[a] = 1)
    BY <1>11, <1>14 DEF Flawed
  <2>2. PICK was, is, now, total, c, e, p, q, r :
           /\ was = Own(u, o) /\ is = Own(x, o)
           /\ now = Elements(o)' /\ total = Elements(o) /\ c = rc[o] /\ e = ext[o]
           /\ p = One(old, o) /\ q = One(a, o) /\ r = mid[o]
    OBVIOUS
  <2>3. Balance(was, is, now, total)
    BY <1>1, <1>2, <1>9, <2>2, ElementsChange
  <2>4. is + p = was + q /\ p \in {0, 1} /\ q \in {0, 1}
    <3>1. Occurs(x, o) + One(u[i], o) = Occurs(u, o) + One(a, o)
      BY <1>1, <1>2, <1>3, OccursReplaced
    <3>2. is + p = was + q
      BY <1>1, <1>2, <1>8, <2>2, <3>1
    <3> QED
      BY <2>2, <3>2 DEF One
  <2>5. c = e + total /\ e \in Nat
    BY <1>2, <2>1, <2>2, CountedIs, BoundsAssumption DEF Inv, TypeInv
  <2>6. p = 1 => was > 0
    <3>1. p = 1 => u[i] = o
      BY <1>1, <2>2 DEF One
    <3>2. u[i] = o => Occurs(u, o) > 0
      BY <1>2, <1>3, OccursSomewhere
    <3> QED
      BY <1>2, <2>2, <3>1, <3>2
  <2>7. c >= p
    BY <2>3, <2>4, <2>5, <2>6 DEF Balance
  <2>8. r = c - p
    <3>1. Occurs(y, o) = p /\ rc[o] >= Occurs(y, o) /\ rc \in Counts /\ y \in Seq(Cells)
      BY <1>2, <1>4, <2>2, <2>7 DEF TypeInv
    <3>2. Released(rc, y)[o] = rc[o] - Occurs(y, o)
      BY <3>1, ReleasedIs
    <3> QED
      BY <1>1, <2>2, <3>1, <3>2
  <2>9. q = 1 => r > 0
    <3>1. SUFFICES ASSUME q = 1
                   PROVE  r > 0
      OBVIOUS
    <3>2. a = o
      BY <2>2, <3>1 DEF One
    <3>3. e > 0 \/ total > 0
      BY <1>2, <2>2, <3>2, ArgIsHeld
    <3>4. CASE p = 0
      BY <2>3, <2>5, <2>8, <3>3, <3>4 DEF Balance
    <3>5. CASE p = 1
      <4>1. old = o
        BY <2>2, <3>5 DEF One
      <4>2. c # 1
        BY <2>1, <2>2, <3>2, <4>1
      <4> QED
        BY <2>3, <2>5, <2>6, <2>8, <3>5, <4>2 DEF Balance
    <3> QED
      BY <2>4, <3>4, <3>5
  <2>10. rc'[o] = r + q
    <3>1. Occurs(z, o) = q /\ z \in Seq(Cells) /\ (Occurs(z, o) = 0 \/ mid[o] > 0)
      BY <1>4, <2>2, <2>4, <2>9
    <3>2. Acquired(mid, z)[o] = mid[o] + Occurs(z, o)
      BY <1>5, <3>1, AcquiredIs
    <3> QED
      BY <1>6, <2>2, <3>1, <3>2
  <2>11. r + q = e + now
    BY <2>3, <2>4, <2>5, <2>8 DEF Balance
  <2>12. ext'[o] = e
    BY <1>9, <2>2
  <2> QED
    BY <2>2, <2>10, <2>11, <2>12
<1> QED
  BY <1>2, <1>9, <1>12, <1>13, <1>14 DEF Inv, Counted, OwnsElements, Separate, IsHandle

-----------------------------------------------------------------------------
(* References from outside.                                                 *)

(* The references of the list become the elements': none is added, and the  *)
(* list forgets as many as the vector has then.                             *)
LEMMA CtorAdoptingIsRight ==
    ASSUME Inv, NEW v \in Vecs, NEW s \in Lists, CtorAdopting(v, s)
    PROVE  Inv'
<1>1. PICK n \in 1..MaxSize : s \in [1..n -> Pointers]
  BY DEF Lists
<1>2. s \in Seq(Cells) /\ Len(s) <= MaxSize
  <2>1. n \in Nat /\ n <= MaxSize /\ Pointers \subseteq Cells
    BY BoundsAssumption DEF Pointers, Cells
  <2>2. s \in [1..n -> Cells]
    BY <1>1, <2>1
  <2> QED
    BY <2>1, <2>2
<1>3. /\ TypeInv /\ ~Live(v)
      /\ ext' = [o \in Objects |-> ext[o] - Occurs(s, o)]
      /\ UNCHANGED <<kind, rc, flaw>>
  BY DEF Inv, CtorAdopting
<1>4. s \in Stored /\ \A o : Own(s, o) = Occurs(s, o)
  BY <1>2, OwnOfSeq
<1>5. Puts(v, s)
  BY <1>4 DEF CtorAdopting, Becomes, Puts
<1>6. ASSUME NEW o \in Objects
      PROVE  /\ Occurs(s, o) \in Nat
             /\ Occurs(s, o) > 0 => /\ ext[o] >= Occurs(s, o)
                                    /\ ~IsHandle => rc[o] = 1 /\ Occurs(s, o) <= 1
  <2>1. o # Null
    BY PointersAssumption
  <2>2. ASSUME Occurs(s, o) > 0
        PROVE  o \in ToSet(s) \ {Null}
    BY <1>2, <2>1, <2>2, OccursSomewhere DEF ToSet
  <2>3. ASSUME ~IsHandle
        PROVE  Occurs(s, o) <= 1
    <3>1. \A j, k \in 1..Len(s) : s[j] = o /\ s[k] = o => j = k
      BY <1>2, <2>1, <2>3 DEF CtorAdopting, Distinct
    <3> QED
      BY <1>2, <3>1, OccursAtMostOnce
  <2> QED
    BY <1>2, <2>2, <2>3, OccursType DEF CtorAdopting
<1>7. ASSUME NEW o \in Objects
      PROVE  ext[o] - Occurs(s, o) \in 0..MaxExt
  <2>1. PICK n2, e : n2 = Occurs(s, o) /\ e = ext[o]
    OBVIOUS
  <2>2. n2 \in Nat /\ (n2 > 0 => e >= n2) /\ e \in 0..MaxExt
    BY <1>3, <1>6, <2>1 DEF TypeInv
  <2>3. e - n2 \in 0..MaxExt
    BY <2>2, BoundsAssumption
  <2> QED
    BY <2>1, <2>3
<1>8. TypeInv'
  <2>1. ext' \in [Objects -> 0..MaxExt]
    BY <1>3, <1>7
  <2>2. vec' \in [Vecs -> Stored]
    BY <1>3, <1>5, PutsType
  <2> QED
    BY <1>3, <2>1, <2>2 DEF TypeInv
<1>9. ASSUME NEW o \in Objects, flaw = "none"
      PROVE  /\ rc'[o] = ext'[o] + Elements(o)'
             /\ ~IsHandle /\ Elements(o) <= 1 => Elements(o)' <= 1
  <2>1. PICK n2, was, is, now, total, c, e :
           /\ n2 = Occurs(s, o) /\ was = Own(vec[v], o) /\ is = Own(s, o)
           /\ now = Elements(o)' /\ total = Elements(o) /\ c = rc[o] /\ e = ext[o]
    OBVIOUS
  <2>2. Balance(was, is, now, total)
    BY <1>3, <1>5, <2>1, ElementsChange
  <2>3. was = 0 /\ is = n2
    BY <1>3, <1>4, <2>1, DeadOwnsNothing
  <2>4. c = e + total /\ e \in Nat
    BY <1>3, <1>9, <2>1, CountedIs, BoundsAssumption DEF Inv, TypeInv
  <2>5. /\ n2 \in Nat
        /\ n2 > 0 => e >= n2 /\ (~IsHandle => c = 1 /\ n2 <= 1)
    BY <1>6, <2>1
  <2>6. now = total + n2 /\ total \in Nat
    BY <2>2, <2>3 DEF Balance
  <2>7. c = (e - n2) + now /\ (~IsHandle /\ total <= 1 => now <= 1)
    BY <2>4, <2>5, <2>6
  <2>8. ext'[o] = e - n2 /\ rc'[o] = c
    BY <1>3, <2>1
  <2> QED
    BY <2>1, <2>7, <2>8
<1> QED
  BY <1>3, <1>8, <1>9 DEF Inv, Counted, OwnsElements, Separate, IsHandle

(* Variables and other lists add and release references of their own; the   *)
(* vectors stay.                                                            *)
LEMMA OutsideIsRight ==
    ASSUME Inv, NEW a \in Objects, Outside(a)
    PROVE  Inv'
<1>1. TypeInv /\ UNCHANGED <<kind, vec, flaw>>
  BY DEF Inv, Outside, ExtCreate, ExtAddRef, ExtRelease
<1>2. \A o : Elements(o)' = Elements(o)
  BY <1>1, ElementsAre
<1>3. PICK c, e, t : c = rc[a] /\ e = ext[a] /\ t = Elements(a)
  OBVIOUS
<1>4. c \in Nat \cup {Corrupt} /\ e \in 0..MaxExt
  BY <1>1, <1>3 DEF TypeInv, Counts
<1>5. ASSUME flaw = "none"
      PROVE  c = e + t
  BY <1>1, <1>3, <1>5, CountedIs DEF Inv
<1>6. ASSUME Vecs # {}
      PROVE  t \in Nat
  BY <1>1, <1>3, <1>6, ElementsType
<1>7. t \in Nat
  <2>1. CASE Vecs = {}
    <3>1. PlacesIn(vec, a) = {}
      BY <2>1 DEF PlacesIn
    <3> QED
      BY <1>3, <3>1, ElementsAre, FS_EmptySet
  <2> QED
    BY <1>6, <2>1
<1>8. ASSUME NEW d \in Nat \cup {Corrupt}, NEW f \in 0..MaxExt,
             rc' = [rc EXCEPT ![a] = d], ext' = [ext EXCEPT ![a] = f],
             flaw = "none" => d = f + t
      PROVE  Inv'
  <2>1. TypeInv'
    BY <1>1, <1>8 DEF TypeInv, Counts
  <2>2. ASSUME NEW o \in Objects, flaw = "none"
        PROVE  rc'[o] = ext'[o] + Elements(o)'
    <3>1. CASE o = a
      BY <1>1, <1>2, <1>3, <1>8, <2>2, <3>1 DEF TypeInv, Counts
    <3>2. CASE o # a
      BY <1>1, <1>2, <1>8, <2>2, <3>2, CountedIs DEF Inv, TypeInv, Counts
    <3> QED
      BY <3>1, <3>2
  <2> QED
    BY <1>1, <1>2, <2>1, <2>2 DEF Inv, Counted, OwnsElements, Separate, IsHandle
<1>9. CASE ExtCreate(a)
  <2>1. c = 0 /\ rc' = [rc EXCEPT ![a] = 1] /\ ext' = [ext EXCEPT ![a] = 1]
    BY <1>3, <1>9 DEF ExtCreate
  <2>2. flaw = "none" => 1 = 1 + t
    BY <1>4, <1>5, <1>7, <2>1, BoundsAssumption
  <2>3. 1 \in Nat \cup {Corrupt} /\ 1 \in 0..MaxExt
    BY BoundsAssumption
  <2> QED
    BY <1>8, <2>1, <2>2, <2>3
<1>10. CASE ExtAddRef(a)
  <2>1. /\ c > 0 /\ e < MaxExt
        /\ rc' = [rc EXCEPT ![a] = c + 1] /\ ext' = [ext EXCEPT ![a] = e + 1]
    BY <1>3, <1>10 DEF ExtAddRef
  <2>2. flaw = "none" => c + 1 = (e + 1) + t
    BY <1>4, <1>5, <1>7, BoundsAssumption
  <2>3. c + 1 \in Nat \cup {Corrupt} /\ e + 1 \in 0..MaxExt
    BY <1>4, <2>1, BoundsAssumption DEF Corrupt
  <2> QED
    BY <1>8, <2>1, <2>2, <2>3
<1>11. CASE ExtRelease(a)
  <2>1. PICK y : y = <<a>>
    OBVIOUS
  <2>2. /\ e > 0 /\ rc' = Released(rc, y) /\ ext' = [ext EXCEPT ![a] = e - 1]
    BY <1>3, <1>11, <2>1 DEF ExtRelease
  <2>3. y \in Seq(Cells) /\ \A o : Occurs(y, o) = One(a, o)
    BY <2>1, OccursOne DEF Cells
  <2>4. PICK d : d = rc'[a]
    OBVIOUS
  <2>5. rc' \in Counts /\ rc \in Counts
    BY <1>1, <2>2, <2>3, ReleasedIs DEF TypeInv
  <2>6. ASSUME NEW o \in Objects, o # a
        PROVE  rc'[o] = rc[o]
    <3>1. Occurs(y, o) = 0
      BY <2>3, <2>6 DEF One
    <3> QED
      BY <2>2, <3>1 DEF Released
  <2>7. rc' = [rc EXCEPT ![a] = d]
    BY <2>4, <2>5, <2>6 DEF Counts
  <2>8. flaw = "none" => d = (e - 1) + t
    <3>1. SUFFICES ASSUME flaw = "none"
                   PROVE  d = (e - 1) + t
      OBVIOUS
    <3>2. Occurs(y, a) = 1
      BY <2>3 DEF One
    <3>3. c = e + t
      BY <1>5, <3>1
    <3>4. c >= 1
      BY <1>4, <1>7, <2>2, <3>3, BoundsAssumption
    <3>5. rc[a] >= Occurs(y, a)
      BY <1>3, <3>2, <3>4
    <3>6. d = rc[a] - Occurs(y, a)
      BY <2>2, <2>3, <2>4, <2>5, <3>5, ReleasedIs
    <3>7. d = c - 1
      BY <1>3, <3>2, <3>6
    <3> QED
      BY <1>4, <1>7, <3>3, <3>7, BoundsAssumption
  <2>9. d \in Nat \cup {Corrupt} /\ e - 1 \in 0..MaxExt
    BY <1>4, <2>2, <2>4, <2>5, BoundsAssumption DEF Counts
  <2> QED
    BY <1>8, <2>2, <2>7, <2>8, <2>9
<1> QED
  BY <1>9, <1>10, <1>11 DEF Outside

-----------------------------------------------------------------------------
(* The invariant holds at first and after every step.                       *)

(* Where no vector is constructed there are no elements.                    *)
LEMMA NothingAtFirst ==
    ASSUME Init, NEW o
    PROVE  Elements(o) = 0
<1>1. \A v \in Vecs : vec[v] = Absent
  BY DEF Init
<1>2. PlacesIn(vec, o) = {}
  BY <1>1 DEF PlacesIn
<1> QED
  BY <1>2, ElementsAre, FS_EmptySet

(* At first no object exists and no vector.                                 *)
LEMMA InitIsRight == Init => Inv
<1> SUFFICES ASSUME Init
             PROVE  Inv
  OBVIOUS
<1>1. TypeInv
  <2>1. vec \in [Vecs -> Stored]
    BY DEF Init, Stored
  <2>2. rc \in Counts
    BY DEF Init, Counts
  <2>3. ext \in [Objects -> 0..MaxExt]
    BY BoundsAssumption DEF Init
  <2> QED
    BY <2>1, <2>2, <2>3 DEF Init, TypeInv
<1>2. \A o \in Objects : rc[o] = 0 /\ ext[o] = 0 /\ Elements(o) = 0
  BY NothingAtFirst DEF Init
<1>3. Counted
  BY <1>2 DEF Counted, OwnsElements
<1>4. Separate
  BY <1>2 DEF Separate
<1> QED
  BY <1>1, <1>3, <1>4 DEF Inv

(* Constructors.                                                            *)
LEMMA ConstructsIsRight ==
    ASSUME Inv, NEW v \in Vecs, Constructs(v)
    PROVE  Inv'
<1>1. CASE Ctor(v)
  BY <1>1, CtorIsRight
<1>2. ASSUME NEW s \in Lists, CtorFromValues(v, s)
      PROVE  Inv'
  BY <1>2, CtorFromValuesIsRight
<1>3. ASSUME NEW s \in Lists, CtorAdopting(v, s)
      PROVE  Inv'
  BY <1>3, CtorAdoptingIsRight
<1>4. ASSUME NEW w \in Vecs, CopyCtor(v, w)
      PROVE  Inv'
  BY <1>4, CopyCtorIsRight
<1>5. ASSUME NEW w \in Vecs, MoveCtor(v, w)
      PROVE  Inv'
  BY <1>5, MoveCtorIsRight
<1> QED
  BY <1>1, <1>2, <1>3, <1>4, <1>5 DEF Constructs

(* Operations that add elements.                                            *)
LEMMA GrowsIsRight ==
    ASSUME Inv, NEW v \in Vecs, Grows(v)
    PROVE  Inv'
<1>1. \A n \in 1..MaxSize : n \in Nat
  BY BoundsAssumption
<1>2. ASSUME NEW n \in 1..MaxSize, NEW a \in Args, PushBackN(v, n, a)
      PROVE  Inv'
  BY <1>1, <1>2, AppendsIsRight DEF PushBackN
<1>3. ASSUME NEW n \in 1..MaxSize, EmplaceBackN(v, n)
      PROVE  Inv'
  <2>1. Null \in Args /\ Appends(v, n, Copies(n, Null))
    BY <1>3, EmplaceIsAppends
  <2> QED
    BY <1>1, <2>1, AppendsIsRight
<1>4. ASSUME NEW where \in Positions, NEW a \in Args, InsertOne(v, where, a)
      PROVE  Inv'
  BY <1>4, InsertOneIsRight
<1>5. ASSUME NEW where \in Positions, NEW a \in Args, InsertOneNoMemory(v, where, a)
      PROVE  Inv'
  BY <1>5, InsertOneNoMemoryIsRight
<1>6. ASSUME NEW n \in 1..MaxSize, PushBackFreed(v, n)
      PROVE  Inv'
  BY <1>6, PushBackFreedIsRight
<1> QED
  BY <1>2, <1>3, <1>4, <1>5, <1>6 DEF Grows

(* Operations that drop elements.                                           *)
LEMMA ShrinksIsRight ==
    ASSUME Inv, NEW v \in Vecs, Shrinks(v)
    PROVE  Inv'
<1>1. \A n \in Positions : n \in Nat /\ n + 1 \in Nat
  BY BoundsAssumption DEF Positions
<1>2. CASE Dtor(v) \/ Clear(v)
  BY <1>2, EndsAreRight
<1>3. CASE PopBack(v)
  BY <1>3, PopBackIsRight
<1>4. ASSUME NEW where \in Positions, NEW n \in Positions, EraseN(v, where, n + 1)
      PROVE  Inv'
  BY <1>1, <1>4, EraseNIsRight
<1>5. ASSUME NEW n \in 0..MaxSize, Resize(v, n)
      PROVE  Inv'
  BY <1>5, ResizeIsRight
<1> QED
  BY <1>2, <1>3, <1>4, <1>5 DEF Shrinks

(* Operations on elements that stay.                                        *)
LEMMA EditsIsRight ==
    ASSUME Inv, NEW v \in Vecs, Edits(v)
    PROVE  Inv'
<1>1. \A n \in Positions : n \in Nat /\ n + 1 \in Nat
  BY BoundsAssumption DEF Positions
<1>2. PICK where \in Positions :
         \/ RemoveOne(v, where)
         \/ \E n \in Positions : ReverseN(v, where, n + 1)
         \/ AssignObject(v, where)
         \/ \E a \in Args : AssignHandle(v, where, a)
  BY DEF Edits
<1>3. CASE RemoveOne(v, where)
  BY <1>1, <1>3, RemoveOneIsRight
<1>4. ASSUME NEW n \in Positions, ReverseN(v, where, n + 1)
      PROVE  Inv'
  BY <1>1, <1>4, ReverseNIsRight
<1>5. CASE AssignObject(v, where)
  BY <1>5, AssignObjectIsRight
<1>6. ASSUME NEW a \in Args, AssignHandle(v, where, a)
      PROVE  Inv'
  BY <1>1, <1>6, AssignHandleIsRight
<1> QED
  BY <1>2, <1>3, <1>4, <1>5, <1>6

(* Every step.                                                              *)
LEMMA NextIsRight == Inv /\ [Next]_vars => Inv'
<1> SUFFICES ASSUME Inv, [Next]_vars
             PROVE  Inv'
  OBVIOUS
<1>1. ASSUME NEW v \in Vecs, Constructs(v) \/ Grows(v) \/ Shrinks(v) \/ Edits(v)
      PROVE  Inv'
  BY <1>1, ConstructsIsRight, GrowsIsRight, ShrinksIsRight, EditsIsRight
<1>2. ASSUME NEW o \in Objects, Outside(o)
      PROVE  Inv'
  BY <1>2, OutsideIsRight
<1>3. CASE UNCHANGED vars
  BY <1>3, StillIsRight DEF vars
<1> QED
  BY <1>1, <1>2, <1>3 DEF Next

(* The invariant holds throughout.                                          *)
LEMMA Invariance == Spec => []Inv
BY InitIsRight, NextIsRight, PTL DEF Spec

-----------------------------------------------------------------------------
(* The theorems.                                                            *)

(***************************************************************************)
(* Vectors stay within their bound and hold pointers, whatever sequence of *)
(* operations filled, cut and rearranged them.                             *)
(***************************************************************************)
THEOREM TypeCorrect == Spec => []TypeOK
<1>1. Inv => TypeOK
  BY TypeInvIsEnough DEF Inv
<1> QED
  BY <1>1, Invariance, PTL

(***************************************************************************)
(* The engine's counter of an object is the references outside vectors and *)
(* one for each element, for any number of vectors, whichever creation or  *)
(* copy a script exception stopped: no element outlives its object and     *)
(* none is forgotten.  The four calls that miscount are the exceptions.    *)
(***************************************************************************)
THEOREM ElementsAreOwned == Spec => []Counted
<1>1. Inv => Counted
  BY DEF Inv
<1> QED
  BY <1>1, Invariance, PTL

(***************************************************************************)
(* An object that is an element, not a handle, is one element of one       *)
(* vector: moves, insertions and loops that stop early share none.         *)
(***************************************************************************)
THEOREM ElementsAreNeverShared == Spec => []Separate
<1>1. Inv => Separate
  BY DEF Inv
<1> QED
  BY <1>1, Invariance, PTL

-----------------------------------------------------------------------------
(* What an exception leaves.                                                *)

(* A vector that stays begins with what it had.                             *)
LEMMA PrefixOfItself ==
    ASSUME NEW s \in Seq(Cells)
    PROVE  IsPrefix(s, s) /\ \A i \in Len(s) + 1..Len(s) : s[i] # Null
BY DEF IsPrefix

(* What was there is a prefix of it and something that was made.            *)
LEMMA PrefixOfCat ==
    ASSUME NEW s \in Seq(Cells), NEW t \in Seq(Objects)
    PROVE  /\ IsPrefix(s, s \o t)
           /\ \A i \in Len(s) + 1..Len(s \o t) : (s \o t)[i] # Null
<1>1. PICK u : u = s \o t
  OBVIOUS
<1>2. /\ t \in Seq(Cells) /\ Len(s) \in Nat /\ Len(t) \in Nat
      /\ \A i \in 1..Len(t) : t[i] \in Objects
  BY DEF Cells
<1>3. /\ u \in Seq(Cells) /\ Len(u) = Len(s) + Len(t)
      /\ \A i \in 1..Len(s) : u[i] = s[i]
      /\ \A i \in Len(s) + 1..Len(u) : u[i] = t[i - Len(s)]
  BY <1>1, <1>2
<1>4. SubSeq(s, 1, Len(s)) = SubSeq(u, 1, Len(s))
  BY <1>2, <1>3
<1>5. IsPrefix(s, u)
  BY <1>2, <1>3, <1>4 DEF IsPrefix
<1>6. ASSUME NEW i \in Len(s) + 1..Len(u)
      PROVE  u[i] # Null
  <2>1. u[i] = t[i - Len(s)]
    BY <1>3
  <2>2. i - Len(s) \in 1..Len(t)
    BY <1>2, <1>3
  <2>3. t[i - Len(s)] \in Objects
    BY <1>2, <2>2
  <2> QED
    BY <2>1, <2>3, PointersAssumption
<1> QED
  BY <1>1, <1>5, <1>6

(* A loop that ends early has made objects, and has had to make some.       *)
LEMMA EarlyEnds ==
    ASSUME NEW v \in Vecs, NEW n \in Nat, NEW a \in Args,
           Appends(v, n, Copies(n, a)), out' = "exception"
    PROVE  Live(v) /\ \E s \in Seq(Objects) : vec' = [vec EXCEPT ![v] = vec[v] \o s]
<1>1. PICK s \in Copies(n, a) : /\ Becomes(v, vec[v] \o s)
                                /\ Ends(IF Len(s) = n THEN "ok" ELSE "exception")
  BY DEF Appends
<1>2. Len(s) # n
  BY <1>1 DEF Ends
<1>3. ~IsHandle
  <2>1. SUFFICES ASSUME IsHandle
                 PROVE  Len(s) = n
    BY <1>2
  <2>2. s = [i \in 1..n |-> a]
    BY <2>1 DEF Copies, Repeated
  <2> QED
    BY <2>2
<1>4. s \in Seq(Objects)
  BY <1>3, CreatedIs DEF Copies
<1> QED
  BY <1>1, <1>4 DEF Appends, Becomes

(* A step that ends with an exception leaves the vectors alone or appends   *)
(* objects to one of them.                                                  *)
LEMMA ExceptionsAppend ==
    ASSUME Inv, Next, out' = "exception"
    PROVE  \/ UNCHANGED vec
           \/ \E v \in Vecs, s \in Seq(Objects) :
                 Live(v) /\ vec' = [vec EXCEPT ![v] = vec[v] \o s]
<1> DEFINE Goal == \/ UNCHANGED vec
                   \/ \E v \in Vecs, s \in Seq(Objects) :
                         Live(v) /\ vec' = [vec EXCEPT ![v] = vec[v] \o s]
<1>1. ASSUME NEW v \in Vecs, NEW n \in Nat, NEW a \in Args,
             Appends(v, n, Copies(n, a))
      PROVE  Goal
  BY <1>1, EarlyEnds
<1>2. ASSUME NEW v \in Vecs, NEW n \in Nat, EmplaceBackN(v, n)
      PROVE  Goal
  BY <1>1, <1>2, EmplaceIsAppends
<1>3. ASSUME NEW v \in Vecs, Constructs(v)
      PROVE  FALSE
  BY <1>3 DEF Constructs, Ctor, CtorFromValues, CtorAdopting, CopyCtor, MoveCtor, Ends
<1>4. ASSUME NEW v \in Vecs, Grows(v)
      PROVE  Goal
  <2>1. \A n \in 1..MaxSize : n \in Nat
    BY BoundsAssumption
  <2>2. ASSUME NEW n \in 1..MaxSize, NEW a \in Args, PushBackN(v, n, a)
        PROVE  Goal
    BY <1>1, <2>1, <2>2 DEF PushBackN
  <2>3. ASSUME NEW n \in 1..MaxSize, EmplaceBackN(v, n)
        PROVE  Goal
    BY <1>2, <2>1, <2>3
  <2>4. ASSUME NEW where, NEW a, InsertOne(v, where, a)
        PROVE  UNCHANGED vec
    BY <2>4 DEF InsertOne, Ends
  <2>5. ASSUME NEW where, NEW a, InsertOneNoMemory(v, where, a)
        PROVE  UNCHANGED vec
    BY <2>5 DEF InsertOneNoMemory
  <2>6. \A n : ~PushBackFreed(v, n)
    BY DEF PushBackFreed, Ends
  <2> QED
    BY <1>4, <2>2, <2>3, <2>4, <2>5, <2>6 DEF Grows
<1>5. ASSUME NEW v \in Vecs, Shrinks(v)
      PROVE  Goal
  <2>1. ~Dtor(v) /\ ~Clear(v) /\ ~PopBack(v)
    BY DEF Dtor, Clear, PopBack, Ends
  <2>2. \A start, n : ~EraseN(v, start, n)
    BY DEF EraseN, Ends
  <2>3. PICK n \in 0..MaxSize : Resize(v, n)
    BY <1>5, <2>1, <2>2 DEF Shrinks
  <2>4. n - Size(v) \in Nat /\ EmplaceBackN(v, n - Size(v))
    BY <2>1, <2>2, <2>3, ResizeIs DEF Inv
  <2> QED
    BY <1>2, <2>4
<1>6. ASSUME NEW v \in Vecs, Edits(v)
      PROVE  UNCHANGED vec
  <2>1. \A where : ~RemoveOne(v, where)
    BY DEF RemoveOne, Ends
  <2>2. \A start, n : ~ReverseN(v, start, n)
    BY DEF ReverseN, Ends
  <2>3. \A where, a : ~AssignHandle(v, where, a)
    BY DEF AssignHandle, Ends
  <2>4. PICK where \in Positions : AssignObject(v, where)
    BY <1>6, <2>1, <2>2, <2>3 DEF Edits
  <2> QED
    BY <2>4 DEF AssignObject, Ends
<1>7. ASSUME NEW o, Outside(o)
      PROVE  UNCHANGED vec
  BY <1>7 DEF Outside, ExtCreate, ExtAddRef, ExtRelease
<1> QED
  BY <1>3, <1>4, <1>5, <1>6, <1>7 DEF Next

(***************************************************************************)
(* When the creation or copy of an element ends with a script exception,   *)
(* every vector still begins with the elements it had, and the elements    *)
(* the loop has added by then are objects: whatever the loop's length.     *)
(***************************************************************************)
THEOREM ExceptionsLoseNothing == Spec => ExceptionsKeepElements
<1> DEFINE Keeps(w) == /\ IsPrefix(vec[w], vec'[w])
                       /\ \A i \in Size(w) + 1..Len(vec'[w]) : vec'[w][i] # Null
           A == out' = "exception" /\ flaw' = "none" => \A v \in Vecs : Live(v) => Keeps(v)
<1>1. Inv /\ [Next]_vars => [A]_vars
  <2>1. SUFFICES ASSUME Inv, Next, out' = "exception", NEW w \in Vecs, Live(w)
                 PROVE  Keeps(w)
    OBVIOUS
  <2>2. vec \in [Vecs -> Stored] /\ vec[w] \in Seq(Cells)
    BY <2>1, StoredIs DEF Inv, TypeInv, Live
  <2>3. ASSUME vec'[w] = vec[w]
        PROVE  Keeps(w)
    BY <2>2, <2>3, PrefixOfItself DEF Size
  <2>4. CASE UNCHANGED vec
    BY <2>3, <2>4
  <2>5. ASSUME NEW v \in Vecs, NEW s \in Seq(Objects),
               vec' = [vec EXCEPT ![v] = vec[v] \o s]
        PROVE  Keeps(w)
    <3>1. CASE w = v
      <4>1. vec'[w] = vec[w] \o s
        BY <2>2, <2>5, <3>1
      <4> QED
        BY <2>2, <4>1, PrefixOfCat DEF Size
    <3>2. CASE w # v
      BY <2>2, <2>3, <2>5, <3>2
    <3> QED
      BY <3>1, <3>2
  <2> QED
    BY <2>1, <2>4, <2>5, ExceptionsAppend
<1> QED
  BY <1>1, Invariance, PTL DEF Spec, ExceptionsKeepElements
=============================================================================
