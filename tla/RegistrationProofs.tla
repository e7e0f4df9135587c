-------------------------- MODULE RegistrationProofs --------------------------
(***************************************************************************)
(* Proofs about Registration, for any namespaces, names and masks and any  *)
(* number of frames: its state has its type, and its guards implement the  *)
(* lexical environments of Scopes.  The argument is about what a suffix of *)
(* the stack restores: pushing a frame changes nothing below it, and what  *)
(* is left after a suffix was destroyed restores the same as before.       *)
(*                                                                         *)
(* Then what generators know of the types they register for: a registered  *)
(* type is never taken back, so a generator's type stays what it was when  *)
(* the generator was made, and its members and listeners follow it.        *)
(***************************************************************************)
EXTENDS Registration, FiniteSetTheorems, SequenceTheorems, WellFoundedInduction, TLAPS

Frames == NamespaceGuard \cup MaskGuard \cup Generator

(* Above and Restored for any stack.                                        *)
GuardsAbove(fr, k, guard) == { i \in k + 1..Len(fr) : fr[i].guard = guard }

At(fr, k, guard, current) ==
    IF GuardsAbove(fr, k, guard) = {} THEN current
    ELSE fr[Lowest(GuardsAbove(fr, k, guard))].prev

(* A set of positions that is not empty has a lowest one.                   *)
LEMMA LowestExists ==
    ASSUME NEW n \in Nat, NEW S \in SUBSET (1..n), S # {}
    PROVE  \E i \in S : \A j \in S : i <= j
<1> DEFINE T == { 1..i : i \in S }
           R == StrictSubsetOrdering(1..n)
<1>1. IsWellFoundedOn(R, FiniteSubsetsOf(1..n))
  BY FS_StrictSubsetOrderingWellFounded
<1>2. T \subseteq FiniteSubsetsOf(1..n)
  <2> SUFFICES ASSUME NEW i \in S
               PROVE  1..i \in FiniteSubsetsOf(1..n)
    OBVIOUS
  <2>1. i \in 1..n
    OBVIOUS
  <2>2. 1..i \subseteq 1..n
    BY <2>1
  <2>3. IsFiniteSet(1..i)
    BY <2>1, FS_Interval
  <2> QED
    BY <2>2, <2>3 DEF FiniteSubsetsOf
<1>3. T # {}
  OBVIOUS
<1>4. \E x \in T : \A y \in T : ~ (<<y, x>> \in R)
  <2> HIDE DEF T, R
  <2> QED
    BY <1>1, <1>2, <1>3, WFMin
<1>5. PICK i \in S : \A y \in T : ~ (<<y, 1..i>> \in R)
  BY <1>4
<1>6. ASSUME NEW j \in S, j < i
      PROVE  FALSE
  <2>1. i \in 1..n /\ j \in 1..n
    OBVIOUS
  <2>2. 1..j \subseteq 1..n /\ 1..i \subseteq 1..n
    BY <2>1
  <2>3. 1..j \subseteq 1..i /\ 1..j # 1..i
    BY <1>6, <2>1
  <2>4. <<1..j, 1..i>> \in R
    BY <2>2, <2>3 DEF StrictSubsetOrdering
  <2> QED
    BY <1>5, <2>4
<1>7. \A j \in S : i \in 1..n /\ j \in 1..n
  OBVIOUS
<1> QED
  BY <1>6, <1>7

(* The lowest of some positions is one of them.                             *)
LEMMA LowestIs ==
    ASSUME NEW n \in Nat, NEW S \in SUBSET (1..n), S # {}
    PROVE  /\ Lowest(S) \in S
           /\ \A j \in S : Lowest(S) <= j
BY LowestExists DEF Lowest

(* There is one.                                                            *)
LEMMA LowestIsUnique ==
    ASSUME NEW n \in Nat, NEW S \in SUBSET (1..n), NEW i \in S,
           \A j \in S : i <= j
    PROVE  Lowest(S) = i
<1>1. Lowest(S) \in S /\ \A j \in S : Lowest(S) <= j
  BY LowestIs
<1>2. PICK k \in S : k = Lowest(S) /\ \A j \in S : k <= j
  BY <1>1
<1>3. k \in Int /\ i \in Int /\ k <= i /\ i <= k
  BY <1>2
<1>4. k = i
  BY <1>3
<1> QED
  BY <1>2, <1>4

-----------------------------------------------------------------------------
(* What a stack restores.                                                   *)

(* The guards of a kind above k.                                            *)
LEMMA AboveIs ==
    ASSUME NEW fr \in Seq(Frames), NEW k \in Nat, NEW guard, NEW i
    PROVE  i \in GuardsAbove(fr, k, guard)
             <=> i \in 1..Len(fr) /\ i > k /\ fr[i].guard = guard
BY DEF GuardsAbove

(* Where there is one, there is a lowest.                                   *)
LEMMA HasLowest ==
    ASSUME NEW fr \in Seq(Frames), NEW k \in Nat, NEW guard,
           GuardsAbove(fr, k, guard) # {}
    PROVE  \E i \in GuardsAbove(fr, k, guard) :
              \A j \in GuardsAbove(fr, k, guard) : i <= j
<1> DEFINE A == GuardsAbove(fr, k, guard)
           n == Len(fr)
<1>1. n \in Nat /\ A \in SUBSET (1..n) /\ A # {}
  BY AboveIs
<1> HIDE DEF A, n
<1>2. \E i \in A : \A j \in A : i <= j
  BY <1>1, LowestExists
<1> QED
  BY <1>2 DEF A

(* The lowest guard above k restores what was current.                      *)
LEMMA AtLowest ==
    ASSUME NEW fr \in Seq(Frames), NEW k \in Nat, NEW guard, NEW current,
           NEW i \in GuardsAbove(fr, k, guard),
           \A j \in GuardsAbove(fr, k, guard) : i <= j
    PROVE  At(fr, k, guard, current) = fr[i].prev
<1> DEFINE A == GuardsAbove(fr, k, guard)
           n == Len(fr)
<1>1. n \in Nat /\ A \in SUBSET (1..n) /\ i \in A /\ \A j \in A : i <= j
  BY AboveIs
<1>2. Lowest(A) = i
  <2> HIDE DEF A, n
  <2> QED
    BY <1>1, LowestIsUnique
<1> QED
  BY <1>1, <1>2 DEF At

(* Without one nothing is restored.                                         *)
LEMMA AtNone ==
    ASSUME NEW fr, NEW k, NEW guard, NEW current,
           GuardsAbove(fr, k, guard) = {}
    PROVE  At(fr, k, guard, current) = current
BY DEF At

(* Above the whole stack there is nothing.                                  *)
LEMMA NothingAbove ==
    ASSUME NEW fr \in Seq(Frames), NEW guard, NEW current
    PROVE  At(fr, Len(fr), guard, current) = current
<1>1. GuardsAbove(fr, Len(fr), guard) = {}
  BY DEF GuardsAbove
<1> QED
  BY <1>1, AtNone

(* A frame that restores something else makes no difference.                *)
LEMMA PushOther ==
    ASSUME NEW fr \in Seq(Frames), NEW f \in Frames, NEW guard, f.guard # guard,
           NEW k \in 0..Len(fr), NEW current
    PROVE  At(Append(fr, f), k, guard, current) = At(fr, k, guard, current)
<1> DEFINE fr2 == Append(fr, f)
           A == GuardsAbove(fr, k, guard)
<1>1. /\ fr2 \in Seq(Frames) /\ Len(fr2) = Len(fr) + 1 /\ fr2[Len(fr) + 1] = f
      /\ \A i \in 1..Len(fr) : fr2[i] = fr[i]
      /\ k \in Nat /\ Len(fr) \in Nat
  OBVIOUS
<1> HIDE DEF fr2
<1>2. GuardsAbove(fr2, k, guard) = A
  <2>1. ASSUME NEW i
        PROVE  i \in GuardsAbove(fr2, k, guard) <=> i \in A
    <3>1. i \in 1..Len(fr) + 1 <=> i = Len(fr) + 1 \/ i \in 1..Len(fr)
      OBVIOUS
    <3> QED
      BY <1>1, <3>1, AboveIs
  <2> QED
    BY <2>1
<1>3. CASE A = {}
  BY <1>2, <1>3, AtNone DEF fr2
<1>4. CASE A # {}
  <2>1. PICK i \in A : \A j \in A : i <= j
    BY <1>4, HasLowest
  <2>2. At(fr, k, guard, current) = fr[i].prev
    BY <1>1, <2>1, AtLowest
  <2>3. At(fr2, k, guard, current) = fr2[i].prev
    BY <1>1, <1>2, <2>1, AtLowest
  <2>4. i \in 1..Len(fr)
    BY AboveIs
  <2> QED
    BY <1>1, <2>2, <2>3, <2>4 DEF fr2
<1> QED
  BY <1>3, <1>4

(* A frame that restores what is current makes no difference either.        *)
LEMMA PushGuard ==
    ASSUME NEW fr \in Seq(Frames), NEW f \in Frames, NEW guard, f.guard = guard,
           NEW k \in 0..Len(fr), NEW next
    PROVE  At(Append(fr, f), k, guard, next) = At(fr, k, guard, f.prev)
<1> DEFINE fr2 == Append(fr, f)
           top == Len(fr) + 1
           A == GuardsAbove(fr, k, guard)
           A2 == GuardsAbove(fr2, k, guard)
<1>1. /\ fr2 \in Seq(Frames) /\ Len(fr2) = top /\ fr2[top] = f
      /\ \A i \in 1..Len(fr) : fr2[i] = fr[i]
      /\ k \in Nat /\ Len(fr) \in Nat /\ top \in Nat /\ top > k
      /\ \A i : i \in 1..top <=> (i = top \/ i \in 1..Len(fr))
      /\ \A i \in 1..Len(fr) : i <= top /\ i # top
  OBVIOUS
<1> HIDE DEF fr2, top
<1>2. ASSUME NEW i
      PROVE  i \in A2 <=> i = top \/ i \in A
  BY <1>1, AboveIs
<1>3. \A i \in A : i \in 1..Len(fr)
  BY AboveIs
<1>4. CASE A = {}
  <2>1. top \in A2 /\ \A j \in A2 : top <= j
    BY <1>1, <1>2, <1>4
  <2>2. At(fr2, k, guard, next) = fr2[top].prev
    BY <1>1, <2>1, AtLowest
  <2> QED
    BY <1>1, <1>4, <2>2, AtNone DEF fr2
<1>5. CASE A # {}
  <2>1. PICK i \in A : \A j \in A : i <= j
    BY <1>5, HasLowest
  <2>2. i \in A2 /\ \A j \in A2 : i <= j
    BY <1>1, <1>2, <1>3, <2>1
  <2>3. At(fr, k, guard, f.prev) = fr[i].prev
    BY <1>1, <2>1, AtLowest
  <2>4. At(fr2, k, guard, next) = fr2[i].prev
    BY <1>1, <2>2, AtLowest
  <2> QED
    BY <1>1, <1>3, <2>3, <2>4 DEF fr2
<1> QED
  BY <1>4, <1>5

(* Destroying the frames above m first changes nothing for those below.     *)
LEMMA DestroyInTurn ==
    ASSUME NEW fr \in Seq(Frames), NEW guard, NEW current,
           NEW m \in 0..Len(fr), NEW k \in 0..m
    PROVE  At(SubSeq(fr, 1, m), k, guard, At(fr, m, guard, current))
             = At(fr, k, guard, current)
<1> DEFINE fr2 == SubSeq(fr, 1, m)
           A == GuardsAbove(fr, k, guard)
           B == GuardsAbove(fr, m, guard)
           A2 == GuardsAbove(fr2, k, guard)
<1>1. /\ fr2 \in Seq(Frames) /\ Len(fr2) = m /\ \A i \in 1..m : fr2[i] = fr[i]
      /\ m \in Nat /\ k \in Nat /\ k <= m /\ m <= Len(fr) /\ Len(fr) \in Nat
  OBVIOUS
<1> HIDE DEF fr2
<1>2. ASSUME NEW i
      PROVE  /\ i \in A <=> i \in A2 \/ i \in B
             /\ i \in A2 => i \in 1..m
             /\ i \in B => i \in Int /\ i > m
  <2>1. i \in 1..Len(fr) /\ i > k
          <=> (i \in 1..m /\ i > k) \/ (i \in 1..Len(fr) /\ i > m)
    BY <1>1
  <2> QED
    BY <1>1, <2>1, AboveIs
<1>3. CASE A2 = {}
  <2>1. A = B
    BY <1>2, <1>3
  <2>2. At(fr, k, guard, current) = At(fr, m, guard, current)
    BY <2>1 DEF At
  <2> QED
    BY <1>3, <2>2, AtNone DEF fr2
<1>4. CASE A2 # {}
  <2>1. PICK i \in A2 : \A j \in A2 : i <= j
    BY <1>1, <1>4, HasLowest
  <2>2. i \in A /\ \A j \in A : i <= j
    BY <1>1, <1>2, <2>1
  <2>3. At(fr, k, guard, current) = fr[i].prev
    BY <1>1, <2>2, AtLowest
  <2>4. At(fr2, k, guard, At(fr, m, guard, current)) = fr2[i].prev
    BY <1>1, <2>1, AtLowest
  <2> QED
    BY <1>1, <1>2, <2>3, <2>4 DEF fr2
<1> QED
  BY <1>3, <1>4

-----------------------------------------------------------------------------
(* Types.                                                                   *)

(* Namespaces are the short sequences of parts.                             *)
LEMMA NamespacesAreSequences ==
    ASSUME NEW q
    PROVE  q \in Namespaces <=> q \in Seq(Parts) /\ Len(q) <= MaxNesting
<1>1. ASSUME q \in Namespaces
      PROVE  q \in Seq(Parts) /\ Len(q) <= MaxNesting
  <2>1. PICK n \in 0..MaxNesting : q \in [1..n -> Parts]
    BY <1>1 DEF Namespaces
  <2>2. n \in Nat /\ n <= MaxNesting
    BY BoundsAssumption
  <2>3. q \in Seq(Parts) /\ Len(q) = n
    BY <2>1, <2>2
  <2> QED
    BY <2>2, <2>3
<1>2. ASSUME q \in Seq(Parts), Len(q) <= MaxNesting
      PROVE  q \in Namespaces
  <2>1. q \in [1..Len(q) -> Parts]
    BY <1>2
  <2>2. Len(q) \in 0..MaxNesting
    BY <1>2, BoundsAssumption
  <2> QED
    BY <2>1, <2>2 DEF Namespaces
<1> QED
  BY <1>1, <1>2

(* What is around a namespace is one.                                       *)
LEMMA PrefixesAreNamespaces ==
    ASSUME NEW q \in Namespaces, NEW k \in 0..Len(q)
    PROVE  SubSeq(q, 1, k) \in Namespaces
<1>1. q \in Seq(Parts) /\ Len(q) <= MaxNesting
  BY NamespacesAreSequences
<1>2. SubSeq(q, 1, k) \in Seq(Parts) /\ Len(SubSeq(q, 1, k)) = k /\ k <= Len(q)
  BY <1>1
<1>3. k <= MaxNesting
  BY <1>1, <1>2, BoundsAssumption
<1> QED
  BY <1>2, <1>3, NamespacesAreSequences

(* A namespace in another is one, within the bound.                         *)
LEMMA NestedNamespaces ==
    ASSUME NEW p \in Namespaces, NEW q \in Namespaces, Len(p \o q) <= MaxNesting
    PROVE  p \o q \in Namespaces
<1>1. p \in Seq(Parts) /\ q \in Seq(Parts)
  BY NamespacesAreSequences
<1>2. p \o q \in Seq(Parts)
  BY <1>1
<1> QED
  BY <1>2, NamespacesAreSequences

(* A name stands for the type of the innermost namespace that has one.      *)
Innermost(n, k) == /\ k \in Enclosing(n)
                   /\ \A j \in Enclosing(n) : j <= k
                   /\ Resolve(n) = <<SubSeq(ns, 1, k), n>>

LEMMA ResolveIs ==
    ASSUME ns \in Namespaces, NEW n, Enclosing(n) # {}
    PROVE  \E k \in 0..Len(ns) : Innermost(n, k)
<1> DEFINE A == Enclosing(n)
           R == { Len(ns) + 1 - k : k \in A }
           top == Len(ns) + 1
<1>1. Len(ns) \in Nat
  BY NamespacesAreSequences
<1>2. A \subseteq 0..Len(ns)
  BY DEF Enclosing
<1>3. R \in SUBSET (1..top) /\ R # {} /\ top \in Nat
  BY <1>1, <1>2
<1>4. PICK r \in R : \A s \in R : r <= s
  <2> HIDE DEF R, top
  <2> QED
    BY <1>3, LowestExists
<1>5. PICK k \in A : r = Len(ns) + 1 - k
  OBVIOUS
<1>6. \A j \in A : j <= k
  <2> SUFFICES ASSUME NEW j \in A
               PROVE  j <= k
    OBVIOUS
  <2>1. r <= Len(ns) + 1 - j
    BY <1>4
  <2> QED
    BY <1>1, <1>2, <1>5, <2>1
<1>7. \E i \in A : \A j \in A : j <= i
  BY <1>6
<1> DEFINE c == CHOOSE i \in A : \A j \in A : j <= i
<1>8. c \in A /\ \A j \in A : j <= c
  <2> HIDE DEF A
  <2> QED
    BY <1>7
<1>9. Resolve(n) = <<SubSeq(ns, 1, c), n>>
  BY DEF Resolve
<1>10. c \in 0..Len(ns)
  BY <1>2, <1>8
<1> HIDE DEF c
<1> QED
  BY <1>8, <1>9, <1>10 DEF Innermost

(* A name stands for no type or for a path.                                 *)
LEMMA ResolveType ==
    ASSUME ns \in Namespaces, NEW n \in Names
    PROVE  Resolve(n) \in Paths \cup {None}
<1>1. CASE Enclosing(n) = {}
  BY <1>1 DEF Resolve
<1>2. CASE Enclosing(n) # {}
  <2>1. PICK k \in 0..Len(ns) : Innermost(n, k)
    BY <1>2, ResolveIs
  <2> DEFINE q == SubSeq(ns, 1, k)
  <2>2. q \in Namespaces
    BY PrefixesAreNamespaces
  <2>3. Resolve(n) = <<q, n>>
    BY <2>1 DEF Innermost
  <2>4. <<q, n>> \in Paths
    <3> HIDE DEF q
    <3> QED
      BY <2>2 DEF Paths
  <2> QED
    BY <2>3, <2>4, Zenon
<1> QED
  BY <1>1, <1>2

(* What is restored has been a default once.                                *)
LEMMA AtType ==
    ASSUME NEW fr \in Seq(Frames), NEW k \in Nat
    PROVE  /\ \A q \in Namespaces : At(fr, k, "namespace", q) \in Namespaces
           /\ \A m \in Masks : At(fr, k, "mask", m) \in Masks
<1>1. \A i \in 1..Len(fr) : fr[i] \in Frames
  OBVIOUS
<1>2. ASSUME NEW q \in Namespaces
      PROVE  At(fr, k, "namespace", q) \in Namespaces
  <2>1. CASE GuardsAbove(fr, k, "namespace") = {}
    BY <2>1, AtNone
  <2>2. CASE GuardsAbove(fr, k, "namespace") # {}
    <3>1. PICK i \in GuardsAbove(fr, k, "namespace") :
             \A j \in GuardsAbove(fr, k, "namespace") : i <= j
      BY <2>2, HasLowest
    <3>2. fr[i] \in Frames /\ fr[i].guard = "namespace"
      BY <1>1, AboveIs
    <3>3. fr[i].prev \in Namespaces
      BY <3>2 DEF Frames, NamespaceGuard, MaskGuard, Generator
    <3> QED
      BY <3>1, <3>3, AtLowest
  <2> QED
    BY <2>1, <2>2
<1>3. ASSUME NEW m \in Masks
      PROVE  At(fr, k, "mask", m) \in Masks
  <2>1. CASE GuardsAbove(fr, k, "mask") = {}
    BY <2>1, AtNone
  <2>2. CASE GuardsAbove(fr, k, "mask") # {}
    <3>1. PICK i \in GuardsAbove(fr, k, "mask") :
             \A j \in GuardsAbove(fr, k, "mask") : i <= j
      BY <2>2, HasLowest
    <3>2. fr[i] \in Frames /\ fr[i].guard = "mask"
      BY <1>1, AboveIs
    <3>3. fr[i].prev \in Masks
      BY <3>2 DEF Frames, NamespaceGuard, MaskGuard, Generator
    <3> QED
      BY <3>1, <3>3, AtLowest
  <2> QED
    BY <2>1, <2>2
<1> QED
  BY <1>2, <1>3

(* The operators of Registration are those for its stack.                   *)
LEMMA RestoredIsAt ==
    ASSUME NEW k
    PROVE  /\ NamespaceAt(k) = At(frames, k, "namespace", ns)
           /\ MaskAt(k) = At(frames, k, "mask", mask)
BY DEF NamespaceAt, MaskAt, Restored, Above, At, GuardsAbove

-----------------------------------------------------------------------------
(* What a step does to the stack: it pushes a frame that restores what is   *)
(* current, destroys all but the k lowest, or leaves the stack alone.       *)

Pushes(f) ==
    /\ Len(frames) < MaxFrames
    /\ frames' = Append(frames, f)
    /\ \/ f \in NamespaceGuard /\ f.prev = ns /\ ns' \in Namespaces /\ mask' = mask
       \/ f \in MaskGuard /\ f.prev = mask /\ mask' \in Masks /\ ns' = ns
       \/ f \in Generator /\ UNCHANGED <<ns, mask>>

StackStep == \/ \E f \in Frames : Pushes(f)
             \/ \E k \in 0..Len(frames) : Unwind(k)
             \/ UNCHANGED <<ns, mask, frames>>

StackTypeOK == /\ ns \in Namespaces
               /\ mask \in Masks
               /\ frames \in Seq(Frames)
               /\ Len(frames) <= MaxFrames

(* A generator is pushed and restores nothing.                              *)
LEMMA NewGeneratorPushes ==
    ASSUME StackTypeOK, NEW class \in Classes, NEW n \in Names,
           NEW type \in Paths \cup {None}, NewGenerator(class, n, type)
    PROVE  StackStep
<1> DEFINE f == [guard |-> "none", class |-> class, name |-> n,
                 type |-> type, home |-> ns]
<1>1. f \in Generator
  BY DEF Generator, StackTypeOK
<1>2. Pushes(f)
  BY <1>1 DEF NewGenerator, Push, Pushes
<1> QED
  BY <1>1, <1>2 DEF StackStep, Frames

(* A name in the current namespace.                                         *)
LEMMA HereIsAPath ==
    ASSUME StackTypeOK, NEW n \in Names
    PROVE  Here(n) \in Paths
BY DEF StackTypeOK, Here, Paths

(* Constructors of generators push one frame or none.                       *)
LEMMA ConstructsStack ==
    ASSUME StackTypeOK, NEW n \in Names, Constructs(n)
    PROVE  StackStep
<1>1. PICK c \in Classes :
         \/ RegisterType(c, n) \/ RegisterTypeFails(c, n)
         \/ AppendType(c, n) \/ AppendNothing(c, n) \/ AppendNewType(c, n)
  BY DEF Constructs
<1>2. Here(n) \in Paths \cup {None} /\ None \in Paths \cup {None}
  BY HereIsAPath
<1>3. Resolve(n) \in Paths \cup {None}
  BY ResolveType DEF StackTypeOK
<1>4. CASE RegisterType(c, n)
  BY <1>2, <1>4, NewGeneratorPushes DEF RegisterType
<1>5. CASE RegisterTypeFails(c, n)
  <2>1. CASE Throw
    BY <2>1 DEF Throw, StackStep
  <2>2. CASE NewGenerator(c, n, None)
    BY <1>2, <2>2, NewGeneratorPushes
  <2> QED
    BY <1>5, <2>1, <2>2 DEF RegisterTypeFails
<1>6. CASE AppendType(c, n)
  BY <1>3, <1>6, NewGeneratorPushes DEF AppendType
<1>7. CASE AppendNothing(c, n)
  BY <1>2, <1>7, NewGeneratorPushes DEF AppendNothing
<1>8. CASE AppendNewType(c, n)
  BY <1>2, <1>8, NewGeneratorPushes DEF AppendNewType
<1> QED
  BY <1>1, <1>4, <1>5, <1>6, <1>7, <1>8

(* Guards push one frame; a block that ends destroys the last.              *)
LEMMA GuardsStack ==
    ASSUME StackTypeOK, Guards
    PROVE  StackStep
<1>1. CASE CloseBlock
  <2>1. Len(frames) - 1 \in 0..Len(frames)
    BY <1>1 DEF CloseBlock, StackTypeOK
  <2> QED
    BY <1>1, <2>1 DEF CloseBlock, StackStep
<1>2. ASSUME NEW q \in Namespaces, NEW nested \in BOOLEAN, OpenNamespace(q, nested)
      PROVE  StackStep
  <2> DEFINE f == [guard |-> "namespace", prev |-> ns]
  <2>1. f \in NamespaceGuard
    BY DEF NamespaceGuard, StackTypeOK
  <2>2. ns' \in Namespaces
    BY <1>2, NestedNamespaces DEF OpenNamespace, StackTypeOK
  <2>3. Pushes(f)
    BY <1>2, <2>1, <2>2 DEF OpenNamespace, Push, Pushes
  <2> QED
    BY <2>1, <2>3 DEF StackStep, Frames
<1>3. ASSUME NEW m \in Masks, OpenMask(m)
      PROVE  StackStep
  <2> DEFINE f == [guard |-> "mask", prev |-> mask]
  <2>1. f \in MaskGuard
    BY DEF MaskGuard, StackTypeOK
  <2>2. Pushes(f)
    BY <1>3, <2>1 DEF OpenMask, Push, Pushes
  <2> QED
    BY <2>1, <2>2 DEF StackStep, Frames
<1> QED
  BY <1>1, <1>2, <1>3 DEF Guards

(* Registering leaves the stack alone; an exception destroys a part of it.  *)
LEMMA RegistersStack ==
    ASSUME StackTypeOK, Registers
    PROVE  StackStep
<1>1. CASE Throw
  BY <1>1 DEF Throw, StackStep
<1>2. ASSUME NEW i \in DOMAIN frames, NEW what \in Kinds,
             Member(i, what) \/ MemberFails(i, what)
      PROVE  StackStep
  BY <1>1, <1>2 DEF Member, MemberFails, NewMember, StackStep
<1>3. ASSUME NEW i \in DOMAIN frames, QuietMember(i)
      PROVE  StackStep
  BY <1>3 DEF QuietMember, NewMember, StackStep
<1>4. CASE GlobalFunction \/ GlobalFunctionFails
  BY <1>1, <1>4 DEF GlobalFunction, GlobalFunctionFails, StackStep
<1> QED
  BY <1>2, <1>3, <1>4 DEF Registers

(* Every step.                                                              *)
LEMMA StepsOfTheStack ==
    ASSUME StackTypeOK, [Next]_vars
    PROVE  StackStep
BY ConstructsStack, GuardsStack, RegistersStack DEF Next, vars, StackStep

(* ... and each of the three keeps the types of the stack.                  *)
LEMMA StackTypes ==
    ASSUME StackTypeOK, StackStep
    PROVE  StackTypeOK'
<1>1. ASSUME NEW f \in Frames, Pushes(f)
      PROVE  StackTypeOK'
  <2>1. /\ frames' \in Seq(Frames)
        /\ Len(frames') = Len(frames) + 1
        /\ Len(frames) \in Nat /\ Len(frames) < MaxFrames
    BY <1>1 DEF Pushes, StackTypeOK
  <2>2. ns' \in Namespaces /\ mask' \in Masks
    BY <1>1 DEF Pushes, StackTypeOK
  <2> QED
    BY <2>1, <2>2, BoundsAssumption DEF StackTypeOK
<1>2. ASSUME NEW k \in 0..Len(frames), Unwind(k)
      PROVE  StackTypeOK'
  <2>1. k \in Nat /\ k <= Len(frames)
    BY DEF StackTypeOK
  <2>2. /\ frames' \in Seq(Frames)
        /\ Len(frames') = k
    BY <1>2, <2>1 DEF Unwind, StackTypeOK
  <2>3. ns' \in Namespaces /\ mask' \in Masks
    BY <1>2, <2>1, AtType, RestoredIsAt DEF Unwind, StackTypeOK
  <2> QED
    BY <2>1, <2>2, <2>3, BoundsAssumption DEF StackTypeOK
<1>3. CASE UNCHANGED <<ns, mask, frames>>
  BY <1>3 DEF StackTypeOK
<1> QED
  BY <1>1, <1>2, <1>3 DEF StackStep

(* The engine keeps its types too.                                          *)
EngineTypeOK ==
    /\ types \in [Paths -> Classes \cup {None}]
    /\ members \subseteq [what : Kinds, of : Paths, by : Paths \cup {None}]
    /\ functions \subseteq Namespaces

(* An exception takes nothing from the engine.                              *)
LEMMA ThrowLeavesTheEngine ==
    ASSUME EngineTypeOK, Throw
    PROVE  EngineTypeOK'
BY DEF EngineTypeOK, Throw, engine

(* Constructors register types with paths.                                  *)
LEMMA ConstructsTypes ==
    ASSUME StackTypeOK, EngineTypeOK, NEW n \in Names, Constructs(n)
    PROVE  EngineTypeOK'
<1>1. PICK c \in Classes :
         \/ RegisterType(c, n) \/ RegisterTypeFails(c, n)
         \/ AppendType(c, n) \/ AppendNothing(c, n) \/ AppendNewType(c, n)
  BY DEF Constructs
<1>2. CASE RegisterType(c, n) \/ AppendNewType(c, n)
  <2>1. types' = [types EXCEPT ![Here(n)] = c] /\ UNCHANGED <<members, functions>>
    BY <1>2 DEF RegisterType, AppendNewType
  <2> QED
    BY <2>1 DEF EngineTypeOK
<1>3. CASE RegisterTypeFails(c, n)
  BY <1>3, ThrowLeavesTheEngine DEF RegisterTypeFails, EngineTypeOK, engine
<1>4. CASE AppendType(c, n) \/ AppendNothing(c, n)
  BY <1>4 DEF AppendType, AppendNothing, EngineTypeOK, engine
<1> QED
  BY <1>1, <1>2, <1>3, <1>4

(* A member has the path of its generator's type.                           *)
LEMMA NewMemberTypes ==
    ASSUME StackTypeOK, EngineTypeOK, NEW i \in DOMAIN frames, NEW what \in Kinds,
           Uses(frames[i], what), NewMember(frames[i], what)
    PROVE  EngineTypeOK'
<1> DEFINE g == frames[i]
<1>1. g \in Generator
  BY DEF StackTypeOK, Frames, NamespaceGuard, MaskGuard, Uses
<1>2. g.name \in Names /\ g.type \in Paths \cup {None}
  BY <1>1 DEF Generator
<1> HIDE DEF g
<1>3. Resolve(g.name) \in Paths
  BY <1>2, ResolveType DEF NewMember, Taken, StackTypeOK, g
<1> DEFINE p == Resolve(g.name)
           m == [what |-> what, of |-> p,
                 by |-> IF ns = g.home THEN g.type ELSE None]
<1>4. members' = members \cup {m} /\ UNCHANGED <<types, functions>>
  BY DEF NewMember, g
<1>5. p \in Paths
  BY <1>3
<1> HIDE DEF p
<1>6. m \in [what : Kinds, of : Paths, by : Paths \cup {None}]
  BY <1>2, <1>5
<1> HIDE DEF m
<1> QED
  BY <1>4, <1>6 DEF EngineTypeOK

(* Registering keeps the types of the engine.                               *)
LEMMA RegistersTypes ==
    ASSUME StackTypeOK, EngineTypeOK, Registers
    PROVE  EngineTypeOK'
<1>1. ASSUME NEW i \in DOMAIN frames, NEW what \in Kinds, Member(i, what)
      PROVE  EngineTypeOK'
  BY <1>1, NewMemberTypes DEF Member
<1>2. ASSUME NEW i \in DOMAIN frames, QuietMember(i)
      PROVE  EngineTypeOK'
  <2>1. "property" \in Kinds
    BY DEF Kinds
  <2> QED
    BY <1>2, <2>1, NewMemberTypes DEF QuietMember
<1>3. CASE GlobalFunction
  BY <1>3 DEF GlobalFunction, EngineTypeOK, StackTypeOK
<1> QED
  BY <1>1, <1>2, <1>3, ThrowLeavesTheEngine
     DEF Registers, MemberFails, GlobalFunctionFails

(* At first nothing is registered and the stack is empty.                   *)
LEMMA InitTypes == Init => TypeOK
<1> USE DEF Frames
<1> SUFFICES ASSUME Init
             PROVE  TypeOK
  OBVIOUS
<1>1. frames \in Seq(Frames) /\ Len(frames) = 0
  BY DEF Init
<1>2. ns \in Namespaces
  <2>1. << >> \in Seq(Parts) /\ Len(<< >>) = 0
    OBVIOUS
  <2>2. Len(<< >>) <= MaxNesting
    BY <2>1, BoundsAssumption
  <2>3. << >> \in Namespaces
    BY <2>1, <2>2, NamespacesAreSequences
  <2> QED
    BY <2>3 DEF Init
<1> QED
  BY <1>1, <1>2, BoundsAssumption DEF Init, TypeOK

(***************************************************************************)
(* Whatever is registered in whatever order, with exceptions anywhere, the *)
(* defaults, the stack of guards and generators and what the engine has    *)
(* keep their types: every guard restores a namespace or a mask, and every *)
(* member has a type that the engine knows by a path.                      *)
(***************************************************************************)
THEOREM TypeCorrect == Spec => []TypeOK
<1> USE DEF Frames
<1>1. TypeOK <=> StackTypeOK /\ EngineTypeOK
  BY DEF TypeOK, StackTypeOK, EngineTypeOK
<1>2. Init => TypeOK
  BY InitTypes
<1>3. TypeOK /\ [Next]_vars => TypeOK'
  <2> SUFFICES ASSUME TypeOK, [Next]_vars
               PROVE  TypeOK'
    OBVIOUS
  <2>1. StackTypeOK'
    BY <1>1, StepsOfTheStack, StackTypes
  <2>2. EngineTypeOK'
    <3>1. CASE Guards
      <4>1. UNCHANGED engine
        BY <3>1 DEF Guards, CloseBlock, OpenNamespace, OpenMask
      <4> QED
        BY <1>1, <4>1 DEF engine, EngineTypeOK
    <3>2. CASE UNCHANGED vars
      BY <1>1, <3>2 DEF vars, EngineTypeOK
    <3> QED
      BY <1>1, <3>1, <3>2, ConstructsTypes, RegistersTypes DEF Next
  <2> QED
    BY <2>1, <2>2 DEF TypeOK, StackTypeOK, EngineTypeOK
<1> QED
  BY <1>2, <1>3, PTL DEF Spec

-----------------------------------------------------------------------------
(* Environments.                                                            *)

Envs == [k \in 1..Len(frames) + 1 |-> Env(k - 1)]

(* The environment below k is what the guards above it restore.             *)
LEMMA EnvIsAt ==
    ASSUME NEW k
    PROVE  Env(k) = [ns |-> At(frames, k, "namespace", ns),
                     mask |-> At(frames, k, "mask", mask)]
BY RestoredIsAt DEF Env

EnvsOK == /\ Len(frames) \in Nat
          /\ Envs \in Seq(Lexical!Environments)
          /\ Len(Envs) = Len(frames) + 1
          /\ Envs[Len(frames) + 1] = [ns |-> ns, mask |-> mask]

(* The environments are a sequence, the current one is last.                *)
LEMMA EnvsType == StackTypeOK => EnvsOK
<1> SUFFICES ASSUME StackTypeOK
             PROVE  EnvsOK
  OBVIOUS
<1>1. Len(frames) \in Nat
  BY DEF StackTypeOK
<1>2. \A k \in 0..Len(frames) : Env(k) \in Lexical!Environments
  <2> SUFFICES ASSUME NEW k \in 0..Len(frames)
               PROVE  Env(k) \in Lexical!Environments
    OBVIOUS
  <2>1. k \in Nat
    BY <1>1
  <2>2. /\ At(frames, k, "namespace", ns) \in Namespaces
        /\ At(frames, k, "mask", mask) \in Masks
    BY <2>1, AtType DEF StackTypeOK
  <2> QED
    BY <2>2, EnvIsAt DEF Lexical!Environments
<1>3. \A i \in 1..Len(frames) + 1 : i - 1 \in 0..Len(frames)
  BY <1>1
<1>4. \A k \in 0..Len(frames) : k + 1 \in 1..Len(frames) + 1 /\ (k + 1) - 1 = k
  BY <1>1
<1>5. Envs \in [1..Len(frames) + 1 -> Lexical!Environments]
  BY <1>2, <1>3 DEF Envs
<1>6. Envs \in Seq(Lexical!Environments) /\ Len(Envs) = Len(frames) + 1
  <2> DEFINE n == Len(frames) + 1
  <2>1. n \in Nat /\ Envs \in [1..n -> Lexical!Environments]
    BY <1>1, <1>5
  <2> HIDE DEF n
  <2>2. Envs \in Seq(Lexical!Environments) /\ Len(Envs) = n
    BY <2>1
  <2> QED
    BY <2>2 DEF n
<1>7. Env(Len(frames)) = [ns |-> ns, mask |-> mask]
  BY EnvIsAt, NothingAbove DEF StackTypeOK
<1> QED
  BY <1>1, <1>4, <1>6, <1>7 DEF Envs, EnvsOK

(* ... after a step, too.                                                   *)
LEMMA EnvsTypeNext == StackTypeOK' => EnvsOK'
BY EnvsType, PTL

(* A frame that is pushed opens an environment.                             *)
LEMMA PushOpens ==
    ASSUME StackTypeOK, StackTypeOK', NEW f \in Frames, Pushes(f)
    PROVE  Lexical!Open(Envs, Envs')
<1>1. /\ Len(frames) \in Nat /\ frames' = Append(frames, f)
      /\ frames \in Seq(Frames) /\ Len(frames') = Len(frames) + 1
  BY DEF StackTypeOK, Pushes
<1>2. ASSUME NEW k \in 0..Len(frames)
      PROVE  Env(k)' = Env(k)
  <2>1. /\ NamespaceAt(k)' = At(frames', k, "namespace", ns')
        /\ MaskAt(k)' = At(frames', k, "mask", mask')
    BY DEF NamespaceAt, MaskAt, Restored, Above, At, GuardsAbove
  <2>2. CASE f \in NamespaceGuard /\ f.prev = ns /\ mask' = mask
    <3>1. f.guard = "namespace" /\ f.guard # "mask"
      BY <2>2 DEF NamespaceGuard
    <3>2. At(frames', k, "namespace", ns') = At(frames, k, "namespace", ns)
      BY <1>1, <2>2, <3>1, PushGuard
    <3>3. At(frames', k, "mask", mask') = At(frames, k, "mask", mask)
      BY <1>1, <2>2, <3>1, PushOther
    <3> QED
      BY <2>1, <3>2, <3>3, RestoredIsAt DEF Env
  <2>3. CASE f \in MaskGuard /\ f.prev = mask /\ ns' = ns
    <3>1. f.guard = "mask" /\ f.guard # "namespace"
      BY <2>3 DEF MaskGuard
    <3>2. At(frames', k, "namespace", ns') = At(frames, k, "namespace", ns)
      BY <1>1, <2>3, <3>1, PushOther
    <3>3. At(frames', k, "mask", mask') = At(frames, k, "mask", mask)
      BY <1>1, <2>3, <3>1, PushGuard
    <3> QED
      BY <2>1, <3>2, <3>3, RestoredIsAt DEF Env
  <2>4. CASE f \in Generator /\ UNCHANGED <<ns, mask>>
    <3>1. f.guard # "mask" /\ f.guard # "namespace"
      BY <2>4 DEF Generator
    <3>2. At(frames', k, "namespace", ns') = At(frames, k, "namespace", ns)
      BY <1>1, <2>4, <3>1, PushOther
    <3>3. At(frames', k, "mask", mask') = At(frames, k, "mask", mask)
      BY <1>1, <2>4, <3>1, PushOther
    <3> QED
      BY <2>1, <3>2, <3>3, RestoredIsAt DEF Env
  <2> QED
    BY <2>2, <2>3, <2>4 DEF Pushes
<1> DEFINE n == Len(frames) + 1
           old == Envs
           new == Envs'
<1>3. /\ n \in Nat /\ n >= 1
      /\ old \in Seq(Lexical!Environments) /\ Len(old) = n
      /\ new \in Seq(Lexical!Environments) /\ Len(new) = n + 1
      /\ old[n] = [ns |-> ns, mask |-> mask]
      /\ new[n + 1] = [ns |-> ns', mask |-> mask']
  <2>1. /\ Envs \in Seq(Lexical!Environments) /\ Len(Envs) = n
        /\ Envs[n] = [ns |-> ns, mask |-> mask]
    BY <1>1, EnvsType DEF EnvsOK
  <2>2. /\ Envs' \in Seq(Lexical!Environments) /\ Len(Envs') = Len(frames') + 1
        /\ Envs'[Len(frames') + 1] = [ns |-> ns', mask |-> mask']
    BY <1>1, EnvsTypeNext DEF EnvsOK, Lexical!Environments
  <2> QED
    BY <1>1, <2>1, <2>2 DEF Lexical!Environments
<1>4. \A i \in 1..n : new[i] = old[i]
  BY <1>1, <1>2 DEF Envs
<1>5. ns' = ns \/ mask' = mask
  BY DEF Pushes
<1> HIDE DEF n, old, new
<1>6. SubSeq(new, 1, n) = old
  BY <1>3, <1>4
<1>7. new[n + 1] \in Lexical!Environments
  BY <1>3
<1>8. Lexical!Open(old, new)
  BY <1>3, <1>5, <1>6, <1>7 DEF Lexical!Open
<1> QED
  BY <1>8 DEF old, new

(* Frames that are destroyed leave the environments below them.             *)
LEMMA UnwindLeaves ==
    ASSUME StackTypeOK, StackTypeOK', NEW m \in 0..Len(frames), Unwind(m)
    PROVE  Lexical!Leave(Envs, Envs')
<1>1. /\ Len(frames) \in Nat /\ frames' = SubSeq(frames, 1, m)
      /\ frames \in Seq(Frames) /\ Len(frames') = m /\ m \in Nat
  BY DEF StackTypeOK, Unwind
<1>2. ASSUME NEW k \in 0..m
      PROVE  Env(k)' = Env(k)
  <2>1. /\ NamespaceAt(k)' = At(frames', k, "namespace", ns')
        /\ MaskAt(k)' = At(frames', k, "mask", mask')
    BY DEF NamespaceAt, MaskAt, Restored, Above, At, GuardsAbove
  <2>2. /\ ns' = At(frames, m, "namespace", ns)
        /\ mask' = At(frames, m, "mask", mask)
    BY RestoredIsAt DEF Unwind
  <2>3. At(frames', k, "namespace", ns') = At(frames, k, "namespace", ns)
    BY <1>1, <2>2, DestroyInTurn
  <2>4. At(frames', k, "mask", mask') = At(frames, k, "mask", mask)
    BY <1>1, <2>2, DestroyInTurn
  <2> QED
    BY <2>1, <2>3, <2>4, RestoredIsAt DEF Env
<1> DEFINE n == m + 1
           old == Envs
           new == Envs'
<1>3. /\ n \in 1..Len(old) /\ Len(old) \in Nat
      /\ old \in Seq(Lexical!Environments)
      /\ new \in Seq(Lexical!Environments) /\ Len(new) = n
  <2>1. Envs' \in Seq(Lexical!Environments) /\ Len(Envs') = Len(frames') + 1
    BY EnvsTypeNext DEF EnvsOK, Lexical!Environments
  <2> QED
    BY <1>1, <2>1, EnvsType DEF EnvsOK
<1>4. \A i \in 1..n : new[i] = old[i]
  BY <1>1, <1>2 DEF Envs
<1> HIDE DEF n, old, new
<1>5. new = SubSeq(old, 1, n)
  BY <1>3, <1>4
<1>6. Lexical!Leave(old, new)
  BY <1>3, <1>5 DEF Lexical!Leave
<1> QED
  BY <1>6 DEF old, new

(***************************************************************************)
(* The guards of any program, destroyed by the end of a block or by an     *)
(* exception that is caught anywhere, give registration the environments   *)
(* that blocks suggest: what a guard changed is undone with it, and with   *)
(* all that was opened inside.                                             *)
(***************************************************************************)
THEOREM ImplementsLexicalScopes == Spec => ImplementsScopes
<1>1. Init => Lexical!Init
  <2> SUFFICES ASSUME Init
               PROVE  \E e \in Lexical!Environments : Envs = <<e>>
    BY DEF Lexical!Init, Envs
  <2> DEFINE e == [ns |-> ns, mask |-> mask]
  <2>1. TypeOK /\ Len(frames) = 0
    BY InitTypes DEF Init
  <2>2. StackTypeOK
    BY <2>1 DEF TypeOK, StackTypeOK, Frames
  <2>3. e \in Lexical!Environments
    BY <2>2 DEF StackTypeOK, Lexical!Environments
  <2>4. Envs \in Seq(Lexical!Environments) /\ Len(Envs) = 1 /\ Envs[1] = e
    BY <2>1, <2>2, EnvsType DEF EnvsOK
  <2> HIDE DEF e
  <2>5. Envs = <<e>>
    BY <2>4
  <2> QED
    BY <2>3, <2>5
<1>2. TypeOK /\ [Next]_vars /\ TypeOK' => [Lexical!Next]_Envs
  <2> SUFFICES ASSUME TypeOK, [Next]_vars, TypeOK'
               PROVE  [Lexical!Next]_Envs
    OBVIOUS
  <2>1. StackTypeOK /\ StackTypeOK'
    BY DEF TypeOK, StackTypeOK, Frames
  <2>2. ASSUME NEW f \in Frames, Pushes(f)
        PROVE  Lexical!Next
    <3>1. Lexical!Open(Envs, Envs')
      BY <2>1, <2>2, PushOpens
    <3> QED
      BY <3>1 DEF Lexical!Next, Envs
  <2>3. ASSUME NEW m \in 0..Len(frames), Unwind(m)
        PROVE  Lexical!Next
    <3>1. Lexical!Leave(Envs, Envs')
      BY <2>1, <2>3, UnwindLeaves
    <3> QED
      BY <3>1 DEF Lexical!Next, Envs
  <2>4. CASE UNCHANGED <<ns, mask, frames>>
    <3>1. Envs' = Envs
      BY <2>4 DEF Envs, Env, NamespaceAt, MaskAt, Restored, Above
    <3> QED
      BY <3>1
  <2> QED
    BY <2>1, <2>2, <2>3, <2>4, StepsOfTheStack DEF StackStep
<1>3. ImplementsScopes <=> Lexical!Init /\ [][Lexical!Next]_Envs
  BY DEF ImplementsScopes, Lexical!Spec, Envs
<1> QED
  BY <1>1, <1>2, <1>3, TypeCorrect, PTL DEF Spec

-----------------------------------------------------------------------------
(* What registration keeps: a type stays what it is once it is registered.  *)

TypesStay == \A p \in Paths : types[p] # None => types'[p] = types[p]

NewType(n, c) == /\ types[Here(n)] = None
                 /\ types' = [types EXCEPT ![Here(n)] = c]

(* Where a name stands for nothing it is free.                              *)
LEMMA NothingHere ==
    ASSUME StackTypeOK, NEW n \in Names, Resolve(n) = None
    PROVE  types[Here(n)] = None
<1>1. ns \in Namespaces /\ ns \in Seq(Parts) /\ Len(ns) \in Nat
  BY NamespacesAreSequences DEF StackTypeOK
<1>2. SubSeq(ns, 1, Len(ns)) = ns
  BY <1>1
<1>3. ASSUME types[Here(n)] # None
      PROVE  FALSE
  <2>1. Len(ns) \in Enclosing(n)
    BY <1>1, <1>2, <1>3 DEF Enclosing, Here
  <2>2. PICK k \in 0..Len(ns) : Innermost(n, k)
    BY <1>1, <2>1, ResolveIs
  <2> DEFINE q == SubSeq(ns, 1, k)
  <2>3. q \in Namespaces /\ Resolve(n) = <<q, n>>
    BY <1>1, <2>2, PrefixesAreNamespaces DEF Innermost
  <2> HIDE DEF q
  <2>4. <<q, n>> \in Paths
    BY <2>3 DEF Paths
  <2>5. None \in Paths
    BY <2>3, <2>4, Zenon
  <2> QED
    BY <2>5, NoneAssumption
<1> QED
  BY <1>3

(* A type that is new takes nobody's name.                                  *)
LEMMA NewTypeStays ==
    ASSUME EngineTypeOK, NEW n, NEW c, NewType(n, c)
    PROVE  TypesStay
BY DEF TypesStay, NewType, EngineTypeOK

(* What a constructor does to the types, and the generator it makes.        *)
MakesGenerator(c, n, t) ==
    /\ NewGenerator(c, n, t)
    /\ t # None => \/ NewType(n, c) /\ t = Here(n)
                   \/ UNCHANGED types /\ t = Resolve(n) /\ Compatible(c, types[t])

(* The checks that compare at all compare with the class.                   *)
LEMMA CompatibleIs ==
    ASSUME NEW c \in {"ref", "enum"}, NEW e, Compatible(c, e)
    PROVE  e = c
BY Zenon DEF Compatible

(* A constructor throws, or makes a generator and at most one type.         *)
LEMMA ConstructsMakes ==
    ASSUME StackTypeOK, NEW n \in Names, NEW c \in Classes,
           \/ RegisterType(c, n) \/ RegisterTypeFails(c, n)
           \/ AppendType(c, n) \/ AppendNothing(c, n) \/ AppendNewType(c, n)
    PROVE  \/ Throw
           \/ /\ \E t \in Paths \cup {None} : MakesGenerator(c, n, t)
              /\ UNCHANGED types \/ NewType(n, c)
<1>1. Here(n) \in Paths /\ Resolve(n) \in Paths \cup {None}
  BY HereIsAPath, ResolveType DEF StackTypeOK
<1>2. CASE RegisterType(c, n)
  BY <1>1, <1>2 DEF RegisterType, MakesGenerator, NewType
<1>3. CASE RegisterTypeFails(c, n)
  BY <1>3 DEF RegisterTypeFails, MakesGenerator, engine
<1>4. CASE AppendType(c, n)
  BY <1>1, <1>4 DEF AppendType, MakesGenerator, engine
<1>5. CASE AppendNothing(c, n)
  BY <1>5 DEF AppendNothing, MakesGenerator, engine
<1>6. CASE AppendNewType(c, n)
  BY <1>1, <1>6, NothingHere DEF AppendNewType, MakesGenerator, NewType
<1> QED
  BY <1>2, <1>3, <1>4, <1>5, <1>6

-----------------------------------------------------------------------------
(* Generators know their types: the type has the name of the generator, in  *)
(* the namespace that it was made in or one around that, the engine has it, *)
(* and it is of the class if the class is one that is compared.             *)

Knows(g, ts) ==
    g.guard = "none" /\ g.type # None =>
       /\ ts[g.type] # None
       /\ g.class \in {"ref", "enum"} => ts[g.type] = g.class
       /\ \E k \in 0..Len(g.home) : g.type = <<SubSeq(g.home, 1, k), g.name>>

GeneratorsKnow == \A i \in 1..Len(frames) : Knows(frames[i], types)

(* Types that stay stay known.                                              *)
LEMMA StillKnown ==
    ASSUME NEW g \in Frames, Knows(g, types), TypesStay
    PROVE  Knows(g, types')
<1>1. g.guard = "none" /\ g.type # None => g.type \in Paths
  BY DEF Frames, NamespaceGuard, MaskGuard, Generator
<1> QED
  BY <1>1 DEF Knows, TypesStay

(* A new generator knows the type that it registered or found.              *)
LEMMA NewGeneratorKnows ==
    ASSUME StackTypeOK, EngineTypeOK, NEW n \in Names, NEW c \in Classes,
           NEW t \in Paths \cup {None}, MakesGenerator(c, n, t)
    PROVE  \A name, home, class :
              name = n /\ home = ns /\ class = c =>
                 Knows([guard |-> "none", class |-> class, name |-> name,
                        type |-> t, home |-> home], types')
<1> DEFINE g == [guard |-> "none", class |-> c, name |-> n, type |-> t, home |-> ns]
<1>1. CASE t = None
  BY <1>1 DEF Knows
<1>2. CASE t # None /\ NewType(n, c) /\ t = Here(n)
  <2>1. types'[t] = c /\ c # None
    BY <1>2, NoneAssumption, HereIsAPath DEF NewType, EngineTypeOK
  <2>2. ns \in Seq(Parts) /\ Len(ns) \in Nat
    BY NamespacesAreSequences DEF StackTypeOK
  <2>3. SubSeq(ns, 1, Len(ns)) = ns /\ Len(ns) \in 0..Len(ns)
    BY <2>2
  <2>4. \E k \in 0..Len(ns) : t = <<SubSeq(ns, 1, k), n>>
    BY <1>2, <2>3 DEF Here
  <2> QED
    BY <2>1, <2>4 DEF Knows
<1>3. CASE t # None /\ UNCHANGED types /\ t = Resolve(n) /\ Compatible(c, types[t])
  <2>1. Enclosing(n) # {}
    BY <1>3 DEF Resolve
  <2>2. PICK k \in 0..Len(ns) : Innermost(n, k)
    BY <2>1, ResolveIs DEF StackTypeOK
  <2>3. types[t] # None /\ t = <<SubSeq(ns, 1, k), n>>
    BY <1>3, <2>2 DEF Innermost, Enclosing
  <2>4. c \in {"ref", "enum"} => types[t] = c
    BY <1>3, CompatibleIs
  <2> QED
    BY ZenonT(30), <1>3, <2>3, <2>4 DEF Knows
<1> QED
  BY <1>1, <1>2, <1>3 DEF MakesGenerator

(* A frame that knows its type joins frames that do.                        *)
LEMMA PushKnows ==
    ASSUME StackTypeOK, GeneratorsKnow, TypesStay, NEW f, Push(f), Knows(f, types')
    PROVE  GeneratorsKnow'
<1> DEFINE n == Len(frames)
<1>1. /\ n \in Nat /\ frames' = Append(frames, f)
      /\ \A i \in 1..n : frames[i] \in Frames
  BY DEF StackTypeOK, Push
<1>2. /\ Len(frames') = n + 1 /\ frames'[n + 1] = f
      /\ \A i \in 1..n : frames'[i] = frames[i]
  BY <1>1 DEF StackTypeOK
<1>3. ASSUME NEW i \in 1..Len(frames')
      PROVE  Knows(frames'[i], types')
  <2>1. CASE i \in 1..n
    BY <1>1, <1>2, <2>1, StillKnown DEF GeneratorsKnow
  <2>2. CASE i = n + 1
    BY <1>2, <2>2
  <2> QED
    BY <1>1, <1>2, <2>1, <2>2
<1> QED
  BY <1>3 DEF GeneratorsKnow

(* Frames that are left know what they knew.                                *)
LEMMA UnwindKnows ==
    ASSUME StackTypeOK, GeneratorsKnow, NEW k \in 0..Len(frames), Unwind(k),
           UNCHANGED types
    PROVE  GeneratorsKnow'
<1>1. /\ k \in Nat /\ Len(frames) \in Nat /\ frames' = SubSeq(frames, 1, k)
      /\ frames \in Seq(Frames)
  BY DEF StackTypeOK, Unwind
<1>2. Len(frames') = k /\ \A i \in 1..k : frames'[i] = frames[i] /\ i \in 1..Len(frames)
  BY <1>1
<1> QED
  BY <1>2 DEF GeneratorsKnow

(* An exception registers nothing.                                          *)
LEMMA ThrowKnows ==
    ASSUME StackTypeOK, GeneratorsKnow, Throw
    PROVE  GeneratorsKnow' /\ TypesStay
BY UnwindKnows DEF Throw, engine, TypesStay

(* The generator of a constructor knows its type.                           *)
LEMMA ConstructsKnow ==
    ASSUME StackTypeOK, EngineTypeOK, GeneratorsKnow, NEW n \in Names, Constructs(n)
    PROVE  GeneratorsKnow' /\ TypesStay
<1>1. PICK c \in Classes :
         \/ RegisterType(c, n) \/ RegisterTypeFails(c, n)
         \/ AppendType(c, n) \/ AppendNothing(c, n) \/ AppendNewType(c, n)
  BY DEF Constructs
<1>2. CASE Throw
  BY <1>2, ThrowKnows
<1>3. ASSUME NEW t \in Paths \cup {None}, MakesGenerator(c, n, t),
             UNCHANGED types \/ NewType(n, c)
      PROVE  GeneratorsKnow' /\ TypesStay
  <2> DEFINE f == [guard |-> "none", class |-> c, name |-> n,
                   type |-> t, home |-> ns]
  <2>1. TypesStay
    BY <1>3, NewTypeStays DEF TypesStay
  <2>2. Push(f)
    BY <1>3 DEF MakesGenerator, NewGenerator
  <2>3. Knows(f, types')
    BY <1>3, NewGeneratorKnows
  <2> HIDE DEF f
  <2> QED
    BY <2>1, <2>2, <2>3, PushKnows
<1> QED
  BY <1>1, <1>2, <1>3, ConstructsMakes

(* Scope guards register nothing.                                           *)
LEMMA GuardsKnow ==
    ASSUME StackTypeOK, GeneratorsKnow, Guards
    PROVE  GeneratorsKnow' /\ TypesStay
<1>1. TypesStay /\ UNCHANGED types
  BY DEF Guards, CloseBlock, OpenNamespace, OpenMask, engine, TypesStay
<1>2. CASE CloseBlock
  <2>1. Len(frames) - 1 \in 0..Len(frames)
    BY <1>2 DEF CloseBlock, StackTypeOK
  <2> QED
    BY <1>1, <1>2, <2>1, UnwindKnows DEF CloseBlock
<1>3. ASSUME NEW f, f.guard # "none", Push(f)
      PROVE  GeneratorsKnow'
  BY <1>1, <1>3, PushKnows DEF Knows
<1>4. ASSUME NEW q \in Namespaces, NEW nested \in BOOLEAN, OpenNamespace(q, nested)
      PROVE  GeneratorsKnow'
  BY <1>3, <1>4 DEF OpenNamespace
<1>5. ASSUME NEW m \in Masks, OpenMask(m)
      PROVE  GeneratorsKnow'
  BY <1>3, <1>5 DEF OpenMask
<1> QED
  BY <1>1, <1>2, <1>4, <1>5 DEF Guards

(* A registration leaves the generators and the types alone, or throws.     *)
LEMMA RegistersKnow ==
    ASSUME StackTypeOK, GeneratorsKnow, Registers
    PROVE  GeneratorsKnow' /\ TypesStay
<1>1. CASE Throw
  BY <1>1, ThrowKnows
<1>2. CASE UNCHANGED <<frames, types>>
  BY <1>2 DEF GeneratorsKnow, TypesStay
<1> QED
  BY <1>1, <1>2 DEF Registers, Member, MemberFails, QuietMember, NewMember,
     GlobalFunction, GlobalFunctionFails

GeneratorsInv == TypeOK /\ GeneratorsKnow

(* The stack and the engine have types of their own.                        *)
LEMMA InvSplits == TypeOK <=> StackTypeOK /\ EngineTypeOK
BY DEF TypeOK, StackTypeOK, EngineTypeOK, Frames

(* Every step keeps what generators know, and the types.                    *)
LEMMA GeneratorsStep == GeneratorsInv /\ [Next]_vars => GeneratorsKnow' /\ TypesStay
<1> SUFFICES ASSUME GeneratorsInv, [Next]_vars
             PROVE  GeneratorsKnow' /\ TypesStay
  OBVIOUS
<1>1. StackTypeOK /\ EngineTypeOK /\ GeneratorsKnow
  BY InvSplits DEF GeneratorsInv
<1>2. CASE UNCHANGED vars
  BY <1>1, <1>2 DEF vars, GeneratorsKnow, TypesStay
<1> QED
  BY <1>1, <1>2, ConstructsKnow, GuardsKnow, RegistersKnow DEF Next

(***************************************************************************)
(* From its constructor to its end a generator knows its type, by the name *)
(* and from the namespace it was made with: what later searches of that    *)
(* name find from there is this type or one that is nearer.                *)
(***************************************************************************)
THEOREM GeneratorsAlwaysKnow == Spec => []GeneratorsKnow
<1>1. Init => GeneratorsKnow
  <2> SUFFICES ASSUME Init
               PROVE  GeneratorsKnow
    OBVIOUS
  <2>1. Len(frames) = 0
    BY DEF Init
  <2> QED
    BY <2>1 DEF GeneratorsKnow
<1>2. TypeOK /\ GeneratorsKnow /\ [Next]_vars => GeneratorsKnow'
  BY GeneratorsStep DEF GeneratorsInv
<1> QED
  BY <1>1, <1>2, TypeCorrect, PTL DEF Spec

(***************************************************************************)
(* The checks of appending hold for as long as the generator lives, for    *)
(* any namespaces, types and exceptions that come between: what a          *)
(* ref_class or an enum_ has found or registered is of its class.          *)
(***************************************************************************)
THEOREM AppendingChecksHold == Spec => []AppendedTypesFit
<1>1. TypeOK /\ GeneratorsKnow => AppendedTypesFit
  <2> SUFFICES ASSUME TypeOK, GeneratorsKnow
               PROVE  AppendedTypesFit
    OBVIOUS
  <2>1. DOMAIN frames = 1..Len(frames)
    BY InvSplits DEF StackTypeOK
  <2> QED
    BY <2>1 DEF AppendedTypesFit, GeneratorsKnow, Knows
<1> QED
  BY <1>1, TypeCorrect, GeneratorsAlwaysKnow, PTL

-----------------------------------------------------------------------------
(* Members.                                                                 *)

(* The name of a generator finds its type, or a nearer one.                 *)
LEMMA MemberFollows ==
    ASSUME StackTypeOK, GeneratorsKnow, NEW g \in Generator, Knows(g, types),
           NEW what \in Kinds, NewMember(g, what), MembersFollowTheirGenerator
    PROVE  MembersFollowTheirGenerator'
<1> DEFINE p == Resolve(g.name)
           m == [what |-> what, of |-> p,
                 by |-> IF ns = g.home THEN g.type ELSE None]
<1>1. members' = members \cup {m}
  BY DEF NewMember
<1>2. ASSUME ns = g.home, g.type # None
      PROVE  p = g.type \/ Shadows(p, g.type)
  <2>1. types[g.type] # None
    BY <1>2 DEF Knows, Generator
  <2>2. PICK k \in 0..Len(ns) : g.type = <<SubSeq(ns, 1, k), g.name>>
    BY <1>2 DEF Knows, Generator
  <2>3. k \in Enclosing(g.name)
    BY <2>1, <2>2 DEF Enclosing
  <2>4. PICK j \in 0..Len(ns) : Innermost(g.name, j)
    BY <2>3, ResolveIs DEF StackTypeOK
  <2>5. k <= j /\ p = <<SubSeq(ns, 1, j), g.name>>
    BY <2>3, <2>4 DEF Innermost
  <2>6. ns \in Seq(Parts) /\ Len(ns) \in Nat
    BY NamespacesAreSequences DEF StackTypeOK
  <2>7. Len(SubSeq(ns, 1, j)) = j /\ Len(SubSeq(ns, 1, k)) = k
    BY <2>6
  <2>8. CASE k = j
    BY <2>2, <2>5, <2>8
  <2>9. CASE k < j
    <3>1. p[1] = SubSeq(ns, 1, j) /\ g.type[1] = SubSeq(ns, 1, k)
      BY <2>2, <2>5
    <3> QED
      BY <2>7, <2>9, <3>1 DEF Shadows
  <2> QED
    BY <2>5, <2>8, <2>9
<1> HIDE DEF p
<1>3. ASSUME m.by # None
      PROVE  m.of = m.by \/ Shadows(m.of, m.by)
  BY <1>2, <1>3
<1> HIDE DEF m
<1> QED
  BY <1>1, <1>3 DEF MembersFollowTheirGenerator

(***************************************************************************)
(* A generator that is used where it was made gives its members to the     *)
(* type that it registered or found, whatever other guards and generators  *)
(* did to the namespace in between, unless a type with the same name has   *)
(* been registered nearer to it.                                           *)
(***************************************************************************)
THEOREM MembersFollow == Spec => []MembersFollowTheirGenerator
<1>1. Init => MembersFollowTheirGenerator
  BY DEF Init, MembersFollowTheirGenerator
<1>2. TypeOK /\ GeneratorsKnow /\ MembersFollowTheirGenerator /\ [Next]_vars
         => MembersFollowTheirGenerator'
  <2> SUFFICES ASSUME TypeOK, GeneratorsKnow, MembersFollowTheirGenerator,
                      [Next]_vars
               PROVE  MembersFollowTheirGenerator'
    OBVIOUS
  <2>1. StackTypeOK
    BY InvSplits
  <2>2. CASE UNCHANGED members
    BY <2>2 DEF MembersFollowTheirGenerator
  <2>3. ASSUME NEW i \in DOMAIN frames, NEW what \in Kinds,
               Uses(frames[i], what), NewMember(frames[i], what)
        PROVE  MembersFollowTheirGenerator'
    <3> DEFINE g == frames[i]
    <3>1. g \in Frames /\ Knows(g, types) /\ g.guard = "none"
      BY <2>1, <2>3 DEF StackTypeOK, GeneratorsKnow, Uses
    <3>2. g \in Generator
      BY <3>1 DEF Frames, NamespaceGuard, MaskGuard
    <3>3. NewMember(g, what)
      BY <2>3
    <3> HIDE DEF g
    <3> QED
      BY <2>1, <3>1, <3>2, <3>3, MemberFollows
  <2>4. CASE Guards
    BY <2>2, <2>4 DEF Guards, CloseBlock, OpenNamespace, OpenMask, engine
  <2>5. CASE Registers
    <3>1. CASE Throw \/ GlobalFunction
      BY <2>2, <3>1 DEF Throw, GlobalFunction, engine
    <3>2. ASSUME NEW i \in DOMAIN frames, NEW what \in Kinds, Member(i, what)
          PROVE  MembersFollowTheirGenerator'
      BY <2>3, <3>2 DEF Member
    <3>3. ASSUME NEW i \in DOMAIN frames, QuietMember(i)
          PROVE  MembersFollowTheirGenerator'
      BY <2>3, <3>3 DEF QuietMember, Kinds
    <3> QED
      BY <2>5, <3>1, <3>2, <3>3 DEF Registers, MemberFails, GlobalFunctionFails
  <2>6. ASSUME NEW n \in Names, Constructs(n)
        PROVE  UNCHANGED members
    BY <2>6 DEF Constructs, RegisterType, RegisterTypeFails, AppendType,
       AppendNothing, AppendNewType, Throw, engine
  <2> QED
    BY <2>2, <2>4, <2>5, <2>6 DEF Next, vars
<1> QED
  BY <1>1, <1>2, TypeCorrect, GeneratorsAlwaysKnow, PTL DEF Spec

-----------------------------------------------------------------------------
(* Listeners.                                                               *)

News == { <<"type", p>> : p \in RegisteredTypes }
        \cup { <<m.what, m.of>> : m \in members }
        \cup { <<"function", q>> : q \in functions }

Quiet == { <<"type", p>> : p \in { q \in RegisteredTypes : types[q] = "ref" } }
         \cup { <<m.what, m.of>> : m \in { x \in members : x.what = "property" } }

(* Nothing false is told and nothing that has a callback is left out.       *)
LEMMA ListenersKnowIs ==
    ListenersKnow <=> told \subseteq News /\ News \subseteq told \cup Quiet
BY DEF ListenersKnow, News, Quiet

(* Likewise after a step.                                                   *)
LEMMA ListenersKnowNext ==
    ListenersKnow' <=> told' \subseteq News' /\ News' \subseteq told' \cup Quiet'
BY DEF ListenersKnow, News, Quiet

(* What a step adds to the news is told or quiet.                           *)
Tells(x) == /\ News' = News \cup {x}
            /\ Quiet \subseteq Quiet'
            /\ told' = told \cup {x} \/ (told' = told /\ x \in Quiet')

(* Telling what is new keeps listeners informed.                            *)
LEMMA TellsKeeps ==
    ASSUME NEW x, Tells(x), ListenersKnow
    PROVE  ListenersKnow'
BY ListenersKnowIs, ListenersKnowNext DEF Tells

(* What leaves the engine alone is no news.                                 *)
LEMMA NothingNew ==
    ASSUME ListenersKnow, UNCHANGED engine
    PROVE  ListenersKnow'
BY DEF ListenersKnow, engine, RegisteredTypes

(* A type is news; one of a ref_class may stay quiet.                       *)
LEMMA NewTypeNews ==
    ASSUME StackTypeOK, EngineTypeOK, NEW n \in Names, NEW c \in Classes,
           NewType(n, c), UNCHANGED <<members, functions>>
    PROVE  /\ News' = News \cup {<<"type", Here(n)>>}
           /\ Quiet \subseteq Quiet'
           /\ c = "ref" => <<"type", Here(n)>> \in Quiet'
<1> DEFINE h == Here(n)
<1>1. h \in Paths /\ c # None /\ "ref" # None
  BY HereIsAPath, NoneAssumption DEF Classes
<1>2. types[h] = None /\ types' = [types EXCEPT ![h] = c]
  BY DEF NewType
<1> HIDE DEF h
<1>3. types'[h] = c /\ \A p \in Paths : p # h => types'[p] = types[p]
  BY <1>1, <1>2 DEF EngineTypeOK
<1>4. RegisteredTypes' = RegisteredTypes \cup {h}
  BY <1>1, <1>2, <1>3 DEF RegisteredTypes
<1>5. \A q \in RegisteredTypes : q \in Paths /\ q # h
  BY <1>2 DEF RegisteredTypes
<1>6. News' = News \cup {<<"type", h>>}
  BY <1>4 DEF News
<1>7. Quiet \subseteq Quiet'
  BY <1>3, <1>4, <1>5 DEF Quiet
<1>8. c = "ref" => <<"type", h>> \in Quiet'
  BY <1>3, <1>4 DEF Quiet
<1> QED
  BY <1>6, <1>7, <1>8 DEF h

(* Constructors tell of their types.                                        *)
LEMMA ConstructsTell ==
    ASSUME StackTypeOK, EngineTypeOK, ListenersKnow, NEW n \in Names, Constructs(n)
    PROVE  ListenersKnow'
<1>1. PICK c \in Classes :
         \/ RegisterType(c, n) \/ RegisterTypeFails(c, n)
         \/ AppendType(c, n) \/ AppendNothing(c, n) \/ AppendNewType(c, n)
  BY DEF Constructs
<1> DEFINE x == <<"type", Here(n)>>
<1>2. CASE RegisterType(c, n)
  <2>1. /\ NewType(n, c) /\ UNCHANGED <<members, functions>>
        /\ told' = told \cup {x}
    BY <1>2 DEF RegisterType, NewType
  <2>2. News' = News \cup {x} /\ Quiet \subseteq Quiet'
    BY <2>1, NewTypeNews
  <2> HIDE DEF x
  <2> QED
    BY <2>1, <2>2, TellsKeeps DEF Tells
<1>3. CASE AppendNewType(c, n)
  <2>1. /\ NewType(n, c) /\ UNCHANGED <<members, functions>>
        /\ c # "ref" => told' = told \cup {x}
        /\ c = "ref" => told' = told
    BY <1>3, NothingHere DEF AppendNewType, NewType
  <2>2. /\ News' = News \cup {x} /\ Quiet \subseteq Quiet'
        /\ c = "ref" => x \in Quiet'
    BY <2>1, NewTypeNews
  <2> HIDE DEF x
  <2> QED
    BY <2>1, <2>2, TellsKeeps DEF Tells
<1>4. CASE RegisterTypeFails(c, n) \/ AppendType(c, n) \/ AppendNothing(c, n)
  BY <1>4, NothingNew DEF RegisterTypeFails, AppendType, AppendNothing, Throw
<1> QED
  BY <1>1, <1>2, <1>3, <1>4

(* A member is news; a property may stay quiet.                             *)
LEMMA NewMemberNews ==
    ASSUME StackTypeOK, NEW g, NEW what \in Kinds, NewMember(g, what)
    PROVE  /\ News' = News \cup {<<what, Resolve(g.name)>>}
           /\ Quiet \subseteq Quiet'
           /\ what = "property" => <<what, Resolve(g.name)>> \in Quiet'
<1> DEFINE p == Resolve(g.name)
           m == [what |-> what, of |-> p,
                 by |-> IF ns = g.home THEN g.type ELSE None]
<1>1. members' = members \cup {m} /\ UNCHANGED <<types, functions>>
  BY DEF NewMember
<1>2. m.what = what /\ m.of = p
  OBVIOUS
<1> HIDE DEF m, p
<1>3. RegisteredTypes' = RegisteredTypes
  BY <1>1 DEF RegisteredTypes
<1>4. News' = News \cup {<<what, p>>}
  BY <1>1, <1>2, <1>3 DEF News
<1>5. Quiet \subseteq Quiet'
  BY <1>1, <1>3 DEF Quiet
<1>6. what = "property" => <<what, p>> \in Quiet'
  BY <1>1, <1>2 DEF Quiet
<1> QED
  BY <1>4, <1>5, <1>6 DEF p

(* Members and functions are told of, and failures are not.                 *)
LEMMA RegistersTell ==
    ASSUME StackTypeOK, ListenersKnow, Registers
    PROVE  ListenersKnow'
<1>1. CASE Throw
  BY <1>1, NothingNew DEF Throw
<1>2. ASSUME NEW i \in DOMAIN frames, NEW what \in Kinds, Member(i, what)
      PROVE  ListenersKnow'
  <2> DEFINE x == <<what, Resolve(frames[i].name)>>
  <2>1. News' = News \cup {x} /\ Quiet \subseteq Quiet' /\ told' = told \cup {x}
    BY <1>2, NewMemberNews DEF Member
  <2> HIDE DEF x
  <2> QED
    BY <2>1, TellsKeeps DEF Tells
<1>3. ASSUME NEW i \in DOMAIN frames, QuietMember(i)
      PROVE  ListenersKnow'
  <2> DEFINE x == <<"property", Resolve(frames[i].name)>>
  <2>1. "property" \in Kinds
    BY DEF Kinds
  <2>2. NewMember(frames[i], "property") /\ told' = told
    BY <1>3 DEF QuietMember
  <2>3. News' = News \cup {x} /\ Quiet \subseteq Quiet' /\ x \in Quiet'
    BY <2>1, <2>2, NewMemberNews
  <2> HIDE DEF x
  <2> QED
    BY <2>2, <2>3, TellsKeeps DEF Tells
<1>4. CASE GlobalFunction
  <2> DEFINE x == <<"function", ns>>
  <2>1. /\ functions' = functions \cup {ns} /\ told' = told \cup {x}
        /\ UNCHANGED <<types, members>>
    BY <1>4 DEF GlobalFunction
  <2>2. News' = News \cup {x} /\ Quiet \subseteq Quiet'
    BY <2>1 DEF News, Quiet, RegisteredTypes
  <2> HIDE DEF x
  <2> QED
    BY <2>1, <2>2, TellsKeeps DEF Tells
<1> QED
  BY <1>1, <1>2, <1>3, <1>4 DEF Registers, MemberFails, GlobalFunctionFails

(***************************************************************************)
(* Listeners hear of exactly what the engine has, apart from what has no   *)
(* callback and the types that try_appending of ref_class registers: a     *)
(* failure is never reported as a success, and an exception between two    *)
(* registrations loses no news.                                            *)
(***************************************************************************)
THEOREM ListenersAreTold == Spec => []ListenersKnow
<1>1. Init => ListenersKnow
  BY DEF Init, ListenersKnow, RegisteredTypes
<1>2. TypeOK /\ ListenersKnow /\ [Next]_vars => ListenersKnow'
  <2> SUFFICES ASSUME TypeOK, ListenersKnow, [Next]_vars
               PROVE  ListenersKnow'
    OBVIOUS
  <2>1. StackTypeOK /\ EngineTypeOK
    BY InvSplits
  <2>2. CASE Guards \/ UNCHANGED vars
    BY <2>2, NothingNew DEF Guards, CloseBlock, OpenNamespace, OpenMask, vars, engine
  <2> QED
    BY <2>1, <2>2, ConstructsTell, RegistersTell DEF Next
<1> QED
  BY <1>1, <1>2, TypeCorrect, PTL DEF Spec
=============================================================================
