------------------------- MODULE ScriptHandlesProofs -------------------------
(***************************************************************************)
(* Proofs about ScriptHandles, for any finite set of slots and any set of  *)
(* objects.  The argument is that every operation is a sequence of three   *)
(* elementary changes, none of which disturbs the balance between an       *)
(* object's counter and the references to it: a slot is released, a slot   *)
(* receives a counted handle, or a reference changes hands.                *)
(***************************************************************************)
EXTENDS ScriptHandles, FiniteSetTheorems, TLAPS

Held == Objects \cup {Null, Absent}

One(a, b) == IF a = b THEN 1 ELSE 0

(* The assignment of one slot.                                              *)
Stores(hh, s, v, hh2) == hh2 = [hh EXCEPT ![s] = v]

MovesOver(hh, s, t, hh2) == hh2 = [hh EXCEPT ![s] = hh[t], ![t] = Null]

(* What is left of a counter once every reference has been paid for.        *)
Slack(counts, hh, ex, o) == counts[o] - ex[o] - Cardinality(OwnersIn(hh, o))

Counts == [Objects -> Nat \cup {Corrupt}]

Paid(counts, hh, ex) == \A o \in Objects : Slack(counts, hh, ex, o) >= 0

(* The number of owners of an object is a natural number.                   *)
LEMMA OwnerCounts ==
    ASSUME NEW hh, NEW o
    PROVE  Cardinality(OwnersIn(hh, o)) \in Nat
BY SlotsAssumption, FS_Subset, FS_CardinalityType DEF OwnersIn

(* Storing v in slot s changes the number of owners of o by what leaves and *)
(* what arrives.                                                            *)
LEMMA OwnersAfterStore ==
    ASSUME NEW hh \in [Slots -> Held], NEW s \in Slots, NEW v \in Held,
           NEW hh2, Stores(hh, s, v, hh2), NEW o \in Objects
    PROVE  /\ Cardinality(OwnersIn(hh, o)) \in Nat
           /\ Cardinality(OwnersIn(hh2, o)) =
                Cardinality(OwnersIn(hh, o)) - One(hh[s], o) + One(v, o)
<1> DEFINE old == OwnersIn(hh, o)
           new == OwnersIn(hh2, o)
<1>1. IsFiniteSet(old) /\ Cardinality(old) \in Nat
  BY SlotsAssumption, FS_Subset, FS_CardinalityType DEF OwnersIn
<1>2. IsFiniteSet(old \ {s})
         /\ Cardinality(old \ {s}) = Cardinality(old) - One(hh[s], o)
  <2>1. s \in old <=> hh[s] = o
    BY DEF OwnersIn
  <2>2. Cardinality(old \ {s}) =
          IF s \in old THEN Cardinality(old) - 1 ELSE Cardinality(old)
    BY <1>1, FS_RemoveElement
  <2> QED
    BY <1>1, <2>1, <2>2, FS_RemoveElement DEF One
<1>3. CASE v = o
  <2>1. new = (old \ {s}) \cup {s}
    BY <1>3 DEF OwnersIn, Stores
  <2>2. Cardinality(new) = Cardinality(old \ {s}) + 1
    BY <1>2, <2>1, FS_AddElement
  <2> QED
    BY <1>1, <1>2, <1>3, <2>2 DEF One
<1>4. CASE v # o
  <2>1. new = old \ {s}
    BY <1>4 DEF OwnersIn, Stores
  <2>2. One(v, o) = 0
    BY <1>4 DEF One
  <2>3. Cardinality(new) = Cardinality(old \ {s})
    BY <2>1
  <2>4. One(hh[s], o) \in {0, 1}
    BY DEF One
  <2> QED
    BY <1>1, <1>2, <2>2, <2>3, <2>4
<1> QED
  BY <1>3, <1>4

(* A handle that is stored somewhere has at least one owner.                *)
LEMMA StoredIsOwned ==
    ASSUME NEW hh \in [Slots -> Held], NEW s \in Slots, hh[s] \in Objects
    PROVE  Cardinality(OwnersIn(hh, hh[s])) >= 1
<1>1. IsFiniteSet(OwnersIn(hh, hh[s]))
  BY SlotsAssumption, FS_Subset DEF OwnersIn
<1>2. OwnersIn(hh, hh[s]) # {}
  BY DEF OwnersIn
<1> QED
  BY <1>1, <1>2, FS_EmptySet, FS_CardinalityType

(* Releasing what a slot holds, and forgetting it, keeps the balance.       *)
LEMMA ReleaseKeepsSlack ==
    ASSUME NEW counts \in Counts, NEW hh \in [Slots -> Held],
           NEW ex \in [Objects -> Nat], NEW s \in Slots, hh[s] # Absent,
           NEW v \in {Null, Absent}, NEW hh2, Stores(hh, s, v, hh2),
           NEW counts2, counts2 = Release(counts, hh[s]),
           Paid(counts, hh, ex)
    PROVE  /\ counts2 \in Counts
           /\ hh2 \in [Slots -> Held]
           /\ \A o \in Objects : Slack(counts2, hh2, ex, o) = Slack(counts, hh, ex, o)
<1>1. hh2 \in [Slots -> Held]
  BY DEF Held, Stores
<1>2. counts2 \in Counts
         /\ \A o \in Objects : counts2[o] = counts[o] - One(hh[s], o)
  <2>1. CASE hh[s] = Null
    BY <2>1, HandleAssumption DEF Release, One, Counts, Corrupt
  <2>2. CASE hh[s] \in Objects
    <3>1. Cardinality(OwnersIn(hh, hh[s])) >= 1
      BY <2>2, StoredIsOwned
    <3>2. Cardinality(OwnersIn(hh, hh[s])) \in Nat
      BY OwnerCounts
    <3>3. counts[hh[s]] > 0
      BY <2>2, <3>1, <3>2 DEF Paid, Slack, Counts, Corrupt
    <3>4. counts2 = [counts EXCEPT ![hh[s]] = @ - 1]
      BY <2>2, <3>3, HandleAssumption DEF Release, Counts
    <3>5. counts[hh[s]] - 1 \in Nat
      BY <2>2, <3>3 DEF Counts, Corrupt
    <3>6. counts2 \in Counts
      BY <2>2, <3>4, <3>5 DEF Counts
    <3>7. \A o \in Objects : counts[o] \in Int
      BY DEF Counts, Corrupt
    <3>8. \A o \in Objects : counts2[o] = counts[o] - One(hh[s], o)
      BY <2>2, <3>4, <3>7 DEF One, Counts
    <3> QED
      BY <3>6, <3>8
  <2> QED
    BY <2>1, <2>2 DEF Held
<1>3. ASSUME NEW o \in Objects
      PROVE  Slack(counts2, hh2, ex, o) = Slack(counts, hh, ex, o)
  <2>1. One(v, o) = 0 /\ One(hh[s], o) \in {0, 1}
    BY HandleAssumption DEF One
  <2>2. /\ Cardinality(OwnersIn(hh, o)) \in Nat
        /\ Cardinality(OwnersIn(hh2, o)) =
             Cardinality(OwnersIn(hh, o)) - One(hh[s], o) + One(v, o)
    <3>1. v \in Held
      BY DEF Held
    <3> QED
      BY <3>1, OwnersAfterStore
  <2>3. counts[o] \in Int /\ ex[o] \in Nat
    BY DEF Counts, Corrupt
  <2>4. counts2[o] = counts[o] - One(hh[s], o)
    BY <1>2
  <2> QED
    BY <2>1, <2>2, <2>3, <2>4 DEF Slack
<1> QED
  BY <1>1, <1>2, <1>3

(* Storing a counted handle in a slot that holds nothing keeps the balance, *)
(* provided the object still exists when AddRef is called.                  *)
LEMMA AddRefKeepsSlack ==
    ASSUME NEW counts \in Counts, NEW hh \in [Slots -> Held],
           NEW ex \in [Objects -> Nat], NEW s \in Slots, hh[s] \in {Null, Absent},
           NEW v \in Objects \cup {Null}, v # Null => counts[v] > 0,
           NEW hh2, Stores(hh, s, v, hh2),
           NEW counts2, counts2 = AddRef(counts, v)
    PROVE  /\ counts2 \in Counts
           /\ hh2 \in [Slots -> Held]
           /\ \A o \in Objects : Slack(counts2, hh2, ex, o) = Slack(counts, hh, ex, o)
<1>1. hh2 \in [Slots -> Held]
  BY DEF Held, Stores
<1>2. counts2 \in Counts
         /\ \A o \in Objects : counts2[o] = counts[o] + One(v, o)
  BY HandleAssumption DEF AddRef, One, Counts, Corrupt
<1>3. ASSUME NEW o \in Objects
      PROVE  Slack(counts2, hh2, ex, o) = Slack(counts, hh, ex, o)
  <2>1. One(hh[s], o) = 0 /\ One(v, o) \in {0, 1}
    BY HandleAssumption DEF One
  <2>2. /\ Cardinality(OwnersIn(hh, o)) \in Nat
        /\ Cardinality(OwnersIn(hh2, o)) =
             Cardinality(OwnersIn(hh, o)) - One(hh[s], o) + One(v, o)
    <3>1. v \in Held
      BY DEF Held
    <3> QED
      BY <3>1, OwnersAfterStore
  <2>3. counts[o] \in Int /\ ex[o] \in Nat
    BY DEF Counts, Corrupt
  <2>4. counts2[o] = counts[o] + One(v, o)
    BY <1>2
  <2> QED
    BY <2>1, <2>2, <2>3, <2>4 DEF Slack
<1> QED
  BY <1>1, <1>2, <1>3

-----------------------------------------------------------------------------
(* Type correctness.                                                        *)

(* AddRef and Release yield counters again.                                 *)
LEMMA CountingTypes ==
    ASSUME NEW counts \in Counts, NEW o \in Objects \cup {Null}
    PROVE  AddRef(counts, o) \in Counts /\ Release(counts, o) \in Counts
BY DEF AddRef, Release, Counts, Corrupt

(* So does a Release followed by an AddRef.                                 *)
LEMMA StoreTypes ==
    ASSUME NEW counts \in Counts, NEW o \in Objects \cup {Null},
           NEW p \in Objects \cup {Null}
    PROVE  AddRef(Release(counts, o), p) \in Counts
BY CountingTypes

(* Taking over and handing out references stays within the bound.           *)
LEMMA ReferenceTypes ==
    ASSUME TypeOK, NEW o \in Objects \cup {Null}
    PROVE  /\ Owned(o) => TakeOver(o) \in [Objects -> 0..MaxExt]
           /\ Room(o) => HandOut(o) \in [Objects -> 0..MaxExt]
BY BoundsAssumption DEF TypeOK, Owned, TakeOver, Room, HandOut

(* Every step of every class keeps the state well formed.                   *)
LEMMA StepTypes == TypeOK /\ [Next]_vars => TypeOK'
<1> SUFFICES ASSUME TypeOK, [Next]_vars PROVE TypeOK'
  OBVIOUS
<1> USE DEF TypeOK
<1>0. /\ rc \in Counts
      /\ \A s \in Slots : h[s] \in Objects \cup {Null, Absent}
  BY DEF Counts
<1>1. ASSUME NEW s \in Slots, DefaultCtor(s) PROVE TypeOK'
  BY <1>1 DEF DefaultCtor
<1>2. ASSUME NEW s \in Slots, Dtor(s) PROVE TypeOK'
  BY <1>0, <1>2, CountingTypes DEF Dtor, Live, Counts
<1>3. ASSUME NEW s \in Slots, ReleaseHandle(s) PROVE TypeOK'
  BY <1>0, <1>3, ReferenceTypes DEF ReleaseHandle, Live
<1>4. ASSUME NEW s \in Slots, ResetNull(s) PROVE TypeOK'
  BY <1>0, <1>4, CountingTypes DEF ResetNull, Live, Counts
<1>5. ASSUME NEW s \in Slots, NEW o \in Objects \cup {Null},
             HandleCtor(s, o)
      PROVE  TypeOK'
  BY <1>0, <1>5, CountingTypes DEF HandleCtor, Counts
<1>6. ASSUME NEW s \in Slots, NEW o \in Objects \cup {Null}, AdoptCtor(s, o)
      PROVE  TypeOK'
  BY <1>6, ReferenceTypes DEF AdoptCtor
<1>7. ASSUME NEW s \in Slots, NEW o \in Objects \cup {Null},
             ResetHandle(s, o) \/ ConnectObject(s, o)
      PROVE  TypeOK'
  <2>1. rc' \in Counts
    BY <1>0, <1>7, StoreTypes DEF ResetHandle, ConnectObject, Live
  <2> QED
    BY <1>7, <2>1 DEF ResetHandle, ConnectObject, Counts
<1>8. ASSUME NEW s \in Slots, NEW o \in Objects \cup {Null}, ResetAdopt(s, o)
      PROVE  TypeOK'
  BY <1>0, <1>8, CountingTypes, ReferenceTypes DEF ResetAdopt, Live, Counts
<1>9. ASSUME NEW s \in Slots, NEW o \in Objects, CreateCtor(s, o)
      PROVE  TypeOK'
  BY <1>9 DEF CreateCtor
<1>10. ASSUME NEW s \in Slots, NEW t \in Slots, CopyCtor(s, t)
       PROVE  TypeOK'
  BY <1>0, <1>10, CountingTypes DEF CopyCtor, Live, Counts
<1>11. ASSUME NEW s \in Slots, NEW t \in Slots,
              MoveCtor(s, t) \/ EngineMoveCtor(s, t) \/ Swap(s, t)
       PROVE  TypeOK'
  BY <1>11 DEF MoveCtor, EngineMoveCtor, Swap
<1>12. ASSUME NEW s \in Slots, NEW t \in Slots,
              CopyAssign(s, t) \/ TypeinfoMoveAssign(s, t)
       PROVE  TypeOK'
  <2>1. rc' \in Counts
    BY <1>0, <1>12, StoreTypes DEF CopyAssign, TypeinfoMoveAssign, Live
  <2> QED
    BY <1>12, <2>1 DEF CopyAssign, TypeinfoMoveAssign, Counts
<1>13. ASSUME NEW s \in Slots, NEW t \in Slots, MoveAssign(s, t)
       PROVE  TypeOK'
  BY <1>0, <1>13, CountingTypes DEF MoveAssign, Live, Counts
<1>14. ASSUME NEW o \in Objects, Application(o) PROVE TypeOK'
  <2>1. CASE ExtCreate(o)
    BY <2>1, BoundsAssumption DEF ExtCreate
  <2>2. CASE ExtAddRef(o)
    <3>1. rc' \in Counts
      BY <1>0, <2>2, CountingTypes DEF ExtAddRef
    <3>2. ext[o] + 1 \in 0..MaxExt
      BY <2>2, BoundsAssumption DEF ExtAddRef
    <3> QED
      BY <2>2, <3>1, <3>2 DEF ExtAddRef, Counts
  <2>3. CASE ExtRelease(o)
    <3>1. rc' \in Counts
      BY <1>0, <2>3, CountingTypes DEF ExtRelease
    <3>2. ext[o] - 1 \in 0..MaxExt
      BY <2>3, BoundsAssumption DEF ExtRelease
    <3> QED
      BY <2>3, <3>1, <3>2 DEF ExtRelease, Counts
  <2> QED
    BY <1>14, <2>1, <2>2, <2>3 DEF Application
<1>15. CASE UNCHANGED vars
  BY <1>15 DEF vars
<1> QED
  BY <1>1, <1>2, <1>3, <1>4, <1>5, <1>6, <1>7, <1>8, <1>9, <1>10, <1>11,
     <1>12, <1>13, <1>14, <1>15
  DEF Next, OneSlot, SlotAndHandle, TwoSlots

(* Every behaviour of every helper class keeps its state well formed.       *)
THEOREM TypeCorrect == Spec => []TypeOK
<1>1. Init => TypeOK
  <2> SUFFICES ASSUME Init PROVE TypeOK
    OBVIOUS
  <2>1. 0 \in 0..MaxExt
    BY BoundsAssumption
  <2> QED
    BY <2>1 DEF Init, TypeOK
<1> QED
  BY <1>1, StepTypes, PTL DEF Spec

-----------------------------------------------------------------------------
(* Balance: what an operation takes from one place it puts in another.      *)

(* One is an indicator.                                                     *)
LEMMA OneIsNat == \A a, b : One(a, b) \in {0, 1}
BY DEF One

(* No object is owned by an empty slot.                                     *)
LEMMA NullIsNobody ==
    \A o \in Objects : One(Null, o) = 0 /\ One(Absent, o) = 0
BY HandleAssumption DEF One

(* Exchanging the contents of two slots changes no number of owners.        *)
LEMMA SwapKeepsOwners ==
    ASSUME NEW hh \in [Slots -> Held], NEW s \in Slots, NEW t \in Slots,
           NEW mid, Stores(hh, s, hh[t], mid),
           NEW hh2, Stores(mid, t, hh[s], hh2),
           NEW o \in Objects
    PROVE  Cardinality(OwnersIn(hh2, o)) = Cardinality(OwnersIn(hh, o))
<1>1. mid \in [Slots -> Held] /\ hh[s] \in Held /\ hh[t] \in Held
  BY DEF Stores
<1>2. mid[t] = hh[t]
  BY DEF Stores
<1>3. /\ Cardinality(OwnersIn(hh, o)) \in Nat
      /\ Cardinality(OwnersIn(mid, o)) =
           Cardinality(OwnersIn(hh, o)) - One(hh[s], o) + One(hh[t], o)
  BY <1>1, OwnersAfterStore
<1>4. Cardinality(OwnersIn(hh2, o)) =
           Cardinality(OwnersIn(mid, o)) - One(mid[t], o) + One(hh[s], o)
  BY <1>1, OwnersAfterStore
<1>5. One(hh[s], o) \in {0, 1} /\ One(hh[t], o) \in {0, 1}
  BY OneIsNat
<1> QED
  BY <1>2, <1>3, <1>4, <1>5

(* Moving a handle into a slot that holds none changes no number of owners. *)
LEMMA MoveKeepsOwners ==
    ASSUME NEW hh \in [Slots -> Held], NEW s \in Slots, NEW t \in Slots,
           s # t, hh[s] \in {Null, Absent},
           NEW mid, Stores(hh, s, hh[t], mid),
           NEW hh2, Stores(mid, t, Null, hh2),
           NEW o \in Objects
    PROVE  Cardinality(OwnersIn(hh2, o)) = Cardinality(OwnersIn(hh, o))
<1>1. /\ mid \in [Slots -> Held]
      /\ hh[t] \in Held
      /\ Null \in Held
  BY DEF Held, Stores
<1>2. mid[t] = hh[t]
  BY DEF Stores
<1>3. /\ Cardinality(OwnersIn(hh, o)) \in Nat
      /\ Cardinality(OwnersIn(mid, o)) =
           Cardinality(OwnersIn(hh, o)) - One(hh[s], o) + One(hh[t], o)
  BY <1>1, OwnersAfterStore
<1>4. Cardinality(OwnersIn(hh2, o)) =
           Cardinality(OwnersIn(mid, o)) - One(mid[t], o) + One(Null, o)
  BY <1>1, OwnersAfterStore
<1>5. One(hh[s], o) = 0 /\ One(Null, o) = 0 /\ One(hh[t], o) \in {0, 1}
  BY NullIsNobody, OneIsNat
<1> QED
  BY <1>2, <1>3, <1>4, <1>5

(* Same numbers of owners, same slack.                                      *)
LEMMA OwnersDecideSlack ==
    ASSUME NEW counts, NEW ex, NEW hh, NEW hh2, NEW o,
           Cardinality(OwnersIn(hh2, o)) = Cardinality(OwnersIn(hh, o))
    PROVE  Slack(counts, hh2, ex, o) = Slack(counts, hh, ex, o)
BY DEF Slack

(* reset(handle), the copy assignments and connect_object: Release what the *)
(* slot holds, store the new handle, AddRef it.  The object must be kept by *)
(* somebody else, who is still counted after the Release.                   *)
LEMMA StoreKeepsSlack ==
    ASSUME NEW counts \in Counts, NEW hh \in [Slots -> Held],
           NEW ex \in [Objects -> Nat], NEW s \in Slots, hh[s] # Absent,
           NEW v \in Objects \cup {Null},
           v # Null => ex[v] > 0 \/ \E t \in Slots \ {s} : hh[t] = v,
           NEW hh2, Stores(hh, s, v, hh2),
           NEW counts2, counts2 = AddRef(Release(counts, hh[s]), v),
           Paid(counts, hh, ex)
    PROVE  \A o \in Objects : Slack(counts2, hh2, ex, o) = Slack(counts, hh, ex, o)
<1>0. PICK mid, midCounts : /\ Stores(hh, s, Null, mid)
                            /\ midCounts = Release(counts, hh[s])
  BY DEF Stores
<1>1. /\ midCounts \in Counts
      /\ mid \in [Slots -> Held]
      /\ \A o \in Objects : Slack(midCounts, mid, ex, o) = Slack(counts, hh, ex, o)
  BY <1>0, ReleaseKeepsSlack
<1>2. Paid(midCounts, mid, ex)
  BY <1>1 DEF Paid
<1>3. mid[s] = Null /\ Stores(mid, s, v, hh2)
  BY <1>0 DEF Stores
<1>4. \A t \in Slots \ {s} : mid[t] = hh[t]
  BY <1>0 DEF Stores
<1>5. v # Null => midCounts[v] > 0
  <2> SUFFICES ASSUME v \in Objects, v # Null PROVE midCounts[v] > 0
    BY HandleAssumption
  <2>1. midCounts[v] \in Int /\ ex[v] \in Nat
    BY <1>1 DEF Counts, Corrupt
  <2>2. Cardinality(OwnersIn(mid, v)) \in Nat
    BY <1>1, OwnerCounts
  <2>3. midCounts[v] >= ex[v] + Cardinality(OwnersIn(mid, v))
    BY <1>2, <2>1, <2>2 DEF Paid, Slack
  <2>4. CASE ex[v] > 0
    BY <2>1, <2>2, <2>3, <2>4
  <2>5. ASSUME NEW t \in Slots \ {s}, hh[t] = v PROVE midCounts[v] > 0
    <3>1. Cardinality(OwnersIn(mid, v)) >= 1
      BY <1>1, <1>4, <2>5, StoredIsOwned
    <3> QED
      BY <2>1, <2>2, <2>3, <3>1
  <2> QED
    BY <2>4, <2>5
<1>6. counts2 = AddRef(midCounts, v)
  BY <1>0
<1>7. \A o \in Objects : Slack(counts2, hh2, ex, o) = Slack(midCounts, mid, ex, o)
  BY <1>1, <1>3, <1>5, <1>6, AddRefKeepsSlack
<1> QED
  BY <1>1, <1>7

-----------------------------------------------------------------------------
(* The balance of a step.                                                   *)

Even == \A o \in Objects : Slack(rc', h', ext', o) = Slack(rc, h, ext, o)

Grows == \A o \in Objects : Slack(rc', h', ext', o) >= Slack(rc, h, ext, o)

Solvent == TypeOK /\ Paid(rc, h, ext)

(* What TypeOK says of the arguments of the lemmas above.                   *)
LEMMA Shapes ==
    ASSUME TypeOK
    PROVE  /\ rc \in Counts
           /\ h \in [Slots -> Held]
           /\ ext \in [Objects -> Nat]
           /\ \A s \in Slots : Live(s) => h[s] \in Objects \cup {Null}
           /\ Null \in Held
           /\ \A o \in Objects : rc[o] \in Int /\ ext[o] \in Nat
BY BoundsAssumption DEF TypeOK, Counts, Held, Live, Corrupt

(* Operations that leave one helper less, or one helper empty.              *)
LEMMA LosingIsEven ==
    ASSUME Solvent, NEW s \in Slots, Dtor(s) \/ ResetNull(s)
    PROVE  Even
<1>1. PICK v \in {Null, Absent} : Stores(h, s, v, h')
  BY DEF Dtor, ResetNull, Stores
<1>2. rc' = Release(rc, h[s]) /\ ext' = ext /\ h[s] # Absent
  BY DEF Dtor, ResetNull, Live
<1>3. \A o \in Objects : Slack(rc', h', ext, o) = Slack(rc, h, ext, o)
  BY <1>1, <1>2, Shapes, ReleaseKeepsSlack DEF Solvent
<1> QED
  BY <1>2, <1>3 DEF Even

(* Constructors that count the handle they store.                           *)
LEMMA CountingCtorsAreEven ==
    ASSUME Solvent, NEW s \in Slots, NEW v \in Objects \cup {Null},
           ~Live(s), h' = [h EXCEPT ![s] = v], rc' = AddRef(rc, v), ext' = ext,
           v # Null => ext[v] > 0 \/ \E t \in Slots : h[t] = v
    PROVE  Even
<1>1. v # Null => rc[v] > 0
  <2> SUFFICES ASSUME v \in Objects PROVE rc[v] > 0
    OBVIOUS
  <2>1. /\ rc[v] \in Int
        /\ ext[v] \in Nat
        /\ Cardinality(OwnersIn(h, v)) \in Nat
        /\ rc[v] >= ext[v] + Cardinality(OwnersIn(h, v))
    BY Shapes, OwnerCounts DEF Solvent, Paid, Slack
  <2>2. CASE ext[v] > 0
    BY <2>1, <2>2
  <2>3. ASSUME NEW t \in Slots, h[t] = v PROVE rc[v] > 0
    <3>1. Cardinality(OwnersIn(h, v)) >= 1
      BY <2>3, Shapes, StoredIsOwned DEF Solvent
    <3> QED
      BY <2>1, <3>1
  <2> QED
    BY <2>2, <2>3, HandleAssumption
<1>2. Stores(h, s, v, h') /\ h[s] = Absent
  BY DEF Stores, Live
<1>3. \A o \in Objects : Slack(rc', h', ext, o) = Slack(rc, h, ext, o)
  BY <1>1, <1>2, Shapes, AddRefKeepsSlack DEF Solvent
<1> QED
  BY <1>3 DEF Even

(* Operations that replace what a helper holds by a counted handle.         *)
LEMMA StoringIsEven ==
    ASSUME Solvent, NEW s \in Slots, NEW v \in Objects \cup {Null},
           Live(s), h' = [h EXCEPT ![s] = v],
           rc' = AddRef(Release(rc, h[s]), v), ext' = ext,
           v # Null => ext[v] > 0 \/ \E t \in Slots \ {s} : h[t] = v
    PROVE  Even
<1>1. Stores(h, s, v, h') /\ h[s] # Absent
  BY DEF Stores, Live
<1>2. \A o \in Objects : Slack(rc', h', ext, o) = Slack(rc, h, ext, o)
  BY SMTT(20), <1>1, Shapes, StoreKeepsSlack DEF Solvent
<1> QED
  BY <1>2 DEF Even

(* Two states with the same counters, references and numbers of owners are  *)
(* balanced alike.                                                          *)
LEMMA SameOwnersAreEven ==
    ASSUME rc' = rc, ext' = ext,
           \A o \in Objects :
              Cardinality(OwnersIn(h', o)) = Cardinality(OwnersIn(h, o))
    PROVE  Even
BY DEF Even, Slack

(* Moving between two helpers and swapping them.                            *)
LEMMA MovingIsEven ==
    ASSUME Solvent, NEW s \in Slots, NEW t \in Slots,
           MoveCtor(s, t) \/ Swap(s, t)
    PROVE  Even
<1>1. PICK mid : Stores(h, s, h[t], mid)
  BY DEF Stores
<1>2. rc' = rc /\ ext' = ext
  BY DEF MoveCtor, Swap
<1>3. h \in [Slots -> Held]
  BY Shapes DEF Solvent
<1>4. CASE Swap(s, t)
  <2>1. Stores(mid, t, h[s], h')
    BY <1>1, <1>3, <1>4 DEF Swap, Stores
  <2>2. \A o \in Objects :
          Cardinality(OwnersIn(h', o)) = Cardinality(OwnersIn(h, o))
    <3> SUFFICES ASSUME NEW o \in Objects
                 PROVE  Cardinality(OwnersIn(h', o)) = Cardinality(OwnersIn(h, o))
      OBVIOUS
    <3> QED
      BY <1>1, <1>3, <2>1, SwapKeepsOwners
  <2> QED
    BY <1>2, <2>2, SameOwnersAreEven
<1>5. CASE MoveCtor(s, t)
  <2>1. s # t /\ h[s] = Absent
    BY <1>5 DEF MoveCtor, Live
  <2>2. Stores(mid, t, Null, h')
    BY <1>1, <1>3, <1>5 DEF MoveCtor, Stores
  <2>3. \A o \in Objects :
          Cardinality(OwnersIn(h', o)) = Cardinality(OwnersIn(h, o))
    BY <1>1, <1>3, <2>1, <2>2, MoveKeepsOwners
  <2> QED
    BY <1>2, <2>3, SameOwnersAreEven
<1> QED
  BY <1>4, <1>5

(* Move assignment releases what the target held and moves the handle over; *)
(* the target is empty in between.                                          *)
LEMMA MoveAssignHalves ==
    ASSUME Solvent, NEW s \in Slots, NEW t \in Slots, s # t,
           Live(s), MovesOver(h, s, t, h'),
           NEW left, Stores(h, s, Null, left),
           NEW counts, counts = Release(rc, h[s])
    PROVE  /\ counts \in Counts
           /\ left \in [Slots -> Held]
           /\ left[t] = h[t]
           /\ \A o \in Objects :
                /\ Slack(counts, left, ext, o) = Slack(rc, h, ext, o)
                /\ Slack(counts, h', ext, o) = Slack(rc, h, ext, o)
<1>1. h[s] # Absent
  BY DEF Live
<1>2. /\ counts \in Counts
      /\ left \in [Slots -> Held]
      /\ \A o \in Objects : Slack(counts, left, ext, o) = Slack(rc, h, ext, o)
  BY <1>1, Shapes, ReleaseKeepsSlack DEF Solvent
<1>3. h \in [Slots -> Held]
  BY Shapes DEF Solvent
<1>4. left[s] = Null
  BY <1>3 DEF Stores
<1>5. left[t] = h[t]
  BY <1>3 DEF Stores
<1>6. PICK mid : Stores(left, s, left[t], mid)
  BY DEF Stores
<1>7. Stores(mid, t, Null, h')
  BY <1>3, <1>5, <1>6 DEF Stores, MovesOver
<1>8. \A o \in Objects :
        Cardinality(OwnersIn(h', o)) = Cardinality(OwnersIn(left, o))
  <2> SUFFICES ASSUME NEW o \in Objects
               PROVE  Cardinality(OwnersIn(h', o)) = Cardinality(OwnersIn(left, o))
    OBVIOUS
  <2> QED
    BY <1>2, <1>4, <1>6, <1>7, MoveKeepsOwners
<1>9. \A o \in Objects : Slack(counts, h', ext, o) = Slack(counts, left, ext, o)
  BY <1>8 DEF Slack
<1> QED
  BY <1>2, <1>5, <1>9

(* For every class but script_typeinfo that is all.                         *)
LEMMA MoveAssignIsEven ==
    ASSUME Solvent, NEW s \in Slots, NEW t \in Slots, MoveAssign(s, t)
    PROVE  Even
<1>1. PICK left, counts : /\ Stores(h, s, Null, left)
                          /\ counts = Release(rc, h[s])
  BY DEF Stores
<1>2. /\ s # t
      /\ Live(s)
      /\ MovesOver(h, s, t, h')
      /\ rc' = counts
      /\ ext' = ext
  BY <1>1 DEF MoveAssign, MovesOver
<1>3. \A o \in Objects : Slack(counts, h', ext, o) = Slack(rc, h, ext, o)
  BY <1>1, <1>2, MoveAssignHalves
<1> QED
  BY <1>2, <1>3 DEF Even

(* script_typeinfo adds one reference to the object it takes over, if any.  *)
LEMMA TypeinfoMoveGrows ==
    ASSUME Solvent, NEW s \in Slots, NEW t \in Slots, TypeinfoMoveAssign(s, t)
    PROVE  Grows /\ (~flawed' => Even)
<1>1. PICK left, counts : /\ Stores(h, s, Null, left)
                          /\ counts = Release(rc, h[s])
  BY DEF Stores
<1>2. /\ s # t
      /\ Live(s)
      /\ MovesOver(h, s, t, h')
      /\ rc' = AddRef(counts, h[t])
      /\ ext' = ext
      /\ h[t] \in Objects \cup {Null}
  BY <1>1, Shapes DEF TypeinfoMoveAssign, Solvent, MovesOver
<1>3. /\ counts \in Counts
      /\ left \in [Slots -> Held]
      /\ left[t] = h[t]
      /\ \A o \in Objects :
           /\ Slack(counts, left, ext, o) = Slack(rc, h, ext, o)
           /\ Slack(counts, h', ext, o) = Slack(rc, h, ext, o)
  BY <1>1, <1>2, MoveAssignHalves
<1>4. CASE h[t] = Null
  <2>1. rc' = counts
    BY <1>2, <1>4 DEF AddRef
  <2>2. Even
    BY <1>2, <1>3, <2>1 DEF Even
  <2>3. \A o \in Objects : Slack(rc, h, ext, o) \in Int
    BY Shapes, OwnerCounts DEF Solvent, Slack
  <2> QED
    BY <2>2, <2>3 DEF Even, Grows
<1>5. CASE h[t] \in Objects
  <2>1. Cardinality(OwnersIn(left, h[t])) >= 1
    BY <1>3, <1>5, StoredIsOwned
  <2>2. /\ counts[h[t]] \in Int
        /\ ext[h[t]] \in Nat
        /\ Cardinality(OwnersIn(left, h[t])) \in Nat
    BY <1>3, <1>5, Shapes, OwnerCounts DEF Solvent, Counts, Corrupt
  <2>3. Slack(counts, left, ext, h[t]) >= 0
    BY <1>3, <1>5 DEF Solvent, Paid
  <2>4. counts[h[t]] > 0
    BY <2>1, <2>2, <2>3 DEF Slack
  <2>5. rc' = [counts EXCEPT ![h[t]] = @ + 1]
    BY <1>2, <1>3, <1>5, <2>4, HandleAssumption DEF AddRef, Counts
  <2>6. \A o \in Objects : counts[o] \in Int /\ rc'[o] >= counts[o]
    BY <1>3, <1>5, <2>5 DEF Counts, Corrupt
  <2>7. ASSUME NEW o \in Objects
        PROVE  Slack(rc', h', ext', o) >= Slack(rc, h, ext, o)
    <3>1. /\ counts[o] \in Int
          /\ rc'[o] \in Int
          /\ rc'[o] >= counts[o]
          /\ ext[o] \in Nat
          /\ Cardinality(OwnersIn(h', o)) \in Nat
      BY <1>3, <1>5, <2>5, <2>6, Shapes, OwnerCounts DEF Solvent, Counts, Corrupt
    <3>2. Slack(rc', h', ext, o) >= Slack(counts, h', ext, o)
      BY <3>1 DEF Slack
    <3> QED
      BY <1>2, <1>3, <3>2
  <2>8. flawed'
    BY <1>5, HandleAssumption DEF TypeinfoMoveAssign
  <2> QED
    BY <2>7, <2>8 DEF Grows
<1> QED
  BY <1>2, <1>4, <1>5

(* A constructed helper that holds nothing changes no balance.              *)
LEMMA DefaultCtorIsEven ==
    ASSUME Solvent, NEW s \in Slots, DefaultCtor(s)
    PROVE  Even
<1>1. Stores(h, s, Null, h') /\ h[s] = Absent /\ rc' = rc /\ ext' = ext
  BY DEF DefaultCtor, Stores, Live
<1>2. h \in [Slots -> Held] /\ Null \in Held
  BY Shapes DEF Solvent
<1>3. ASSUME NEW o \in Objects
      PROVE  Cardinality(OwnersIn(h', o)) = Cardinality(OwnersIn(h, o))
  <2>1. /\ Cardinality(OwnersIn(h, o)) \in Nat
        /\ Cardinality(OwnersIn(h', o)) =
             Cardinality(OwnersIn(h, o)) - One(h[s], o) + One(Null, o)
    BY <1>1, <1>2, OwnersAfterStore
  <2>2. One(h[s], o) = 0 /\ One(Null, o) = 0
    BY <1>1, NullIsNobody
  <2> QED
    BY <2>1, <2>2
<1> QED
  BY <1>1, <1>3, SameOwnersAreEven

(* A reference of the application becomes a helper's: the constructors that *)
(* adopt, and the second half of the resets that do.                        *)
LEMMA AdoptingKeepsSlack ==
    ASSUME TypeOK, NEW counts \in Counts, NEW hh \in [Slots -> Held],
           NEW s \in Slots, hh[s] \in {Null, Absent},
           NEW v \in Objects \cup {Null}, Owned(v),
           NEW hh2, Stores(hh, s, v, hh2), NEW o \in Objects
    PROVE  Slack(counts, hh2, TakeOver(v), o) = Slack(counts, hh, ext, o)
<1>1. v \in Held
  BY DEF Held
<1>2. /\ Cardinality(OwnersIn(hh, o)) \in Nat
      /\ Cardinality(OwnersIn(hh2, o)) =
           Cardinality(OwnersIn(hh, o)) - One(hh[s], o) + One(v, o)
  BY <1>1, OwnersAfterStore
<1>3. One(hh[s], o) = 0 /\ One(v, o) \in {0, 1}
  BY NullIsNobody, OneIsNat
<1>4. TakeOver(v)[o] = ext[o] - One(v, o)
  BY Shapes, HandleAssumption DEF TakeOver, One, TypeOK
<1>5. counts[o] \in Int /\ ext[o] \in Nat
  BY Shapes DEF Counts, Corrupt
<1> QED
  BY <1>2, <1>3, <1>4, <1>5 DEF Slack

(* The operations that adopt.                                               *)
LEMMA AdoptingIsEven ==
    ASSUME Solvent, NEW s \in Slots, NEW v \in Objects \cup {Null},
           AdoptCtor(s, v) \/ ResetAdopt(s, v)
    PROVE  Even
<1>1. CASE AdoptCtor(s, v)
  <2>1. /\ Stores(h, s, v, h')
        /\ h[s] \in {Null, Absent}
        /\ Owned(v)
        /\ rc' = rc
        /\ ext' = TakeOver(v)
    BY <1>1 DEF AdoptCtor, Stores, Live
  <2>2. TypeOK /\ rc \in Counts /\ h \in [Slots -> Held]
    BY Shapes DEF Solvent
  <2>3. ASSUME NEW o \in Objects
        PROVE  Slack(rc, h', TakeOver(v), o) = Slack(rc, h, ext, o)
    BY <2>1, <2>2, AdoptingKeepsSlack
  <2> QED
    BY <2>1, <2>3 DEF Even
<1>2. CASE ResetAdopt(s, v)
  <2>1. PICK left, counts : /\ Stores(h, s, Null, left)
                            /\ counts = Release(rc, h[s])
    BY DEF Stores
  <2>2. /\ h[s] # Absent
        /\ Owned(v)
        /\ rc' = counts
        /\ ext' = TakeOver(v)
    BY <1>2, <2>1 DEF ResetAdopt, Live
  <2>3. /\ counts \in Counts
        /\ left \in [Slots -> Held]
        /\ \A o \in Objects : Slack(counts, left, ext, o) = Slack(rc, h, ext, o)
    BY <2>1, <2>2, Shapes, ReleaseKeepsSlack DEF Solvent
  <2>4. left[s] = Null /\ Stores(left, s, v, h')
    BY <1>2, <2>1, Shapes DEF ResetAdopt, Stores, Solvent
  <2>5. ASSUME NEW o \in Objects
        PROVE  Slack(counts, h', TakeOver(v), o) = Slack(counts, left, ext, o)
    BY <2>2, <2>3, <2>4, AdoptingKeepsSlack DEF Solvent
  <2> QED
    BY <2>2, <2>3, <2>5 DEF Even
<1> QED
  BY <1>1, <1>2

(* release() hands a helper's reference to the application.                 *)
LEMMA HandingOutIsEven ==
    ASSUME Solvent, NEW s \in Slots, ReleaseHandle(s)
    PROVE  Even
<1>1. /\ Stores(h, s, Null, h')
      /\ h[s] \in Objects \cup {Null}
      /\ rc' = rc
      /\ ext' = HandOut(h[s])
  BY Shapes DEF ReleaseHandle, Stores, Solvent
<1>2. h \in [Slots -> Held] /\ Null \in Held /\ ext \in [Objects -> Nat]
  BY Shapes DEF Solvent
<1>3. ASSUME NEW o \in Objects
      PROVE  Slack(rc', h', ext', o) = Slack(rc, h, ext, o)
  <2>1. /\ Cardinality(OwnersIn(h, o)) \in Nat
        /\ Cardinality(OwnersIn(h', o)) =
             Cardinality(OwnersIn(h, o)) - One(h[s], o) + One(Null, o)
    BY <1>1, <1>2, OwnersAfterStore
  <2>2. One(Null, o) = 0 /\ One(h[s], o) \in {0, 1}
    BY NullIsNobody, OneIsNat
  <2>3. ext'[o] = ext[o] + One(h[s], o)
    BY <1>1, <1>2, HandleAssumption DEF HandOut, One
  <2>4. rc[o] \in Int /\ ext[o] \in Nat
    BY Shapes DEF Solvent
  <2> QED
    BY <1>1, <2>1, <2>2, <2>3, <2>4 DEF Slack
<1> QED
  BY <1>3 DEF Even

(* A constructor that creates the object adopts its first reference.        *)
LEMMA CreatingIsEven ==
    ASSUME Solvent, NEW s \in Slots, NEW v \in Objects, CreateCtor(s, v)
    PROVE  Even
<1>1. Stores(h, s, v, h') /\ h[s] = Absent /\ ext' = ext /\ v \in Held
  BY DEF CreateCtor, Stores, Live, Held
<1>2. h \in [Slots -> Held]
  BY Shapes DEF Solvent
<1>3. ASSUME NEW o \in Objects
      PROVE  Slack(rc', h', ext', o) = Slack(rc, h, ext, o)
  <2>1. /\ Cardinality(OwnersIn(h, o)) \in Nat
        /\ Cardinality(OwnersIn(h', o)) =
             Cardinality(OwnersIn(h, o)) - One(h[s], o) + One(v, o)
    BY <1>1, <1>2, OwnersAfterStore
  <2>2. One(h[s], o) = 0 /\ One(v, o) \in {0, 1}
    BY <1>1, NullIsNobody, OneIsNat
  <2>3. rc'[o] = rc[o] + One(v, o)
    BY Shapes DEF CreateCtor, One, Solvent, Counts
  <2>4. rc[o] \in Int /\ ext[o] \in Nat
    BY Shapes DEF Solvent
  <2> QED
    BY <1>1, <2>1, <2>2, <2>3, <2>4 DEF Slack
<1> QED
  BY <1>3 DEF Even

(* The application counts its own references.                               *)
LEMMA ApplicationIsEven ==
    ASSUME Solvent, NEW v \in Objects, Application(v)
    PROVE  Even
<1>1. /\ rc[v] \in Int
      /\ ext[v] \in Nat
      /\ Cardinality(OwnersIn(h, v)) \in Nat
      /\ rc[v] >= ext[v] + Cardinality(OwnersIn(h, v))
  BY Shapes, OwnerCounts DEF Solvent, Paid, Slack
<1>2. rc \in Counts /\ ext \in [Objects -> Nat] /\ h \in [Slots -> Held]
  BY Shapes DEF Solvent
<1>3. /\ h' = h
      /\ \A o \in Objects :
           \/ rc'[o] = rc[o] /\ ext'[o] = ext[o]
           \/ rc'[o] = rc[o] + 1 /\ ext'[o] = ext[o] + 1
           \/ rc'[o] = rc[o] - 1 /\ ext'[o] = ext[o] - 1
  <2>1. CASE ExtCreate(v)
    <3>1. rc[v] = 0 /\ ext[v] = 0
      BY <1>1, <2>1 DEF ExtCreate
    <3> QED
      BY <1>2, <2>1, <3>1 DEF ExtCreate, Counts
  <2>2. CASE ExtAddRef(v)
    <3>1. rc[v] > 0
      <4>1. CASE ext[v] > 0
        BY <1>1, <4>1
      <4>2. ASSUME NEW t \in Slots, h[t] = v PROVE rc[v] > 0
        <5>1. Cardinality(OwnersIn(h, v)) >= 1
          BY <1>2, <4>2, StoredIsOwned
        <5> QED
          BY <1>1, <5>1
      <4> QED
        BY <2>2, <4>1, <4>2 DEF ExtAddRef
    <3> QED
      BY <1>2, <2>2, <3>1, HandleAssumption DEF ExtAddRef, AddRef, Counts
  <2>3. CASE ExtRelease(v)
    <3>1. rc[v] > 0
      BY <1>1, <2>3 DEF ExtRelease
    <3> QED
      BY <1>2, <2>3, <3>1, HandleAssumption DEF ExtRelease, Release, Counts
  <2> QED
    BY <2>1, <2>2, <2>3 DEF Application
<1>4. ASSUME NEW o \in Objects
      PROVE  Slack(rc', h', ext', o) = Slack(rc, h, ext, o)
  <2>1. /\ rc[o] \in Int
        /\ ext[o] \in Nat
        /\ Cardinality(OwnersIn(h, o)) \in Nat
    BY Shapes, OwnerCounts DEF Solvent
  <2> QED
    BY <1>3, <2>1 DEF Slack
<1> QED
  BY <1>4 DEF Even

-----------------------------------------------------------------------------
(* Every operation keeps an object's slack; the move assignment of          *)
(* script_typeinfo may raise it, and the move constructor of script_engine  *)
(* may do anything to it.                                                   *)
LEMMA StepBalance ==
    ASSUME Solvent, Next
    PROVE  (cls = "engine" /\ flawed') \/ (Grows /\ (~flawed' => Even))
<1>1. Even => Grows
  <2>1. \A o \in Objects : Slack(rc, h, ext, o) \in Int
    BY Shapes, OwnerCounts DEF Solvent, Slack
  <2> QED
    BY <2>1 DEF Even, Grows
<1>2. ASSUME NEW s \in Slots, OneSlot(s) PROVE Even
  BY <1>2, DefaultCtorIsEven, LosingIsEven, HandingOutIsEven DEF OneSlot
<1>3. ASSUME NEW s \in Slots, NEW v \in Objects \cup {Null},
             SlotAndHandle(s, v)
      PROVE  Even
  <2>1. CASE HandleCtor(s, v)
    BY <2>1, CountingCtorsAreEven DEF HandleCtor, Kept
  <2>2. CASE AdoptCtor(s, v) \/ ResetAdopt(s, v)
    BY <2>2, AdoptingIsEven
  <2>3. CASE ResetHandle(s, v)
    BY <2>3, StoringIsEven DEF ResetHandle, Kept
  <2>4. CASE ConnectObject(s, v)
    BY <2>4, StoringIsEven DEF ConnectObject, Owned
  <2> QED
    BY <1>3, <2>1, <2>2, <2>3, <2>4 DEF SlotAndHandle
<1>4. ASSUME NEW s \in Slots, NEW v \in Objects, CreateCtor(s, v) PROVE Even
  BY <1>4, CreatingIsEven
<1>5. ASSUME NEW s \in Slots, NEW t \in Slots, TwoSlots(s, t)
      PROVE  (cls = "engine" /\ flawed') \/ (Grows /\ (~flawed' => Even))
  <2>1. CASE CopyCtor(s, t)
    <3>1. h[t] \in Objects \cup {Null}
      BY <2>1, Shapes DEF CopyCtor, Solvent
    <3> QED
      BY <1>1, <2>1, <3>1, CountingCtorsAreEven DEF CopyCtor
  <2>2. CASE MoveCtor(s, t) \/ Swap(s, t)
    BY <1>1, <2>2, MovingIsEven
  <2>3. CASE EngineMoveCtor(s, t)
    BY <2>3 DEF EngineMoveCtor
  <2>4. CASE CopyAssign(s, t)
    <3>1. h[t] \in Objects \cup {Null} /\ t \in Slots \ {s}
      BY <2>4, Shapes DEF CopyAssign, Solvent
    <3> QED
      BY <1>1, <2>4, <3>1, StoringIsEven DEF CopyAssign
  <2>5. CASE MoveAssign(s, t)
    BY <1>1, <2>5, MoveAssignIsEven
  <2>6. CASE TypeinfoMoveAssign(s, t)
    BY <2>6, TypeinfoMoveGrows
  <2> QED
    BY <1>5, <2>1, <2>2, <2>3, <2>4, <2>5, <2>6 DEF TwoSlots
<1>6. ASSUME NEW v \in Objects, Application(v) PROVE Even
  BY <1>6, ApplicationIsEven
<1> QED
  BY <1>1, <1>2, <1>3, <1>4, <1>5, <1>6 DEF Next

-----------------------------------------------------------------------------
(* The counters are right.                                                  *)

(* The counting invariant: counters cover the references, and equal them    *)
(* as long as no miscounting move has run.                                  *)
Counted == TypeOK /\ Covered /\ NoLeak

(* It holds when nothing has been constructed yet.                          *)
LEMMA InitCounted == Init => Counted
<1> SUFFICES ASSUME Init PROVE Counted
  OBVIOUS
<1>1. TypeOK
  <2>1. 0 \in 0..MaxExt
    BY BoundsAssumption
  <2> QED
    BY <2>1 DEF Init, TypeOK
<1>2. ASSUME NEW o \in Objects PROVE rc[o] = 0 /\ References(o) = 0
  <2>1. OwnersIn(h, o) = {}
    BY HandleAssumption DEF Init, OwnersIn
  <2> QED
    BY <2>1, FS_EmptySet DEF Init, References
<1> QED
  BY <1>1, <1>2 DEF Counted, Covered, NoLeak

(* Slack is what separates a counter from the references.                   *)
LEMMA SlackIsDifference ==
    ASSUME TypeOK, NEW o \in Objects
    PROVE  /\ rc[o] \in Int
           /\ References(o) \in Nat
           /\ Slack(rc, h, ext, o) = rc[o] - References(o)
BY Shapes, OwnerCounts DEF References, Slack

(* The class of a behaviour is fixed, and a miscount is never forgotten.    *)
LEMMA FlawsRemain ==
    ASSUME Next
    PROVE  cls' = cls /\ (flawed => flawed')
<1>1. ASSUME NEW s \in Slots, OneSlot(s) PROVE cls' = cls /\ flawed' = flawed
  BY <1>1 DEF OneSlot, DefaultCtor, Dtor, ReleaseHandle, ResetNull
<1>2. ASSUME NEW s \in Slots, NEW v \in Objects \cup {Null},
             SlotAndHandle(s, v)
      PROVE  cls' = cls /\ flawed' = flawed
  BY <1>2 DEF SlotAndHandle, HandleCtor, AdoptCtor, ResetHandle, ResetAdopt,
              ConnectObject
<1>3. ASSUME NEW s \in Slots, NEW v \in Objects, CreateCtor(s, v)
      PROVE  cls' = cls /\ flawed' = flawed
  BY <1>3 DEF CreateCtor
<1>4. ASSUME NEW s \in Slots, NEW t \in Slots, TwoSlots(s, t)
      PROVE  cls' = cls /\ (flawed => flawed')
  <2>1. CASE CopyCtor(s, t) \/ MoveCtor(s, t) \/ Swap(s, t)
    BY <2>1 DEF CopyCtor, MoveCtor, Swap
  <2>2. CASE CopyAssign(s, t) \/ MoveAssign(s, t)
    BY <2>2 DEF CopyAssign, MoveAssign
  <2>3. CASE EngineMoveCtor(s, t)
    BY <2>3 DEF EngineMoveCtor
  <2>4. CASE TypeinfoMoveAssign(s, t)
    BY <2>4 DEF TypeinfoMoveAssign
  <2> QED
    BY <1>4, <2>1, <2>2, <2>3, <2>4 DEF TwoSlots
<1>5. ASSUME NEW v \in Objects, Application(v)
      PROVE  cls' = cls /\ flawed' = flawed
  BY <1>5 DEF Application, ExtCreate, ExtAddRef, ExtRelease
<1> QED
  BY <1>1, <1>2, <1>3, <1>4, <1>5 DEF Next

(* Every step of every class preserves the counting invariant.              *)
LEMMA StepCounted == Counted /\ [Next]_vars => Counted'
<1> SUFFICES ASSUME Counted, [Next]_vars PROVE Counted'
  OBVIOUS
<1>1. TypeOK /\ TypeOK'
  BY StepTypes DEF Counted
<1>2. CASE UNCHANGED vars
  BY <1>2 DEF vars, Counted, TypeOK, Covered, NoLeak, References
<1>3. CASE Next
  <2>1. cls' = cls /\ (flawed => flawed')
    BY <1>3, FlawsRemain
  <2>2. CASE cls = "engine" /\ flawed'
    BY <1>1, <2>1, <2>2 DEF Counted, Covered, NoLeak
  <2>3. CASE ~(cls = "engine" /\ flawed')
    <3>1. Paid(rc, h, ext)
      <4>1. \A o \in Objects : rc[o] >= References(o)
        BY <2>1, <2>3 DEF Counted, Covered
      <4> QED
        BY <1>1, <4>1, SlackIsDifference DEF Paid
    <3>2. Grows /\ (~flawed' => Even)
      BY <1>1, <1>3, <2>3, <3>1, StepBalance DEF Solvent
    <3>3. ASSUME NEW o \in Objects
          PROVE  /\ rc'[o] \in Int
                 /\ References(o)' \in Nat
                 /\ Slack(rc', h', ext', o) = rc'[o] - References(o)'
      <4>1. /\ rc'[o] \in Int
            /\ ext'[o] \in Nat
        BY <1>1, BoundsAssumption DEF TypeOK, Corrupt
      <4>2. Cardinality(OwnersIn(h', o)) \in Nat
        BY OwnerCounts
      <4> QED
        BY <4>1, <4>2 DEF References, Slack, OwnersIn
    <3>4. ASSUME NEW o \in Objects PROVE rc'[o] >= References(o)'
      <4>1. Slack(rc, h, ext, o) >= 0 /\ Slack(rc, h, ext, o) \in Int
        BY <1>1, <3>1, SlackIsDifference DEF Paid
      <4>2. Slack(rc', h', ext', o) >= Slack(rc, h, ext, o)
        BY <3>2 DEF Grows
      <4> QED
        BY <3>3, <4>1, <4>2
    <3>5. ASSUME ~flawed', NEW o \in Objects PROVE rc'[o] <= References(o)'
      <4>1. Slack(rc, h, ext, o) <= 0 /\ Slack(rc, h, ext, o) \in Int
        BY <1>1, <2>1, <3>5, SlackIsDifference DEF Counted, NoLeak
      <4>2. Slack(rc', h', ext', o) = Slack(rc, h, ext, o)
        BY <3>2, <3>5 DEF Even
      <4> QED
        BY <3>3, <4>1, <4>2
    <3> QED
      BY <1>1, <3>4, <3>5 DEF Counted, Covered, NoLeak
  <2> QED
    BY <2>2, <2>3
<1> QED
  BY <1>2, <1>3

(***************************************************************************)
(* No helper of any class, and no reference of the application, ever       *)
(* outlives its object: whatever the number of helpers and objects, every  *)
(* operation but script_engine's move constructor leaves each counter at   *)
(* least as high as the references to the object.                          *)
(***************************************************************************)
THEOREM NeverDangling == Spec => []Covered
<1>1. Counted => Covered
  BY DEF Counted
<1> QED
  BY <1>1, InitCounted, StepCounted, PTL DEF Spec

(***************************************************************************)
(* No object outlives its last reference, unless one of the two flawed     *)
(* moves has run: all other operations of the six classes keep the counter *)
(* from exceeding the references to the object.                            *)
(***************************************************************************)
THEOREM NeverLeaking == Spec => []NoLeak
<1>1. Counted => NoLeak
  BY DEF Counted
<1> QED
  BY <1>1, InitCounted, StepCounted, PTL DEF Spec

-----------------------------------------------------------------------------
(* The counters implement shared ownership.                                 *)

(* AddRef and Release never bring a destroyed object back.                  *)
LEMMA DeadStaysDead ==
    ASSUME NEW counts \in Counts, NEW p \in Objects \cup {Null},
           NEW o \in Objects
    PROVE  /\ AddRef(counts, p)[o] > 0 => counts[o] > 0
           /\ Release(counts, p)[o] > 0 => counts[o] > 0
BY DEF AddRef, Release, Counts, Corrupt

(* Steps that may create an object.                                         *)
Creates == \/ \E s \in Slots, o \in Objects : CreateCtor(s, o)
           \/ \E o \in Objects : ExtCreate(o)

(* No other operation revives anything.                                     *)
LEMMA OnlyCreationRevives ==
    ASSUME TypeOK, Next, ~Creates, NEW o \in Objects, rc'[o] > 0
    PROVE  rc[o] > 0
<1>1. /\ rc \in Counts
      /\ \A s \in Slots : Live(s) => h[s] \in Objects \cup {Null}
  BY Shapes
<1>2. \A p, q \in Objects \cup {Null} :
        AddRef(Release(rc, p), q)[o] > 0 => rc[o] > 0
  BY ZenonT(30), <1>1, CountingTypes, DeadStaysDead
<1>3. ASSUME NEW s \in Slots, OneSlot(s) PROVE rc[o] > 0
  <2>1. CASE DefaultCtor(s) \/ ReleaseHandle(s)
    BY <2>1 DEF DefaultCtor, ReleaseHandle
  <2>2. CASE Dtor(s) \/ ResetNull(s)
    BY <1>1, <2>2, DeadStaysDead DEF Dtor, ResetNull
  <2> QED
    BY <1>3, <2>1, <2>2 DEF OneSlot
<1>4. ASSUME NEW s \in Slots, NEW v \in Objects \cup {Null},
             SlotAndHandle(s, v)
      PROVE  rc[o] > 0
  <2>1. CASE HandleCtor(s, v)
    BY <1>1, <2>1, DeadStaysDead DEF HandleCtor
  <2>2. CASE AdoptCtor(s, v)
    BY <2>2 DEF AdoptCtor
  <2>3. CASE ResetHandle(s, v) \/ ConnectObject(s, v)
    BY <1>1, <1>2, <2>3 DEF ResetHandle, ConnectObject
  <2>4. CASE ResetAdopt(s, v)
    BY <1>1, <2>4, DeadStaysDead DEF ResetAdopt
  <2> QED
    BY <1>4, <2>1, <2>2, <2>3, <2>4 DEF SlotAndHandle
<1>5. ASSUME NEW s \in Slots, NEW t \in Slots, TwoSlots(s, t) PROVE rc[o] > 0
  <2>1. CASE CopyCtor(s, t)
    BY <1>1, <2>1, DeadStaysDead DEF CopyCtor
  <2>2. CASE MoveCtor(s, t) \/ EngineMoveCtor(s, t) \/ Swap(s, t)
    BY <2>2 DEF MoveCtor, EngineMoveCtor, Swap
  <2>3. CASE CopyAssign(s, t) \/ TypeinfoMoveAssign(s, t)
    BY <1>1, <1>2, <2>3 DEF CopyAssign, TypeinfoMoveAssign
  <2>4. CASE MoveAssign(s, t)
    BY <1>1, <2>4, DeadStaysDead DEF MoveAssign
  <2> QED
    BY <1>5, <2>1, <2>2, <2>3, <2>4 DEF TwoSlots
<1>6. ASSUME NEW v \in Objects, Application(v) PROVE rc[o] > 0
  <2>1. ~ExtCreate(v)
    BY DEF Creates
  <2> QED
    BY <1>1, <1>6, <2>1, DeadStaysDead DEF Application, ExtAddRef, ExtRelease
<1> QED
  BY <1>3, <1>4, <1>5, <1>6 DEF Next, Creates

(* Without miscounts an object exists exactly while it is referred to.      *)
LEMMA ExistsWhileHeld ==
    ASSUME Counted, ~flawed, NEW o \in Objects
    PROVE  /\ rc[o] \in Nat
           /\ rc[o] > 0 <=> Shared!Held(o)
<1>1. /\ rc[o] \in Int
      /\ References(o) \in Nat
      /\ rc[o] >= References(o)
      /\ rc[o] <= References(o)
  BY SlackIsDifference DEF Counted, Covered, NoLeak
<1>2. /\ ext[o] \in Nat
      /\ h \in [Slots -> Held]
      /\ Cardinality(OwnersIn(h, o)) \in Nat
  BY Shapes, OwnerCounts DEF Counted
<1>3. CASE \E s \in Slots : h[s] = o
  <2>1. Cardinality(OwnersIn(h, o)) >= 1
    BY <1>2, <1>3, StoredIsOwned
  <2> QED
    BY <1>1, <1>2, <1>3, <2>1 DEF References, Shared!Held
<1>4. CASE ~\E s \in Slots : h[s] = o
  <2>1. OwnersIn(h, o) = {}
    BY <1>4 DEF OwnersIn
  <2>2. Cardinality(OwnersIn(h, o)) = 0
    BY <2>1, FS_EmptySet
  <2> QED
    BY <1>1, <1>2, <1>4, <2>2 DEF References, Shared!Held
<1> QED
  BY <1>3, <1>4

(* The same, as an implication that holds in every state of a behaviour.    *)
LEMMA HeldAlways ==
    Counted /\ ~flawed =>
      \A o \in Objects : rc[o] \in Nat /\ (rc[o] > 0 <=> Shared!Held(o))
BY ExistsWhileHeld

(* Every step without a miscount is a step of Ownership.                    *)
LEMMA StepShares ==
    ASSUME Counted, Counted', Next, ~flawed'
    PROVE  Shared!Next
<1>1. ~flawed
  BY FlawsRemain
<1>2. \A o \in Objects : rc[o] \in Nat /\ (rc[o] > 0 <=> Shared!Held(o))
  BY <1>1, HeldAlways
<1>3. (Counted /\ ~flawed =>
        \A o \in Objects : rc[o] \in Nat /\ (rc[o] > 0 <=> Shared!Held(o)))'
  BY HeldAlways, PTL
<1>4. \A o \in Objects : rc'[o] \in Nat /\ (rc'[o] > 0 <=> Shared!Held(o)')
  BY <1>3
<1>5. ASSUME NEW s \in Slots, NEW v \in Objects, CreateCtor(s, v)
      PROVE  Shared!Next
  <2>1. { o \in Objects : rc'[o] > 0 } = { o \in Objects : rc[o] > 0 } \cup {v}
    BY <1>5, Shapes DEF CreateCtor, Counted, Counts
  <2>2. Shared!Create(v)
    <3>1. /\ ext' = ext
          /\ h[s] = Absent
          /\ h' = [h EXCEPT ![s] = v]
          /\ v \notin { o \in Objects : rc[o] > 0 }
      BY <1>5 DEF CreateCtor, Live
    <3> QED
      BY <2>1, <3>1 DEF Shared!Create
  <2> QED
    BY <2>2 DEF Shared!Next
<1>6. ASSUME NEW v \in Objects, ExtCreate(v) PROVE Shared!Next
  <2>1. { o \in Objects : rc'[o] > 0 } = { o \in Objects : rc[o] > 0 } \cup {v}
    BY <1>6, Shapes DEF ExtCreate, Counted, Counts
  <2>2. Shared!Create(v)
    <3>1. /\ h' = h
          /\ ext' = [ext EXCEPT ![v] = 1]
          /\ v \notin { o \in Objects : rc[o] > 0 }
      BY <1>6 DEF ExtCreate
    <3> QED
      BY <2>1, <3>1 DEF Shared!Create
  <2> QED
    BY <2>2 DEF Shared!Next
<1>7. CASE ~Creates
  <2>1. \A o \in Objects : rc'[o] > 0 => rc[o] > 0
    BY <1>7, OnlyCreationRevives DEF Counted
  <2>2. /\ h' \in [Slots -> Objects \cup {Null, Absent}]
        /\ ext' \in [Objects -> Nat]
    BY BoundsAssumption DEF Counted, TypeOK
  <2>3. { o \in Objects : rc'[o] > 0 } = { o \in Objects : Shared!Held(o)' }
    BY <1>4
  <2>4. { o \in Objects : rc'[o] > 0 } \subseteq { o \in Objects : rc[o] > 0 }
    BY <2>1
  <2>5. Shared!Share
    BY <2>2, <2>3, <2>4 DEF Shared!Share, Shared!Referenced
  <2> QED
    BY <2>5 DEF Shared!Next
<1> QED
  BY <1>5, <1>6, <1>7 DEF Creates

(***************************************************************************)
(* The smart pointers implement shared ownership: for any helpers and any  *)
(* objects, and until one of the two flawed moves runs, an object exists   *)
(* exactly while it is referred to, and only creating it brings it to life.*)
(***************************************************************************)
THEOREM ImplementsOwnership == Spec => SharedOwnership
<1>1. Init => Shared!Init
  BY HandleAssumption DEF Init, Shared!Init
<1>2. Counted /\ Counted' /\ [Next]_vars
        => [flawed' \/ Shared!Next]_<<h, ext, rc>>
  BY StepShares DEF vars
<1> QED
  BY <1>1, <1>2, InitCounted, StepCounted, PTL DEF Spec, SharedOwnership
=============================================================================
