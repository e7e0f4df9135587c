----------------------------- MODULE ThreadsProofs -----------------------------
(***************************************************************************)
(* Proofs about Threads, for any number of threads and handles.            *)
(***************************************************************************)
EXTENDS Threads, FiniteSetTheorems, TLAPS

(***************************************************************************)
(* The inductive invariant has two parts: what the programs of the two     *)
(* threads have done, and who counts the shared object.                    *)
(***************************************************************************)
\* the helper has stored its result
Stored == {"unlock", "return_context", "notify_all", "exit", "ended"}

ProgramInv ==
  /\ pc \in [{Main, Helper} -> MainPlaces \cup HelperPlaces]
  /\ pc[Main] \in MainPlaces /\ pc[Helper] \in HelperPlaces
  /\ mx \in {Main, Helper, Nobody}
  /\ woken \in {"no", "notified", "timeout", "spurious"}
  /\ engine \in {"none", "live", "destroyed"}
  /\ result \in BOOLEAN /\ prepared \in BOOLEAN
  /\ local \subseteq {Main, Helper} /\ cleanup \subseteq {Helper}
  /\ pc[Helper] \in Stored => result = TRUE
  /\ woken = "notified" => pc[Helper] \in {"exit", "ended"}
  /\ pc[Helper] = "unborn" <=>
       (pc[Main] \in {"prepare_multithread", "make_script_engine", "start"})

\* The handles of a thread, numbered, as elements of a set to be counted.
HandlesIn(hd) == {h \in All \X (1..MaxHandles) : h[2] <= hd[h[1]]}
Handles == HandlesIn(held)

\* A thread whose decrement returned 0 has the object for itself: no handle is
\* left, no other thread may delete, and nobody has deleted.
SharedInv ==
  /\ held \in [All -> 0..MaxHandles]
  /\ dropped \in [All -> NotDropped..(MaxHandles * Cardinality(All))]
  /\ object \in {"live", "dead"}
  /\ count = Cardinality(Handles)
  /\ count > 0 => object = "live"
  /\ \A t \in All : dropped[t] = 0 => count = 0 /\ object = "live"
  /\ \A t, u \in All : dropped[t] = 0 /\ dropped[u] = 0 => t = u

\* Before the helper starts all the handles are the main thread's.
StartInv ==
  pc[Helper] = "unborn" => held[Main] > 0 /\ \A t \in All \ {Main} : held[t] = 0

Inv == ProgramInv /\ SharedInv /\ StartInv

(***************************************************************************)
(* Counting handles.                                                       *)
(***************************************************************************)

\* There are finitely many threads.
LEMMA AllIsFinite == IsFiniteSet(All) /\ Cardinality(All) \in Nat
<1>1. IsFiniteSet({Main, Helper})
  <2>1. IsFiniteSet({Main}) BY FS_Singleton
  <2>2. IsFiniteSet({Main} \cup {Helper}) BY <2>1, FS_AddElement
  <2>3. {Main, Helper} = {Main} \cup {Helper} OBVIOUS
  <2> QED BY <2>2, <2>3
<1>2. IsFiniteSet(All) BY <1>1, ThreadsAssumption, FS_Union DEF All
<1> QED BY <1>2, FS_CardinalityType

\* There are at most MaxHandles handles for each thread.
LEMMA HandlesAreFinite ==
  ASSUME NEW hd \in [All -> 0..MaxHandles]
  PROVE  /\ IsFiniteSet(HandlesIn(hd))
         /\ Cardinality(HandlesIn(hd)) \in 0..(MaxHandles * Cardinality(All))
<1> DEFINE A == All \X (1..MaxHandles)
<1>1. IsFiniteSet(1..MaxHandles) /\ Cardinality(1..MaxHandles) = MaxHandles
  BY FS_Interval, ThreadsAssumption
<1>2. IsFiniteSet(A) /\ Cardinality(A) = Cardinality(All) * MaxHandles
  BY <1>1, AllIsFinite, FS_Product
<1>3. HandlesIn(hd) \in SUBSET A BY DEF HandlesIn
<1>4. IsFiniteSet(HandlesIn(hd)) /\ Cardinality(HandlesIn(hd)) <= Cardinality(A)
  BY <1>2, <1>3, FS_Subset
<1>5. Cardinality(HandlesIn(hd)) \in Nat BY <1>4, FS_CardinalityType
<1>6. Cardinality(All) * MaxHandles = MaxHandles * Cardinality(All)
  BY AllIsFinite, ThreadsAssumption
<1> QED BY <1>2, <1>4, <1>5, <1>6, AllIsFinite, ThreadsAssumption

\* A thread with a handle is counted.
LEMMA HeldIsCounted ==
  ASSUME NEW hd \in [All -> 0..MaxHandles], NEW t \in All, hd[t] > 0
  PROVE  Cardinality(HandlesIn(hd)) > 0
<1>1. <<t, 1>> \in HandlesIn(hd) BY ThreadsAssumption DEF HandlesIn
<1>2. Cardinality(HandlesIn(hd)) # 0 BY <1>1, HandlesAreFinite, FS_EmptySet
<1> QED BY <1>2, HandlesAreFinite

\* One handle more is counted as one more.
LEMMA OneMore ==
  ASSUME NEW hd \in [All -> 0..MaxHandles], NEW t \in All, hd[t] < MaxHandles
  PROVE  Cardinality(HandlesIn([hd EXCEPT ![t] = @ + 1])) = Cardinality(HandlesIn(hd)) + 1
<1> DEFINE new == <<t, hd[t] + 1>>
<1>1. HandlesIn([hd EXCEPT ![t] = @ + 1]) = HandlesIn(hd) \cup {new}
  BY ThreadsAssumption DEF HandlesIn
<1>2. new \notin HandlesIn(hd) BY ThreadsAssumption DEF HandlesIn
<1> QED BY <1>1, <1>2, HandlesAreFinite, FS_AddElement

\* One handle less is counted as one less.
LEMMA OneLess ==
  ASSUME NEW hd \in [All -> 0..MaxHandles], NEW t \in All, hd[t] > 0
  PROVE  Cardinality(HandlesIn([hd EXCEPT ![t] = @ - 1])) = Cardinality(HandlesIn(hd)) - 1
<1> DEFINE old == <<t, hd[t]>>
<1>1. HandlesIn([hd EXCEPT ![t] = @ - 1]) = HandlesIn(hd) \ {old}
  BY ThreadsAssumption DEF HandlesIn
<1>2. old \in HandlesIn(hd) BY ThreadsAssumption DEF HandlesIn
<1> QED BY <1>1, <1>2, HandlesAreFinite, FS_RemoveElement

\* A handle for each other thread is counted as one more for each.
LEMMA OneForEach ==
  ASSUME NEW hd \in [All -> 0..MaxHandles], \A t \in All \ {Main} : hd[t] = 0
  PROVE  Cardinality(HandlesIn([t \in All |-> IF t = Main THEN hd[t] ELSE 1]))
           = Cardinality(HandlesIn(hd)) + Cardinality(All \ {Main})
<1> DEFINE given == (All \ {Main}) \X {1}
<1>1. IsFiniteSet(All \ {Main}) BY AllIsFinite, FS_RemoveElement
<1>2. IsFiniteSet({1}) /\ Cardinality({1}) = 1 BY FS_Singleton
<1>3. IsFiniteSet(given) /\ Cardinality(given) = Cardinality(All \ {Main})
  <2>1. Cardinality(given) = Cardinality(All \ {Main}) * 1 BY <1>1, <1>2, FS_Product
  <2>2. Cardinality(All \ {Main}) \in Nat BY <1>1, FS_CardinalityType
  <2> QED BY <1>1, <1>2, <2>1, <2>2, FS_Product
<1>4. HandlesIn([t \in All |-> IF t = Main THEN hd[t] ELSE 1]) = HandlesIn(hd) \cup given
  BY ThreadsAssumption DEF HandlesIn
<1>5. HandlesIn(hd) \cap given = {} BY DEF HandlesIn
<1>6. Cardinality({}) = 0 BY FS_EmptySet
<1>7. Cardinality(HandlesIn(hd)) \in Nat BY HandlesAreFinite, AllIsFinite, ThreadsAssumption
<1>8. Cardinality(given) \in Nat BY <1>3, FS_CardinalityType
<1> DEFINE before == HandlesIn(hd)
<1>9. IsFiniteSet(before) BY HandlesAreFinite
<1> HIDE DEF given
<1>10. Cardinality(before \cup given)
         = Cardinality(before) + Cardinality(given) - Cardinality(before \cap given)
  <2> HIDE DEF before
  <2> QED BY <1>3, <1>9, FS_Union
<1>11. Cardinality(before \cup given) = Cardinality(before) + Cardinality(All \ {Main})
  <2>1. Cardinality(before \cap given) = 0 BY <1>5, <1>6, Zenon
  <2>2. Cardinality(given) = Cardinality(All \ {Main}) BY <1>3
  <2>3. Cardinality(before) \in Nat BY <1>7
  <2> HIDE DEF before
  <2> QED BY <2>1, <2>2, <2>3, <1>8, <1>10
<1> QED BY <1>4, <1>11, Zenon

(***************************************************************************)
(* The programs of the main thread and the helper.                         *)
(***************************************************************************)

\* What the helper does after each of its steps.
LEMMA HelperOrder ==
  /\ After("auto_thread_cleanup") = "request_context"
  /\ After("request_context") = "script_invoke"
  /\ After("script_invoke") = "lock"
  /\ After("lock") = "store"
  /\ After("store") = "unlock"
  /\ After("unlock") = "return_context"
  /\ After("return_context") = "notify_all"
  /\ After("notify_all") = "exit"
  /\ After("exit") = "ended"
BY DEF After, HelperProgram

LEMMA ProgramInit == Init => ProgramInv
BY ThreadsAssumption DEF Init, ProgramInv, HelperPlaces, HelperProgram, MainPlaces, Stored

LEMMA ProgramUnchanged == ProgramInv /\ UNCHANGED program => ProgramInv'
BY DEF ProgramInv, program

\* A step of the main thread keeps the invariant of the programs.
LEMMA MainKeepsProgram ==
  ASSUME ProgramInv, MainStep \/ Spurious \/ ExitProcess
  PROVE  ProgramInv'
<1> USE ThreadsAssumption DEF ProgramInv, HelperPlaces, HelperProgram, MainPlaces, Stored, Goto
<1>1. CASE prepare_multithread BY <1>1 DEF prepare_multithread
<1>2. CASE make_script_engine BY <1>2 DEF make_script_engine
<1>3. CASE Start BY <1>3 DEF Start
<1>4. CASE MainLocks BY <1>4 DEF MainLocks
<1>5. CASE Wait BY <1>5 DEF Wait
<1>6. CASE Timeout BY <1>6 DEF Timeout, WakeUp
<1>7. CASE Relock BY <1>7 DEF Relock
<1>8. CASE DestroyEngine BY <1>8 DEF DestroyEngine
<1>9. CASE Spurious BY <1>9 DEF Spurious, WakeUp
<1>10. CASE ExitProcess BY <1>10 DEF ExitProcess
<1> QED
  BY <1>1, <1>2, <1>3, <1>4, <1>5, <1>6, <1>7, <1>8, <1>9, <1>10 DEF MainStep

\* So does a step of the helper.
LEMMA HelperKeepsProgram ==
  ASSUME ProgramInv, HelperStep
  PROVE  ProgramInv'
<1> USE ThreadsAssumption, HelperOrder
    DEF ProgramInv, HelperPlaces, HelperProgram, MainPlaces, Stored, HelperDoes, Goto
<1>1. CASE auto_thread_cleanup BY <1>1 DEF auto_thread_cleanup
<1>2. CASE CallScript BY <1>2 DEF CallScript
<1>3. CASE HelperLocks BY <1>3 DEF HelperLocks
<1>4. CASE StoreResult BY <1>4 DEF StoreResult
<1>5. CASE HelperUnlocks BY <1>5 DEF HelperUnlocks
<1>6. CASE notify_all
  <2>1. CASE pc[Main] = "waiting" BY <1>6, <2>1 DEF notify_all
  <2>2. CASE pc[Main] # "waiting" BY <1>6, <2>2 DEF notify_all
  <2> QED BY <2>1, <2>2
<1>7. CASE ExitHelper BY <1>7 DEF ExitHelper
<1> QED BY <1>1, <1>2, <1>3, <1>4, <1>5, <1>6, <1>7 DEF HelperStep

\* No step breaks the invariant of the programs.
LEMMA ProgramKept == ProgramInv /\ [Next]_vars => ProgramInv'
<1> SUFFICES ASSUME ProgramInv, [Next]_vars PROVE ProgramInv'
  OBVIOUS
<1>1. CASE MainStep \/ Spurious \/ ExitProcess BY <1>1, MainKeepsProgram
<1>2. CASE HelperStep BY <1>2, HelperKeepsProgram
<1>3. CASE \E t \in All : AddRef(t) \/ Release(t) \/ try_delete(t)
  BY <1>3, ProgramUnchanged DEF AddRef, Release, try_delete
<1>4. CASE Terminated \/ UNCHANGED vars
  BY <1>4, ProgramUnchanged DEF Terminated, vars
<1> QED BY <1>1, <1>2, <1>3, <1>4 DEF Next

(***************************************************************************)
(* The shared object.                                                      *)
(***************************************************************************)
LEMMA TwoThreads == Main \in All /\ Helper \in All /\ Main # Helper
BY ThreadsAssumption DEF All

\* At first the main thread holds the only handle.
LEMMA SharedInit == Init => SharedInv /\ StartInv
<1> SUFFICES ASSUME Init PROVE SharedInv /\ StartInv
  OBVIOUS
<1>1. held \in [All -> 0..MaxHandles] BY ThreadsAssumption DEF Init
<1>2. Handles = {<<Main, 1>>} BY TwoThreads, ThreadsAssumption DEF Init, Handles, HandlesIn
<1>3. count = Cardinality(Handles) BY <1>2, FS_Singleton DEF Init
<1>4. MaxHandles * Cardinality(All) \in Nat BY AllIsFinite, ThreadsAssumption
<1>5. dropped \in [All -> NotDropped..(MaxHandles * Cardinality(All))]
  BY <1>4 DEF Init, NotDropped
<1>6. StartInv BY TwoThreads DEF Init, StartInv
<1> QED BY <1>1, <1>3, <1>5, <1>6 DEF Init, SharedInv, NotDropped

LEMMA SharedUnchanged == SharedInv /\ UNCHANGED shared => SharedInv'
BY DEF SharedInv, shared, Handles, HandlesIn

\* The programs leave the shared object alone, but for Start.
LEMMA ProgramsDoNotCount ==
  ASSUME MainStep \/ Spurious \/ ExitProcess \/ HelperStep, ~Start
  PROVE  UNCHANGED shared
BY DEF MainStep, HelperStep, Goto, prepare_multithread, make_script_engine, MainLocks,
       Wait, Timeout, WakeUp, Relock, DestroyEngine, Spurious, ExitProcess,
       auto_thread_cleanup, CallScript, HelperLocks, StoreResult, HelperUnlocks,
       notify_all, ExitHelper, HelperDoes

\* The helper's steps come after its birth.
LEMMA HelperIsBorn == ProgramInv /\ HelperStep => pc'[Helper] # "unborn"
BY TwoThreads, HelperOrder
   DEF ProgramInv, HelperStep, Goto, HelperDoes, auto_thread_cleanup, CallScript,
       HelperLocks, StoreResult, HelperUnlocks, notify_all, ExitHelper

\* The steps of the main thread leave the helper alone, but for Start.
LEMMA MainLeavesHelper ==
  ProgramInv /\ (MainStep \/ Spurious \/ ExitProcess) /\ ~Start => pc'[Helper] = pc[Helper]
BY TwoThreads
   DEF ProgramInv, MainStep, Goto, prepare_multithread, make_script_engine, MainLocks,
       Wait, Timeout, WakeUp, Relock, DestroyEngine, Spurious, ExitProcess

\* The others get a handle each, while the main thread has one.
LEMMA StartKeepsShared ==
  ASSUME Inv, Start
  PROVE  SharedInv' /\ StartInv'
<1> USE DEF Inv, SharedInv
<1>1. pc[Helper] = "unborn" BY TwoThreads DEF ProgramInv, Start
<1>2. held[Main] > 0 /\ \A t \in All \ {Main} : held[t] = 0 BY <1>1 DEF StartInv
<1>3. held' = [t \in All |-> IF t = Main THEN held[t] ELSE 1] BY DEF Start
<1>4. held' \in [All -> 0..MaxHandles] BY <1>3, ThreadsAssumption
<1>5. held' = [t \in All |-> IF t = Main THEN held[Main] ELSE 1]
      /\ Handles' = HandlesIn(held')
  BY <1>3 DEF Handles, HandlesIn
<1>6. Cardinality(HandlesIn(held')) = count + Cardinality(All \ {Main})
  BY <1>2, <1>3, OneForEach DEF Handles
<1>7. count' = Cardinality(Handles') BY <1>5, <1>6 DEF Start
<1>8. count > 0 BY <1>2, TwoThreads, HeldIsCounted DEF Handles
<1>9. dropped' = dropped /\ object' = object BY DEF Start
<1>10. \A t \in All : dropped[t] # 0 BY <1>8
<1>11. pc'[Helper] = "auto_thread_cleanup" BY TwoThreads DEF Start, ProgramInv
<1> QED BY <1>4, <1>7, <1>8, <1>9, <1>10, <1>11 DEF StartInv

\* A thread with a handle makes another one.
LEMMA AddRefKeepsShared ==
  ASSUME Inv, NEW t \in All, AddRef(t)
  PROVE  SharedInv' /\ StartInv'
<1> USE DEF Inv, SharedInv
<1>1. held[t] > 0 /\ held[t] < MaxHandles BY DEF AddRef, CanUse
<1>2. held' = [held EXCEPT ![t] = @ + 1] /\ count' = count + 1 BY DEF AddRef, inc
<1>3. held' \in [All -> 0..MaxHandles] BY <1>1, <1>2, ThreadsAssumption
<1>4. count' = Cardinality(Handles')
  <2>1. Cardinality(HandlesIn(held')) = Cardinality(HandlesIn(held)) + 1
    BY <1>1, <1>2, OneMore
  <2> QED BY <2>1, <1>2 DEF Handles, HandlesIn
<1>5. count > 0 BY <1>1, HeldIsCounted DEF Handles
<1>6. dropped' = dropped /\ object' = object BY DEF AddRef
<1>7. StartInv'
  BY <1>1, <1>2, <1>3, TwoThreads, ThreadsAssumption DEF StartInv, AddRef, program
<1> QED BY <1>3, <1>4, <1>5, <1>6, <1>7

\* A thread drops a handle.  When it is the last one, no other thread is about
\* to delete the object: they would have found the counter at 0.
LEMMA ReleaseKeepsShared ==
  ASSUME Inv, NEW t \in All, Release(t)
  PROVE  SharedInv' /\ StartInv'
<1> USE DEF Inv, SharedInv
<1>1. held[t] > 0 BY DEF Release, CanUse
<1>2. /\ held' = [held EXCEPT ![t] = @ - 1] /\ count' = count - 1
      /\ dropped' = [dropped EXCEPT ![t] = count - 1]
  BY DEF Release, dec
<1>3. held' \in [All -> 0..MaxHandles] BY <1>1, <1>2, ThreadsAssumption
<1>4. count' = Cardinality(Handles')
  <2>1. Cardinality(HandlesIn(held')) = Cardinality(HandlesIn(held)) - 1
    BY <1>1, <1>2, OneLess
  <2> QED BY <2>1, <1>2 DEF Handles, HandlesIn
<1>5. count > 0 /\ count \in 0..(MaxHandles * Cardinality(All))
  BY <1>1, HeldIsCounted, HandlesAreFinite DEF Handles
<1>6. MaxHandles * Cardinality(All) \in Nat BY AllIsFinite, ThreadsAssumption
<1>7. count - 1 \in NotDropped..(MaxHandles * Cardinality(All)) BY <1>5, <1>6 DEF NotDropped
<1>8. dropped' \in [All -> NotDropped..(MaxHandles * Cardinality(All))] BY <1>2, <1>7
<1>9. \A u \in All : dropped[u] # 0 BY <1>5
<1>10. object' = object /\ object = "live" BY <1>5 DEF Release
<1>11. \A u \in All : dropped'[u] = 0 => u = t /\ count' = 0 BY <1>2, <1>9
<1>12. StartInv'
  BY <1>1, <1>2, <1>3, TwoThreads, ThreadsAssumption DEF StartInv, Release, program
<1> QED BY <1>3, <1>4, <1>8, <1>10, <1>11, <1>12

\* A thread looks at the result of its decrement.
LEMMA DeleteKeepsShared ==
  ASSUME Inv, NEW t \in All, try_delete(t)
  PROVE  SharedInv' /\ StartInv'
<1> USE DEF Inv, SharedInv
<1>1. /\ dropped' = [dropped EXCEPT ![t] = NotDropped]
      /\ count' = count /\ held' = held /\ pc' = pc
  BY DEF try_delete, program
<1>2. count' = Cardinality(Handles') BY <1>1 DEF Handles, HandlesIn
<1>3. MaxHandles * Cardinality(All) \in Nat BY AllIsFinite, ThreadsAssumption
<1>4. dropped' \in [All -> NotDropped..(MaxHandles * Cardinality(All))]
  BY <1>1, <1>3 DEF NotDropped
<1>5. StartInv' BY <1>1 DEF StartInv
<1>6. CASE dropped[t] = 0
  <2>1. object' = "dead" /\ count = 0 BY <1>6 DEF try_delete, WasLast
  <2>2. \A u \in All : dropped'[u] # 0 BY <1>1, <1>6 DEF NotDropped
  <2> QED BY <1>1, <1>2, <1>4, <1>5, <2>1, <2>2
<1>7. CASE dropped[t] # 0
  <2>1. object' = object BY <1>7 DEF try_delete, WasLast
  <2>2. \A u \in All : dropped'[u] = 0 => dropped[u] = 0 BY <1>1 DEF NotDropped
  <2> QED BY <1>1, <1>2, <1>4, <1>5, <2>1, <2>2
<1> QED BY <1>6, <1>7

\* No step breaks the invariant of the shared object.
LEMMA SharedKept == Inv /\ [Next]_vars => SharedInv' /\ StartInv'
<1> SUFFICES ASSUME Inv, [Next]_vars PROVE SharedInv' /\ StartInv'
  OBVIOUS
<1>1. CASE Start BY <1>1, StartKeepsShared
<1>2. CASE (MainStep \/ Spurious \/ ExitProcess \/ HelperStep) /\ ~Start
  <2>1. SharedInv' BY <1>2, ProgramsDoNotCount, SharedUnchanged DEF Inv
  <2>2. held' = held BY <1>2, ProgramsDoNotCount DEF shared
  <2>3. pc'[Helper] = "unborn" => pc[Helper] = "unborn"
    BY <1>2, HelperIsBorn, MainLeavesHelper DEF Inv
  <2> QED BY <2>1, <2>2, <2>3 DEF Inv, StartInv
<1>3. CASE \E t \in All : AddRef(t) BY <1>3, AddRefKeepsShared
<1>4. CASE \E t \in All : Release(t) BY <1>4, ReleaseKeepsShared
<1>5. CASE \E t \in All : try_delete(t) BY <1>5, DeleteKeepsShared
<1>6. CASE Terminated \/ UNCHANGED vars
  <2>1. UNCHANGED shared /\ UNCHANGED program BY <1>6 DEF Terminated, vars
  <2> QED BY <2>1, SharedUnchanged DEF Inv, StartInv, shared, program
<1> QED BY <1>1, <1>2, <1>3, <1>4, <1>5, <1>6 DEF Next

(***************************************************************************)
(* The theorems.                                                           *)
(***************************************************************************)

\* The invariant holds in every behaviour.
LEMMA Invariance == Spec => []Inv
<1>1. Init => Inv BY ProgramInit, SharedInit DEF Inv
<1>2. Inv /\ [Next]_vars => Inv' BY ProgramKept, SharedKept DEF Inv
<1> QED BY <1>1, <1>2, PTL DEF Spec

\* The state of the threads has its type: above all the counter stays between 0
\* and the handles there can be, and the object is not deleted twice
\* (utility.hpp:949-955).
THEOREM TypeCorrect == Spec => []TypeOK
<1>1. Inv => TypeOK
  <2> SUFFICES ASSUME Inv PROVE TypeOK
    OBVIOUS
  <2>1. count \in 0..(MaxHandles * Cardinality(All))
    BY HandlesAreFinite DEF Inv, SharedInv, Handles
  <2> QED BY <2>1 DEF Inv, ProgramInv, SharedInv, TypeOK
<1> QED BY <1>1, Invariance, PTL

\* Whichever thread drops the last handle, nobody who has one loses the object
\* (utility.hpp:944-955).
THEOREM HeldObjectsLive == Spec => []SharedIsAlive
<1>1. Inv => SharedIsAlive
  BY HeldIsCounted DEF Inv, SharedInv, SharedIsAlive, Handles
<1> QED BY <1>1, Invariance, PTL

\* A thread that was notified finds the result, and no helper uses the engine
\* any more when it destroys it (test_threading.cpp:38-57).
THEOREM NotificationIsEnough == Spec => []NotifiedIsSafe
<1>1. Inv => NotifiedIsSafe
  BY DEF Inv, ProgramInv, NotifiedIsSafe, Stored
<1> QED BY <1>1, Invariance, PTL
=============================================================================
