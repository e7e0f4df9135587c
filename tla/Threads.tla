-------------------------------- MODULE Threads --------------------------------
(***************************************************************************)
(* Scripts in several threads: concurrent/threading.hpp, request_context   *)
(* and atomic_counter, put together as in test/test_concurrent and         *)
(* doc/advanced/threading.rst.  The main thread prepares AngelScript,      *)
(* makes an engine, starts a detached helper that calls a script function, *)
(* and waits on a condition variable for its result.  All the threads, and *)
(* others that do nothing else, have handles of one object that counts its *)
(* references with an atomic_counter.                                      *)
(*                                                                         *)
(* A condition variable may wake a waiter for no reason, and what is       *)
(* notified before the waiter waits is lost.                               *)
(***************************************************************************)
EXTENDS Integers, FiniteSets

CONSTANTS Main, Helper, Others,  \* threads
          Nobody,                \* in the place of a thread
          HasDeadline,           \* wait_until, as the test does, or wait
          MaxHandles             \* bound on the handles of a thread

ASSUME ThreadsAssumption ==
  /\ IsFiniteSet(Others) /\ Main # Helper
  /\ {Main, Helper} \cap Others = {}
  /\ Nobody \notin {Main, Helper} \cup Others
  /\ HasDeadline \in BOOLEAN
  /\ MaxHandles \in Nat \ {0}

All == {Main, Helper} \cup Others

VARIABLES
  pc,        \* what the main thread or the helper does next
  mx,        \* holder of the mutex
  woken,     \* why the main thread is no longer waiting
  result,    \* has the helper stored its result?
  engine,    \* "none", "live" or "destroyed"
  prepared,  \* is AngelScript prepared for threads?
  local,     \* threads that have AngelScript's data of their own
  cleanup,   \* threads that clean up when they exit
  count,     \* the atomic_counter of the shared object
  object,    \* "live", "dead", or "twice" when deleted again
  held,      \* handles of the shared object in each thread
  dropped    \* what the last dec() of a thread returned, till it is looked at

program == <<pc, mx, woken, result, engine, prepared, local, cleanup>>
shared == <<count, object, held, dropped>>
vars == <<program, shared>>

NotDropped == -1

Init ==
  /\ pc = [t \in {Main, Helper} |-> IF t = Main THEN "prepare_multithread" ELSE "unborn"]
  /\ mx = Nobody /\ woken = "no" /\ result = FALSE
  /\ engine = "none" /\ prepared = FALSE
  /\ local = {} /\ cleanup = {}
  /\ count = 1 /\ object = "live"
  /\ held = [t \in All |-> IF t = Main THEN 1 ELSE 0]
  /\ dropped = [t \in All |-> NotDropped]

\* What the helper does after each step.  Its block destroys the lock, then
\* request_context.
HelperProgram ==
  [auto_thread_cleanup |-> "request_context", request_context |-> "script_invoke",
   script_invoke |-> "lock", lock |-> "store", store |-> "unlock",
   unlock |-> "return_context", return_context |-> "notify_all",
   notify_all |-> "exit", exit |-> "ended"]

\* A thread goes on with its program when it is not in the middle of a release.
Goto(t, from, to) ==
  /\ pc[t] = from /\ dropped[t] = NotDropped
  /\ pc' = [pc EXCEPT ![t] = to]
  /\ UNCHANGED shared

(***************************************************************************)
(* The main thread.                                                        *)
(***************************************************************************)
\* asPrepareMultithread; asUnprepareMultithread when the process ends
prepare_multithread ==
  /\ Goto(Main, "prepare_multithread", "make_script_engine")
  /\ prepared' = TRUE
  /\ UNCHANGED <<mx, woken, result, engine, local, cleanup>>

make_script_engine ==
  /\ Goto(Main, "make_script_engine", "start")
  /\ engine' = "live" /\ local' = local \cup {Main}
  /\ UNCHANGED <<mx, woken, result, prepared, cleanup>>

\* Each thread gets a handle of the shared object.
Start ==
  /\ pc[Main] = "start" /\ dropped[Main] = NotDropped
  /\ pc' = [pc EXCEPT ![Main] = "lock", ![Helper] = "auto_thread_cleanup"]
  /\ held' = [t \in All |-> IF t = Main THEN held[t] ELSE 1]
  /\ count' = count + Cardinality(All \ {Main})
  /\ UNCHANGED <<mx, woken, result, engine, prepared, local, cleanup, object, dropped>>

MainLocks ==
  /\ Goto(Main, "lock", "wait") /\ mx = Nobody /\ mx' = Main
  /\ UNCHANGED <<woken, result, engine, prepared, local, cleanup>>

Wait ==
  /\ Goto(Main, "wait", "waiting") /\ mx' = Nobody
  /\ UNCHANGED <<woken, result, engine, prepared, local, cleanup>>

WakeUp(reason) ==
  /\ Goto(Main, "waiting", "relock") /\ woken' = reason
  /\ UNCHANGED <<mx, result, engine, prepared, local, cleanup>>

\* Mutant: wait instead of wait_until
TimeoutMutant == FALSE

Timeout == HasDeadline /\ WakeUp("timeout")

Spurious == WakeUp("spurious")

\* wait returns with the mutex, which the end of the block releases
Relock ==
  /\ Goto(Main, "relock", "destroy") /\ mx = Nobody
  /\ UNCHANGED <<mx, woken, result, engine, prepared, local, cleanup>>

DestroyEngine ==
  /\ Goto(Main, "destroy", "exit") /\ engine' = "destroyed"
  /\ UNCHANGED <<mx, woken, result, prepared, local, cleanup>>

\* The process ends, and every thread with it.
ExitProcess ==
  /\ Goto(Main, "exit", "ended") /\ prepared' = FALSE
  /\ UNCHANGED <<mx, woken, result, engine, local, cleanup>>

MainStep ==
  \/ prepare_multithread \/ make_script_engine \/ Start
  \/ MainLocks \/ Wait \/ Timeout \/ Relock \/ DestroyEngine

(***************************************************************************)
(* The helper.                                                             *)
(***************************************************************************)
\* Mutant: notify_all inside the block, before its objects are destroyed.
AfterMutant(step) ==
  CASE step = "unlock" -> "notify_all" [] step = "notify_all" -> "return_context"
    [] step = "return_context" -> "exit" [] OTHER -> HelperProgram[step]

After(step) == HelperProgram[step]

Running == pc[Main] # "ended"

HelperDoes(step) ==
  /\ Running
  /\ pc[Helper] = step
  /\ Goto(Helper, step, After(step))

auto_thread_cleanup ==
  /\ HelperDoes("auto_thread_cleanup") /\ cleanup' = cleanup \cup {Helper}
  /\ UNCHANGED <<mx, woken, result, engine, prepared, local>>

\* request_context, and script_invoke with the context
CallScript ==
  /\ \/ HelperDoes("request_context") /\ UNCHANGED local
     \/ HelperDoes("script_invoke") /\ local' = local \cup {Helper}
     \/ HelperDoes("return_context") /\ UNCHANGED local
  /\ UNCHANGED <<mx, woken, result, engine, prepared, cleanup>>

HelperLocks ==
  /\ HelperDoes("lock") /\ mx = Nobody /\ mx' = Helper
  /\ UNCHANGED <<woken, result, engine, prepared, local, cleanup>>

StoreResult ==
  /\ HelperDoes("store") /\ result' = TRUE
  /\ UNCHANGED <<mx, woken, engine, prepared, local, cleanup>>

HelperUnlocks ==
  /\ HelperDoes("unlock") /\ mx' = Nobody
  /\ UNCHANGED <<woken, result, engine, prepared, local, cleanup>>

notify_all ==
  /\ Running /\ pc[Helper] = "notify_all" /\ dropped[Helper] = NotDropped
  /\ LET next == After("notify_all")
     IN  IF pc[Main] = "waiting"
         THEN pc' = [pc EXCEPT ![Helper] = next, ![Main] = "relock"] /\ woken' = "notified"
         ELSE pc' = [pc EXCEPT ![Helper] = next] /\ UNCHANGED woken
  /\ UNCHANGED <<mx, result, engine, prepared, local, cleanup, shared>>

\* asThreadCleanup
ExitHelper ==
  /\ HelperDoes("exit")
  /\ local' = local \ ({Helper} \cap cleanup)
  /\ UNCHANGED <<mx, woken, result, engine, prepared, cleanup>>

HelperStep ==
  \/ auto_thread_cleanup \/ CallScript \/ HelperLocks \/ StoreResult
  \/ HelperUnlocks \/ notify_all \/ ExitHelper

(***************************************************************************)
(* The shared object.  dec() and the look at what it returned are two      *)
(* steps: other threads run between them.                                  *)
(***************************************************************************)
CanUse(t) ==
  /\ Running /\ dropped[t] = NotDropped /\ held[t] > 0
  /\ t \in {Main, Helper} => pc[t] \notin {"waiting", "relock", "ended"}

\* Mutant: the new handle is not counted.
incMutant == UNCHANGED count

inc == count' = count + 1

AddRef(t) ==
  /\ CanUse(t) /\ held[t] < MaxHandles
  /\ inc
  /\ held' = [held EXCEPT ![t] = @ + 1]
  /\ UNCHANGED <<program, object, dropped>>

\* Mutant: dec returns what the counter was before.
decMutant(t) == count' = count - 1 /\ dropped' = [dropped EXCEPT ![t] = count]

dec(t) == count' = count - 1 /\ dropped' = [dropped EXCEPT ![t] = count - 1]

\* (The main thread keeps a handle to give to the others.)
Release(t) ==
  /\ CanUse(t) /\ (pc[Helper] = "unborn" => held[t] > 1)
  /\ dec(t)
  /\ held' = [held EXCEPT ![t] = @ - 1]
  /\ UNCHANGED <<program, object>>

\* Mutant: the counter is read again.
WasLastMutant(t) == count = 0

WasLast(t) == dropped[t] = 0

try_delete(t) ==
  /\ Running /\ dropped[t] # NotDropped
  /\ object' = IF ~WasLast(t) THEN object
               ELSE IF object = "live" THEN "dead" ELSE "twice"
  /\ dropped' = [dropped EXCEPT ![t] = NotDropped]
  /\ UNCHANGED <<program, count, held>>

Terminated == ~Running /\ UNCHANGED vars

Next ==
  \/ MainStep \/ Spurious \/ ExitProcess \/ HelperStep
  \/ \E t \in All : AddRef(t) \/ Release(t) \/ try_delete(t)
  \/ Terminated

Spec == Init /\ [][Next]_vars

\* Every thread gets its turns, and the deadline of wait_until comes.  A thread
\* counts only finitely often before it goes on with its program, which is not
\* enabled in the middle of a release: hence strong fairness.  A spurious wakeup
\* may never come, the process may go on for ever (with the next test), and no
\* thread has to drop its handles.
FairSpec ==
  /\ Spec
  /\ SF_vars(MainStep) /\ SF_vars(HelperStep)
  /\ \A t \in All : WF_vars(try_delete(t))

(***************************************************************************)
(* Properties.                                                             *)
(***************************************************************************)
MainPlaces ==
  {"prepare_multithread", "make_script_engine", "start", "lock", "wait",
   "waiting", "relock", "destroy", "exit", "ended"}

HelperPlaces == {"unborn", "ended"} \cup DOMAIN HelperProgram

TypeOK ==
  /\ pc \in [{Main, Helper} -> MainPlaces \cup HelperPlaces]
  /\ pc[Main] \in MainPlaces /\ pc[Helper] \in HelperPlaces
  /\ mx \in {Main, Helper, Nobody}
  /\ woken \in {"no", "notified", "timeout", "spurious"}
  /\ engine \in {"none", "live", "destroyed"}
  /\ result \in BOOLEAN /\ prepared \in BOOLEAN
  /\ local \subseteq {Main, Helper} /\ cleanup \subseteq {Helper}
  /\ count \in 0..(MaxHandles * Cardinality(All))
  /\ object \in {"live", "dead"}
  /\ held \in [All -> 0..MaxHandles]
  /\ dropped \in [All -> NotDropped..(MaxHandles * Cardinality(All))]

\* As long as any thread has a handle the object exists, whatever the threads
\* that drop theirs have done so far (utility.hpp:951).
SharedIsAlive == (\E t \in All : held[t] > 0) => object = "live"

\* A main thread that was notified finds the result, and may destroy the
\* engine: no helper has a context of it any more.  One whose wait ended in
\* another way may not, and does (test_threading.cpp:38-57).
NotifiedIsSafe ==
  woken = "notified" =>
    /\ result
    /\ engine = "destroyed" =>
         pc[Helper] \notin {"script_invoke", "lock", "store", "unlock", "return_context"}

\* The last thread to drop its handle destroys the object, unless the process
\* ends before (utility.hpp:949-955).
ObjectGoes == (\A t \in All : held[t] = 0) ~> (object = "dead" \/ ~Running)

\* The main thread comes to its end (test_threading.cpp:53; without a deadline
\* doc/advanced/threading.rst:80: `assert(result == 20);` after cv.wait(lock)).
MainEnds == <>(pc[Main] \in {"exit", "ended"})

=============================================================================
