---------------------------- MODULE ScriptContexts ----------------------------
(***************************************************************************)
(* Running script code: request_context and reuse_active_context           *)
(* (memory.hpp), script_invoke and script_invoke_result (invoke.hpp).      *)
(*                                                                         *)
(* A thread's stack alternates between native code, which owns context     *)
(* helpers and invokes script functions through them, and script           *)
(* functions, which call native code again.  A helper either borrows a     *)
(* context from the engine or nests a call in the one that is executing,   *)
(* and hands errors of the nested call on when it is destroyed.            *)
(*                                                                         *)
(* The context's own methods belong to AngelScript and are modelled from   *)
(* what the helpers expect of them.                                        *)
(***************************************************************************)
EXTENDS Integers, Sequences, FiniteSets

CONSTANTS
    Threads,
    Contexts,   \* contexts the engine can have
    Null,       \* no context
    MaxDepth    \* bound: frames on the stacks together

ASSUME NullAssumption == Null \notin Contexts
ASSUME DepthAssumption == MaxDepth \in Nat

Errors == {"exception", "aborted"}

Outcomes == Errors \cup {"finished", "suspended"}

States == Outcomes \cup {"uninitialized", "active"}

VARIABLES
    stack,      \* each thread's frames, the innermost last
    state,      \* asEContextState of each context
    saved,      \* how often each context's state was pushed
    abort,      \* the contexts that were told to abort and are still active
    pool        \* the contexts the engine can lend

vars == <<stack, state, saved, abort, pool>>

(***************************************************************************)
(* Frames.  last is the outcome of the latest call through a helper, told  *)
(* the error that native code reported to the function that called it, or  *)
(* "lost" if a later call took the report back.                            *)
(***************************************************************************)
Helper(c, nested, propagate) ==
    [kind |-> "helper", ctx |-> c, nested |-> nested, propagate |-> propagate,
     last |-> "none"]

Native == [kind |-> "native"]

Exec(c, via) == [kind |-> "exec", ctx |-> c, via |-> via, told |-> "none"]

Depth(t) == Len(stack[t])

Top(t) == stack[t][Depth(t)]

TopIs(t, kind) == stack[t] # <<>> /\ Top(t).kind = kind

(* The positions of executing functions.                                    *)
Execs(t) == { i \in 1..Depth(t) : stack[t][i].kind = "exec" }

Innermost(t) == CHOOSE i \in Execs(t) : \A j \in Execs(t) : j <= i

(* current_context() is asGetActiveContext().                               *)
CurrentContext(t) == IF Execs(t) = {} THEN Null ELSE stack[t][Innermost(t)].ctx

(* Native code runs; the helpers it owns are those above the last function. *)
InNative(t) == ~TopIs(t, "exec")

Mine(t) == { i \in 1..Depth(t) : /\ stack[t][i].kind = "helper"
                                 /\ \A j \in Execs(t) : j < i }

Frames == { f \in Threads \X (1..MaxDepth) : f[2] <= Depth(f[1]) }

HasRoom == Cardinality(Frames) < MaxDepth

Push(t, frame) == stack' = [stack EXCEPT ![t] = Append(@, frame)]

Popped(t) == SubSeq(stack[t], 1, Depth(t) - 1)

Init == /\ stack = [t \in Threads |-> <<>>]
        /\ state = [c \in Contexts |-> "uninitialized"]
        /\ saved = [c \in Contexts |-> 0]
        /\ abort = {}
        /\ pool = Contexts

-----------------------------------------------------------------------------
(* Helpers.                                                                 *)

(* engine->RequestContext(), which gives null when it has nothing to lend;  *)
(* what to do with errors only matters for a nested call.                   *)
RequestContext(t, c) ==
    /\ InNative(t)
    /\ HasRoom
    /\ c \in IF pool = {} THEN {Null} ELSE pool
    /\ pool' = pool \ {c}
    /\ Push(t, Helper(c, FALSE, FALSE))
    /\ UNCHANGED <<state, saved, abort>>

(* Mutant: the result of PushState is not looked at.                        *)
CanPushAnyway(c) == c # Null

(* PushState succeeds only in a context that is active, and may still fail. *)
CanPush(c) == c # Null /\ state[c] = "active"

ReuseNested(t, propagate) ==
    /\ InNative(t)
    /\ HasRoom
    /\ LET c == CurrentContext(t)
       IN  /\ CanPush(c)
           /\ saved' = [saved EXCEPT ![c] = @ + 1]
           /\ state' = [state EXCEPT ![c] = "uninitialized"]
           /\ Push(t, Helper(c, TRUE, propagate))
    /\ UNCHANGED <<abort, pool>>

(* Nothing executes, or PushState failed.                                   *)
ReuseFallback(t, c) == RequestContext(t, c)

(* Mutant: a helper that got no context returns null.                       *)
ReturnAnything(t, c) == /\ pool' = pool \cup {c}
                        /\ state' = [d \in Contexts |->
                                       IF d = c THEN "uninitialized" ELSE state[d]]
                        /\ stack' = [stack EXCEPT ![t] = Popped(t)]
                        /\ UNCHANGED <<saved, abort>>

(* ReturnContext: the engine clears the context.                            *)
Return(t, c) == /\ pool' = pool \cup ({c} \ {Null})
                /\ state' = [d \in Contexts |-> IF d = c THEN "uninitialized"
                                                         ELSE state[d]]
                /\ stack' = [stack EXCEPT ![t] = Popped(t)]
                /\ UNCHANGED <<saved, abort>>

(* The frames of thread t when the helper on top is gone and the function   *)
(* that called its owner has been told how the nested call ended.           *)
Told(t, error) ==
    [Popped(t) EXCEPT ![Innermost(t)].told = IF error \in Errors THEN error ELSE @]

(* Mutant: the error is set before PopState, which restores another state.   *)
PopStateLate(t, c) ==
    LET error == IF Top(t).propagate THEN state[c] ELSE "none"
    IN  /\ saved' = [saved EXCEPT ![c] = @ - 1]
        /\ state' = [state EXCEPT ![c] = "active"]
        /\ stack' = [stack EXCEPT ![t] = Told(t, error)]
        /\ UNCHANGED <<abort, pool>>

(* Mutant: without propagation, the state stays pushed.                     *)
PopStateToPropagate(t, c) ==
    LET error == state[c]
    IN  /\ saved' = IF Top(t).propagate THEN [saved EXCEPT ![c] = @ - 1] ELSE saved
        /\ state' = [state EXCEPT ![c] = IF error = "exception" THEN "exception"
                                                                ELSE "active"]
        /\ abort' = IF error = "aborted" THEN abort \cup {c} ELSE abort
        /\ stack' = [stack EXCEPT ![t] = Told(t, error)]
        /\ UNCHANGED pool

(* pop_state_impl: the state is read before PopState, and the error is      *)
(* set on what PopState restored.                                           *)
PopState(t, c) ==
    LET error == IF Top(t).propagate THEN state[c] ELSE "none"
    IN  /\ saved' = [saved EXCEPT ![c] = @ - 1]
        /\ state' = [state EXCEPT ![c] = IF error = "exception" THEN "exception"
                                                                ELSE "active"]
        /\ abort' = IF error = "aborted" THEN abort \cup {c} ELSE abort
        /\ stack' = [stack EXCEPT ![t] = Told(t, error)]
        /\ UNCHANGED pool

(* Mutant: a nested context is returned, too.                               *)
DestroyHelperReturning(t) == TopIs(t, "helper") /\ Return(t, Top(t).ctx)

(* Both destructors.                                                        *)
DestroyHelper(t) == /\ TopIs(t, "helper")
                    /\ IF Top(t).nested THEN PopState(t, Top(t).ctx)
                                        ELSE Return(t, Top(t).ctx)

-----------------------------------------------------------------------------
(* Calls.                                                                   *)

(* Prepare clears a request to abort, also the one that told the function   *)
(* around it of an earlier nested call.                                     *)
Reprieved(t, c) ==
    IF c \in abort
    THEN [stack[t] EXCEPT ![Innermost(t)].told = IF @ \in Errors THEN "lost" ELSE @]
    ELSE stack[t]

(* script_invoke through the i-th helper: Prepare, which is asserted to     *)
(* succeed, and Execute.                                                    *)
ScriptInvoke(t, i) ==
    /\ HasRoom
    /\ i \in Mine(t)
    /\ LET c == stack[t][i].ctx
       IN  /\ c # Null
           /\ state[c] \notin {"active", "suspended"}
           /\ state' = [state EXCEPT ![c] = "active"]
           /\ abort' = abort \ {c}
           /\ stack' = [stack EXCEPT ![t] = Append(Reprieved(t, c), Exec(c, i))]
    /\ UNCHANGED <<saved, pool>>

(* Execute again after a suspension.                                        *)
Resume(t, i) ==
    /\ HasRoom
    /\ i \in Mine(t)
    /\ LET c == stack[t][i].ctx
       IN  /\ c # Null
           /\ state[c] = "suspended"
           /\ state' = [state EXCEPT ![c] = "active"]
           /\ Push(t, Exec(c, i))
    /\ UNCHANGED <<saved, abort, pool>>

(* The function on top of frames ends; Execute returns to the helper.       *)
Ends(t, frames, outcome) ==
    LET f == frames[Len(frames)]
        rest == SubSeq(frames, 1, Len(frames) - 1)
    IN  /\ stack' = [stack EXCEPT ![t] = [rest EXCEPT ![f.via].last = outcome]]
        /\ state' = [state EXCEPT ![f.ctx] = outcome]
        /\ abort' = abort \ {f.ctx}
        /\ UNCHANGED <<saved, pool>>

ScriptReturns(t) == TopIs(t, "exec") /\ Ends(t, stack[t], "finished")

ScriptThrows(t) == TopIs(t, "exec") /\ Ends(t, stack[t], "exception")

ScriptCalls(t) == /\ TopIs(t, "exec")
                  /\ HasRoom
                  /\ Push(t, Native)
                  /\ UNCHANGED <<state, saved, abort, pool>>

(* set_script_exception, or a C++ exception that left the function; Abort   *)
(* and Suspend on current_context().                                        *)
NativeRaises(t) == /\ TopIs(t, "native")
                   /\ state[CurrentContext(t)] = "active"
                   /\ state' = [state EXCEPT ![CurrentContext(t)] = "exception"]
                   /\ UNCHANGED <<stack, saved, abort, pool>>

NativeAborts(t) == /\ TopIs(t, "native")
                   /\ state[CurrentContext(t)] = "active"
                   /\ abort' = abort \cup {CurrentContext(t)}
                   /\ UNCHANGED <<stack, state, saved, pool>>

NativeSuspends(t) == /\ TopIs(t, "native")
                     /\ state[CurrentContext(t)] = "active"
                     /\ CurrentContext(t) \notin abort
                     /\ Ends(t, Popped(t), "suspended")

(* The function that called the native code goes on, unless an error was    *)
(* set on its context.                                                      *)
NativeReturns(t) ==
    /\ TopIs(t, "native")
    /\ LET c == CurrentContext(t)
       IN  IF state[c] = "exception" THEN Ends(t, Popped(t), "exception")
           ELSE IF c \in abort THEN Ends(t, Popped(t), "aborted")
           ELSE /\ stack' = [stack EXCEPT ![t] = Popped(t)]
                /\ UNCHANGED <<state, saved, abort, pool>>

(* The script catches the exception.                                        *)
ScriptCatches(t) ==
    /\ TopIs(t, "native")
    /\ LET c == CurrentContext(t)
       IN  /\ state[c] = "exception"
           /\ state' = [state EXCEPT ![c] = "active"]
           /\ stack' = [stack EXCEPT ![t] =
                          [Popped(t) EXCEPT ![Innermost(t)].told = "none"]]
    /\ UNCHANGED <<saved, abort, pool>>

-----------------------------------------------------------------------------
NativeStep(t) ==
    \/ \E c \in Contexts \cup {Null} : RequestContext(t, c) \/ ReuseFallback(t, c)
    \/ \E p \in BOOLEAN : ReuseNested(t, p)
    \/ DestroyHelper(t)
    \/ \E i \in 1..MaxDepth : ScriptInvoke(t, i) \/ Resume(t, i)
    \/ NativeRaises(t) \/ NativeAborts(t) \/ NativeSuspends(t) \/ NativeReturns(t)

ScriptStep(t) ==
    ScriptReturns(t) \/ ScriptThrows(t) \/ ScriptCalls(t) \/ ScriptCatches(t)

Next == \E t \in Threads : NativeStep(t) \/ ScriptStep(t)

Spec == Init /\ [][Next]_vars

-----------------------------------------------------------------------------
(* Properties.                                                              *)

Frame ==
    {Native}
    \cup [kind : {"helper"}, ctx : Contexts \cup {Null}, nested : BOOLEAN,
          propagate : BOOLEAN, last : Outcomes \cup {"none"}]
    \cup [kind : {"exec"}, ctx : Contexts, via : 1..MaxDepth,
          told : Errors \cup {"none", "lost"}]

TypeOK == /\ stack \in [Threads -> Seq(Frame)]
          /\ \A t \in Threads : Depth(t) <= MaxDepth
          /\ state \in [Contexts -> States]
          /\ saved \in [Contexts -> 0..MaxDepth]
          /\ abort \subseteq Contexts
          /\ pool \subseteq Contexts

(* The frames about a context: its users, and those that borrowed it or     *)
(* nested a call in it.                                                     *)
Users(t, c) == { i \in 1..Depth(t) : /\ stack[t][i].kind # "native"
                                     /\ stack[t][i].ctx = c }

Helpers(c, nested) ==
    { f \in Frames : LET frame == stack[f[1]][f[2]]
                     IN  /\ f[2] \in Users(f[1], c)
                         /\ frame.kind = "helper"
                         /\ frame.nested = nested }

(***************************************************************************)
(* A context is lent to one helper at a time and back in the pool when     *)
(* that helper is gone: none is leaked, returned while a call still runs   *)
(* in it, returned twice or used by two threads.  About the destructors of *)
(* request_context and reuse_active_context, whichever way the helper got  *)
(* its context.                                                            *)
(***************************************************************************)
LentOnce ==
    \A c \in Contexts :
       /\ Cardinality(Helpers(c, FALSE)) = IF c \in pool THEN 0 ELSE 1
       /\ \A t, u \in Threads :
             Users(t, c) # {} /\ Users(u, c) # {} => t = u /\ c \notin pool

(***************************************************************************)
(* Every PushState meets its PopState: a context has as many saved states  *)
(* as there are helpers that nest a call in it, whatever ended the calls.  *)
(***************************************************************************)
StatesBalance ==
    \A c \in Contexts : saved[c] = Cardinality(Helpers(c, TRUE))

(***************************************************************************)
(* A script_invoke_result reads the context when it is asked.  Until the   *)
(* helper makes another call, it shows how its own call ended, whatever    *)
(* other helpers were made, used and destroyed in between.                 *)
(***************************************************************************)
ResultsStay ==
    \A t \in Threads, c \in Contexts : \A i \in Users(t, c) :
       stack[t][i].kind = "helper" /\ (\A j \in Users(t, c) : j <= i)
          => state[c] = IF stack[t][i].last = "none" THEN "uninitialized"
                                                     ELSE stack[t][i].last

(***************************************************************************)
(* An error that a nested call reports to the script function around it    *)
(* stops that function, unless it catches it or a later call took the      *)
(* report back: an exception always reaches it, an abort does if the       *)
(* native code makes no other nested call before it returns.  About        *)
(* pop_state_impl, which has to set the error after PopState.              *)
(***************************************************************************)
ErrorsReach == \A t \in Threads : TopIs(t, "exec") => Top(t).told \notin Errors

(***************************************************************************)
(* The exception: a helper propagates the errors of its call, so that a    *)
(* function that was told of an abort does not run on.  pop_state_impl     *)
(* asks for it with Abort, and Prepare in the next script_invoke on the    *)
(* same context forgets the request.                                       *)
(***************************************************************************)
ReportedAbortsReach == \A t \in Threads : TopIs(t, "exec") => Top(t).told # "lost"
=============================================================================
