-------------------------- MODULE ScriptContextsProofs --------------------------
(***************************************************************************)
(* Proofs about ScriptContexts, for any number of threads and contexts and *)
(* any bound on the stacks.                                                *)
(***************************************************************************)
EXTENDS ScriptContexts, SequenceTheorems, FiniteSetTheorems, TLAPS

(***************************************************************************)
(* The shape of one thread's stack s.                                      *)
(***************************************************************************)
IsUser(s, i, c) == i \in 1..Len(s) /\ s[i].kind # "native" /\ s[i].ctx = c

IsExec(s, i) == i \in 1..Len(s) /\ s[i].kind = "exec"

IsHelper(s, i) == i \in 1..Len(s) /\ s[i].kind = "helper"

\* the helper at i has the context from the engine
Borrows(s, i, c) == /\ i \in 1..Len(s) /\ s[i].kind = "helper"
                    /\ s[i].nested = FALSE /\ s[i].ctx = c

\* the helper at i nests a call in the context
Nests(s, i, c) == /\ i \in 1..Len(s) /\ s[i].kind = "helper"
                  /\ s[i].nested = TRUE /\ s[i].ctx = c

NoExec(s, i, j) == \A k \in 1..Len(s) : i < k /\ k < j => s[k].kind # "exec"

NoUser(s, i, j, c) == \A k \in 1..Len(s) : i < k /\ k < j => ~IsUser(s, k, c)

\* native code is called by functions, and runs on top of them
Alternates(s) ==
  \A i \in 1..Len(s) :
     /\ s[i].kind = "exec" /\ i < Len(s) => s[i+1].kind = "native"
     /\ s[i].kind = "native" => i > 1 /\ s[i-1].kind = "exec"

\* below every frame there is a last function, or none
HasInnermost(s) ==
  \A i \in 0..Len(s) : \E e \in 0..i : (e = 0 \/ IsExec(s, e)) /\ NoExec(s, e, i + 1)

\* a function is executed by a helper of the native code below it, the last
\* user of the context
CallsReturn(s) ==
  \A i \in 1..Len(s) : s[i].kind = "exec" =>
     /\ s[i].via \in 1..(i-1)
     /\ s[s[i].via].kind = "helper"
     /\ s[s[i].via].ctx = s[i].ctx
     /\ NoExec(s, s[i].via, i)
     /\ NoUser(s, s[i].via, i, s[i].ctx)

\* a nested helper is in the context of the last function below it
NestsInCaller(s) ==
  \A i \in 1..Len(s) : s[i].kind = "helper" /\ s[i].nested = TRUE =>
     \E e \in 1..(i-1) : /\ IsExec(s, e) /\ s[e].ctx = s[i].ctx
                         /\ NoExec(s, e, i) /\ NoUser(s, e, i, s[i].ctx)

\* whoever uses a context is above the helper that borrowed it
Borrowed(s) ==
  \A i \in 1..Len(s), c \in Contexts :
     IsUser(s, i, c) => \E b \in 1..i : Borrows(s, b, c)

WellFormed(s) == /\ Alternates(s) /\ HasInnermost(s) /\ CallsReturn(s)
                 /\ NestsInCaller(s) /\ Borrowed(s)

ShapeInv == \A t \in Threads : WellFormed(stack[t])

(***************************************************************************)
(* Across the threads.                                                     *)
(***************************************************************************)
Counted == /\ IsFiniteSet(Frames) /\ Cardinality(Frames) <= MaxDepth
           /\ \A t \in Threads : Depth(t) <= MaxDepth

\* a context is in the pool or borrowed once
LendingInv ==
  \A c \in Contexts :
     /\ c \in pool <=> \A t \in Threads, i \in 1..MaxDepth : ~Borrows(stack[t], i, c)
     /\ \A t, u \in Threads, i, j \in 1..MaxDepth :
           Borrows(stack[t], i, c) /\ Borrows(stack[u], j, c) => t = u /\ i = j

IdleInv == \A c \in pool : state[c] = "uninitialized"

\* only a context in which a function executes is told to abort
AbortInv == \A c \in abort :
               /\ state[c] # "suspended"
               /\ \E t \in Threads : \E i \in 1..Depth(t) :
                     IsExec(stack[t], i) /\ stack[t][i].ctx = c

\* the states saved are those of the functions under a nested helper
NestedIn(st, c) == {f \in Threads \X (1..MaxDepth) : Nests(st[f[1]], f[2], c)}

BalanceInv == \A c \in Contexts : saved[c] = Cardinality(NestedIn(stack, c))

\* the last user of a context, a helper, knows the context's state
ResultAt(t, c) ==
  \A i \in 1..Depth(t) :
     IsUser(stack[t], i, c) /\ stack[t][i].kind = "helper"
     /\ (\A j \in 1..Depth(t) : IsUser(stack[t], j, c) => j <= i)
       => state[c] = IF stack[t][i].last = "none" THEN "uninitialized"
                                                  ELSE stack[t][i].last

ResultInv == \A t \in Threads, c \in Contexts : ResultAt(t, c)

\* what a function was told is still set on its context
ToldAt(t, c) ==
  \A i \in 1..Depth(t) : IsExec(stack[t], i) /\ stack[t][i].ctx = c =>
     /\ stack[t][i].told = "exception" =>
          /\ state[c] = "exception"
          /\ \A j \in 1..Depth(t) : i < j => ~IsUser(stack[t], j, c)
     /\ stack[t][i].told = "aborted" =>
          /\ c \in abort
          /\ \A j \in 1..Depth(t) :
                i < j /\ IsUser(stack[t], j, c) => stack[t][j].kind = "helper"

ToldInv == \A t \in Threads, c \in Contexts : ToldAt(t, c)

TypeInv == /\ stack \in [Threads -> Seq(Frame)]
           /\ state \in [Contexts -> States]
           /\ saved \in [Contexts -> Int]
           /\ abort \subseteq Contexts
           /\ pool \subseteq Contexts

Inv == /\ TypeInv /\ Counted /\ ShapeInv /\ LendingInv /\ IdleInv /\ AbortInv
       /\ BalanceInv /\ ResultInv /\ ToldInv /\ ErrorsReach

(***************************************************************************)
(* Frames keep their place and what they are about; only last and told     *)
(* change.                                                                 *)
(***************************************************************************)
Same(f, g) == /\ g.kind = f.kind
              /\ f.kind # "native" => g.ctx = f.ctx
              /\ f.kind = "helper" => g.nested = f.nested
              /\ f.kind = "exec" => g.via = f.via

\* u is s without some frames on top
Shrinks(s, u) == /\ u \in Seq(Frame) /\ Len(u) <= Len(s)
                 /\ \A i \in 1..Len(u) : Same(s[i], u[i])

\* u is s with one more frame
Grows(s, u, f) == /\ u \in Seq(Frame) /\ Len(u) = Len(s) + 1
                  /\ \A i \in 1..Len(s) : Same(s[i], u[i])
                  /\ u[Len(s) + 1] = f

\* A stack that shrinks keeps its shape.
LEMMA ShrinkingKeepsShape ==
  ASSUME NEW s \in Seq(Frame), NEW u, WellFormed(s), Shrinks(s, u)
  PROVE  WellFormed(u)
<1>0. Len(s) \in Nat /\ Len(u) \in Nat /\ Len(u) <= Len(s)
  BY LenProperties DEF Shrinks
<1>a. \A i \in 1..Len(u) : i \in 1..Len(s) /\ Same(s[i], u[i]) BY <1>0 DEF Shrinks
<1>b. \A i \in 1..Len(u) : \A c : IsUser(u, i, c) <=> IsUser(s, i, c)
  BY <1>0, <1>a DEF IsUser, Same
<1>c. \A i \in 1..Len(u) : IsExec(u, i) <=> IsExec(s, i) BY <1>0, <1>a DEF IsExec, Same
<1>d. \A i \in 1..Len(u) : \A c : Borrows(u, i, c) <=> Borrows(s, i, c)
  BY <1>0, <1>a DEF Borrows, Same
<1>e. \A i, j : NoExec(s, i, j) => NoExec(u, i, j) BY <1>a DEF NoExec, Same
<1>f. \A i, j, c : NoUser(s, i, j, c) => NoUser(u, i, j, c) BY <1>a, <1>b DEF NoUser
<1>1. Alternates(u)
  <2> SUFFICES ASSUME NEW i \in 1..Len(u)
               PROVE  /\ u[i].kind = "exec" /\ i < Len(u) => u[i+1].kind = "native"
                      /\ u[i].kind = "native" => i > 1 /\ u[i-1].kind = "exec"
    BY DEF Alternates
  <2>1. i \in 1..Len(s) /\ Same(s[i], u[i]) BY <1>a
  <2>2. CASE i < Len(u)
    <3>1. Same(s[i+1], u[i+1]) BY <1>a, <1>0, <2>2
    <3>2. i > 1 => Same(s[i-1], u[i-1]) BY <1>a, <1>0
    <3> QED BY <2>1, <2>2, <3>1, <3>2, <1>0 DEF WellFormed, Alternates, Same
  <2>3. CASE i = Len(u)
    <3>2. i > 1 => Same(s[i-1], u[i-1]) BY <1>a, <1>0
    <3> QED BY <2>1, <2>3, <3>2, <1>0 DEF WellFormed, Alternates, Same
  <2> QED BY <2>2, <2>3, <1>0
<1>2. HasInnermost(u)
  <2> SUFFICES ASSUME NEW i \in 0..Len(u)
               PROVE  \E e \in 0..i : (e = 0 \/ IsExec(u, e)) /\ NoExec(u, e, i + 1)
    BY DEF HasInnermost
  <2>1. PICK e \in 0..i : (e = 0 \/ IsExec(s, e)) /\ NoExec(s, e, i + 1)
    BY <1>0 DEF WellFormed, HasInnermost
  <2>2. e = 0 \/ IsExec(u, e) BY <2>1, <1>c, <1>0
  <2> QED BY <2>1, <2>2, <1>e
<1>3. CallsReturn(u)
  <2> SUFFICES ASSUME NEW i \in 1..Len(u), u[i].kind = "exec"
               PROVE  /\ u[i].via \in 1..(i-1)
                      /\ u[u[i].via].kind = "helper"
                      /\ u[u[i].via].ctx = u[i].ctx
                      /\ NoExec(u, u[i].via, i)
                      /\ NoUser(u, u[i].via, i, u[i].ctx)
    BY DEF CallsReturn
  <2>1. s[i].kind = "exec" /\ u[i].via = s[i].via /\ u[i].ctx = s[i].ctx /\ i \in 1..Len(s)
    BY <1>a DEF Same
  <2>2. /\ s[i].via \in 1..(i-1) /\ s[s[i].via].kind = "helper"
        /\ s[s[i].via].ctx = s[i].ctx
        /\ NoExec(s, s[i].via, i) /\ NoUser(s, s[i].via, i, s[i].ctx)
    BY <2>1 DEF WellFormed, CallsReturn
  <2>3. Same(s[s[i].via], u[s[i].via]) BY <2>2, <1>a, <1>0
  <2>4. u[s[i].via].kind = "helper" /\ u[s[i].via].ctx = s[i].ctx BY <2>2, <2>3 DEF Same
  <2> QED BY <2>1, <2>2, <2>4, <1>e, <1>f
<1>4. NestsInCaller(u)
  <2> SUFFICES ASSUME NEW i \in 1..Len(u), u[i].kind = "helper" /\ u[i].nested = TRUE
               PROVE  \E e \in 1..(i-1) : /\ IsExec(u, e) /\ u[e].ctx = u[i].ctx
                                          /\ NoExec(u, e, i) /\ NoUser(u, e, i, u[i].ctx)
    BY DEF NestsInCaller
  <2>1. s[i].kind = "helper" /\ s[i].nested = TRUE /\ u[i].ctx = s[i].ctx /\ i \in 1..Len(s)
    BY <1>a DEF Same
  <2>2. PICK e \in 1..(i-1) : /\ IsExec(s, e) /\ s[e].ctx = s[i].ctx
                              /\ NoExec(s, e, i) /\ NoUser(s, e, i, s[i].ctx)
    BY <2>1 DEF WellFormed, NestsInCaller
  <2>3. IsExec(u, e) /\ Same(s[e], u[e]) BY <2>2, <1>a, <1>c, <1>0
  <2>4. u[e].ctx = u[i].ctx BY <2>1, <2>2, <2>3 DEF Same, IsExec
  <2> QED BY <2>1, <2>2, <2>3, <2>4, <1>e, <1>f
<1>5. Borrowed(u)
  <2> SUFFICES ASSUME NEW i \in 1..Len(u), NEW c \in Contexts, IsUser(u, i, c)
               PROVE  \E b \in 1..i : Borrows(u, b, c)
    BY DEF Borrowed
  <2>1. IsUser(s, i, c) /\ i \in 1..Len(s) BY <1>a, <1>b
  <2>2. PICK b \in 1..i : Borrows(s, b, c) BY <2>1 DEF WellFormed, Borrowed
  <2> QED BY <2>2, <1>d, <1>0
<1> QED BY <1>1, <1>2, <1>3, <1>4, <1>5 DEF WellFormed

\* what a frame needs below it
FitsOn(s, f) ==
  LET n == Len(s)
  IN  /\ f.kind = "native" <=> n > 0 /\ s[n].kind = "exec"
      /\ f.kind = "exec" => /\ f.via \in 1..n
                            /\ s[f.via].kind = "helper" /\ s[f.via].ctx = f.ctx
                            /\ NoExec(s, f.via, n + 1) /\ NoUser(s, f.via, n + 1, f.ctx)
      /\ f.kind = "helper" /\ f.nested = TRUE =>
            \E e \in 1..n : /\ IsExec(s, e) /\ s[e].ctx = f.ctx
                            /\ NoExec(s, e, n + 1) /\ NoUser(s, e, n + 1, f.ctx)

\* A stack on which a frame is put that fits keeps its shape.
LEMMA GrowingKeepsShape ==
  ASSUME NEW s \in Seq(Frame), NEW u, NEW f \in Frame,
         WellFormed(s), Grows(s, u, f), FitsOn(s, f)
  PROVE  WellFormed(u)
<1> DEFINE n == Len(s)
<1>0. n \in Nat /\ Len(u) = n + 1 /\ u[n + 1] = f /\ n + 1 \in 1..Len(u)
  BY LenProperties DEF Grows
<1>a. \A i \in 1..n : i \in 1..Len(u) /\ Same(s[i], u[i]) BY <1>0 DEF Grows
<1>b. \A i \in 1..n : \A c : IsUser(u, i, c) <=> IsUser(s, i, c)
  BY <1>0, <1>a DEF IsUser, Same
<1>c. \A i \in 1..n : IsExec(u, i) <=> IsExec(s, i) BY <1>0, <1>a DEF IsExec, Same
<1>d. \A i \in 1..n : \A c : Borrows(u, i, c) <=> Borrows(s, i, c)
  BY <1>0, <1>a DEF Borrows, Same
<1>e. \A i \in Int, j \in Int : j <= n + 1 /\ NoExec(s, i, j) => NoExec(u, i, j)
  BY <1>0, <1>a DEF NoExec, Same
<1>f. \A i \in Int, j \in Int : \A c : j <= n + 1 /\ NoUser(s, i, j, c) => NoUser(u, i, j, c)
  BY <1>0, <1>a, <1>b DEF NoUser
<1>g. f.kind \in {"native", "helper", "exec"} BY DEF Frame, Native
<1>h. \A i \in 1..Len(u) : i \in 1..n \/ i = n + 1 BY <1>0
<1>1. Alternates(u)
  <2> SUFFICES ASSUME NEW i \in 1..Len(u)
               PROVE  /\ u[i].kind = "exec" /\ i < Len(u) => u[i+1].kind = "native"
                      /\ u[i].kind = "native" => i > 1 /\ u[i-1].kind = "exec"
    BY DEF Alternates
  <2>1. CASE i < n
    <3>1. i \in 1..n /\ i + 1 \in 1..n /\ (i > 1 => i - 1 \in 1..n) BY <2>1, <1>0
    <3>2. Same(s[i], u[i]) /\ Same(s[i+1], u[i+1]) /\ (i > 1 => Same(s[i-1], u[i-1]))
      BY <3>1, <1>a
    <3> QED BY <2>1, <3>1, <3>2, <1>0 DEF WellFormed, Alternates, Same
  <2>2. CASE i = n
    <3>1. i \in 1..n /\ (i > 1 => i - 1 \in 1..n) BY <2>2, <1>0
    <3>2. Same(s[i], u[i]) /\ (i > 1 => Same(s[i-1], u[i-1])) BY <3>1, <1>a
    <3>3. u[i].kind = "native" => i > 1 /\ u[i-1].kind = "exec"
      BY <3>1, <3>2, <1>0 DEF WellFormed, Alternates, Same
    <3>4. u[i].kind = "exec" => u[i+1].kind = "native"
      BY <2>2, <3>1, <3>2, <1>0 DEF FitsOn, Same
    <3> QED BY <3>3, <3>4
  <2>3. CASE i = n + 1
    <3>1. f.kind = "native" => n \in 1..n /\ s[n].kind = "exec" BY <1>0 DEF FitsOn
    <3>2. f.kind = "native" => u[n].kind = "exec" BY <3>1, <1>a DEF Same
    <3> QED BY <2>3, <3>1, <3>2, <1>0
  <2> QED BY <2>1, <2>2, <2>3, <1>0
<1>2. HasInnermost(u)
  <2> SUFFICES ASSUME NEW i \in 0..Len(u)
               PROVE  \E e \in 0..i : (e = 0 \/ IsExec(u, e)) /\ NoExec(u, e, i + 1)
    BY DEF HasInnermost
  <2>1. CASE i <= n
    <3>1. PICK e \in 0..i : (e = 0 \/ IsExec(s, e)) /\ NoExec(s, e, i + 1)
      BY <1>0, <2>1 DEF WellFormed, HasInnermost
    <3>2. e = 0 \/ IsExec(u, e) BY <2>1, <3>1, <1>c, <1>0
    <3>3. NoExec(u, e, i + 1) BY <2>1, <3>1, <1>e, <1>0
    <3> QED BY <3>2, <3>3
  <2>2. CASE i = n + 1 /\ f.kind = "exec"
    <3>1. IsExec(u, i) BY <2>2, <1>0 DEF IsExec
    <3>2. NoExec(u, i, i + 1) BY <1>0, <2>2 DEF NoExec
    <3> QED BY <3>1, <3>2, <2>2, <1>0
  <2>3. CASE i = n + 1 /\ f.kind # "exec"
    <3>1. PICK e \in 0..n : (e = 0 \/ IsExec(s, e)) /\ NoExec(s, e, n + 1)
      BY <1>0 DEF WellFormed, HasInnermost
    <3>2. e = 0 \/ IsExec(u, e) BY <3>1, <1>c, <1>0
    <3>3. NoExec(u, e, n + 1) BY <3>1, <1>e, <1>0
    <3>4. NoExec(u, e, i + 1) BY <2>3, <3>3, <1>0 DEF NoExec
    <3> QED BY <3>2, <3>4, <2>3, <1>0
  <2> QED BY <2>1, <2>2, <2>3, <1>0
<1>3. CallsReturn(u)
  <2> SUFFICES ASSUME NEW i \in 1..Len(u), u[i].kind = "exec"
               PROVE  /\ u[i].via \in 1..(i-1)
                      /\ u[u[i].via].kind = "helper"
                      /\ u[u[i].via].ctx = u[i].ctx
                      /\ NoExec(u, u[i].via, i)
                      /\ NoUser(u, u[i].via, i, u[i].ctx)
    BY DEF CallsReturn
  <2> DEFINE v == u[i].via
             c == u[i].ctx
  <2>1. /\ v \in 1..(i-1) /\ v \in 1..n /\ s[v].kind = "helper" /\ s[v].ctx = c
        /\ NoExec(s, v, i) /\ NoUser(s, v, i, c)
    <3>1. CASE i \in 1..n
      <4>1. s[i].kind = "exec" /\ v = s[i].via /\ c = s[i].ctx
        BY <3>1, <1>a DEF Same
      <4> QED BY <3>1, <4>1, <1>0 DEF WellFormed, CallsReturn
    <3>2. CASE i = n + 1 BY <3>2, <1>0 DEF FitsOn
    <3> QED BY <3>1, <3>2, <1>h
  <2>2. u[v].kind = "helper" /\ u[v].ctx = c BY <2>1, <1>a DEF Same
  <2>3. NoExec(u, v, i) /\ NoUser(u, v, i, c) BY <2>1, <1>e, <1>f, <1>0
  <2> QED BY <2>1, <2>2, <2>3
<1>4. NestsInCaller(u)
  <2> SUFFICES ASSUME NEW i \in 1..Len(u), u[i].kind = "helper" /\ u[i].nested = TRUE
               PROVE  \E e \in 1..(i-1) : /\ IsExec(u, e) /\ u[e].ctx = u[i].ctx
                                          /\ NoExec(u, e, i) /\ NoUser(u, e, i, u[i].ctx)
    BY DEF NestsInCaller
  <2> DEFINE c == u[i].ctx
  <2>1. \E e \in 1..(i-1) : /\ e \in 1..n /\ IsExec(s, e) /\ s[e].ctx = c
                            /\ NoExec(s, e, i) /\ NoUser(s, e, i, c)
    <3>1. CASE i \in 1..n
      <4>1. s[i].kind = "helper" /\ s[i].nested = TRUE /\ c = s[i].ctx
        BY <3>1, <1>a DEF Same
      <4> QED BY <3>1, <4>1, <1>0 DEF WellFormed, NestsInCaller
    <3>2. CASE i = n + 1 BY <3>2, <1>0 DEF FitsOn
    <3> QED BY <3>1, <3>2, <1>h
  <2>2. PICK e \in 1..(i-1) : /\ e \in 1..n /\ IsExec(s, e) /\ s[e].ctx = c
                              /\ NoExec(s, e, i) /\ NoUser(s, e, i, c)
    BY <2>1
  <2>3. IsExec(u, e) BY <2>2, <1>c
  <2>4. u[e].ctx = c BY <2>2, <1>a DEF Same, IsExec
  <2>5. NoExec(u, e, i) /\ NoUser(u, e, i, c) BY <2>2, <1>e, <1>f, <1>0
  <2> QED BY <2>3, <2>4, <2>5
<1>5. Borrowed(u)
  <2> SUFFICES ASSUME NEW i \in 1..Len(u), NEW c \in Contexts, IsUser(u, i, c)
               PROVE  \E b \in 1..i : Borrows(u, b, c)
    BY DEF Borrowed
  <2>0. \A k \in 1..n : IsUser(s, k, c) => \E b \in 1..k : Borrows(u, b, c)
    <3> SUFFICES ASSUME NEW k \in 1..n, IsUser(s, k, c)
                 PROVE  \E b \in 1..k : Borrows(u, b, c)
      OBVIOUS
    <3>1. PICK b \in 1..k : Borrows(s, b, c) BY DEF WellFormed, Borrowed
    <3> QED BY <3>1, <1>d, <1>0
  <2>1. CASE i \in 1..n BY <2>1, <2>0, <1>b
  <2>2. CASE i = n + 1 /\ Borrows(u, i, c) BY <2>2
  <2>3. CASE i = n + 1 /\ ~Borrows(u, i, c)
    <3>1. \E k \in 1..n : IsUser(s, k, c)
      <4>1. f.kind # "native" /\ f.ctx = c BY <2>3, <1>0 DEF IsUser
      <4>2. f.kind = "exec" \/ (f.kind = "helper" /\ f.nested = TRUE)
        BY <4>1, <2>3, <1>0, <1>g DEF Borrows
      <4>3. CASE f.kind = "exec" BY <4>1, <4>3, <1>0 DEF FitsOn, IsUser
      <4>4. CASE f.kind = "helper" /\ f.nested = TRUE BY <4>1, <4>4, <1>0 DEF FitsOn, IsUser, IsExec
      <4> QED BY <4>2, <4>3, <4>4
    <3>2. PICK k \in 1..n : \E b \in 1..k : Borrows(u, b, c) BY <3>1, <2>0
    <3> QED BY <3>2, <2>3, <1>0
  <2> QED BY <2>1, <2>2, <2>3, <1>h
<1> QED BY <1>1, <1>2, <1>3, <1>4, <1>5 DEF WellFormed

(***************************************************************************)
(* What the sequence operators do to a stack.                              *)
(***************************************************************************)

\* A stack without its last frames.
LEMMA CutFrames ==
  ASSUME NEW s \in Seq(Frame), NEW k \in 0..Len(s)
  PROVE  /\ SubSeq(s, 1, k) \in Seq(Frame)
         /\ Len(SubSeq(s, 1, k)) = k
         /\ \A i \in 1..k : SubSeq(s, 1, k)[i] = s[i]
<1>1. Len(s) \in Nat /\ \A i \in 1..Len(s) : s[i] \in Frame BY LenProperties, ElementOfSeq
<1>2. \A i \in 1..k : s[i] \in Frame BY <1>1
<1> QED BY <1>1, <1>2, SubSeqProperties

WithTold(s, e, x) == [s EXCEPT ![e].told = x]

WithLast(s, v, x) == [s EXCEPT ![v].last = x]

\* A stack on which another error was reported to the function at e.
LEMMA TellFrame ==
  ASSUME NEW s \in Seq(Frame), NEW e, IsExec(s, e),
         NEW x \in Errors \cup {"none", "lost"},
         NEW u, u = WithTold(s, e, x)
  PROVE  /\ u \in Seq(Frame) /\ Len(u) = Len(s)
         /\ \A i \in 1..Len(s) : Same(s[i], u[i]) /\ (i # e => u[i] = s[i])
         /\ u[e].told = x
<1> DEFINE g == [s[e] EXCEPT !.told = x]
<1>1. e \in 1..Len(s) /\ s[e] \in Frame BY ElementOfSeq DEF IsExec
<1>2. g \in Frame /\ Same(s[e], g) /\ g.told = x
  BY <1>1 DEF IsExec, Frame, Native, Same
<1>3. u = [s EXCEPT ![e] = g] BY DEF WithTold
<1> HIDE DEF g
<1>4. /\ [s EXCEPT ![e] = g] \in Seq(Frame)
      /\ Len([s EXCEPT ![e] = g]) = Len(s)
      /\ \A i \in 1..Len(s) : [s EXCEPT ![e] = g][i] = IF i = e THEN g ELSE s[i]
  BY <1>1, <1>2, ExceptSeq
<1>5. \A i \in 1..Len(s) : Same(s[i], s[i]) BY DEF Same
<1> QED BY <1>1, <1>2, <1>3, <1>4, <1>5

\* A stack in which the call of the helper at v has ended.
LEMMA EndFrame ==
  ASSUME NEW s \in Seq(Frame), NEW v, IsHelper(s, v),
         NEW x \in Outcomes,
         NEW u, u = WithLast(s, v, x)
  PROVE  /\ u \in Seq(Frame) /\ Len(u) = Len(s)
         /\ \A i \in 1..Len(s) : Same(s[i], u[i]) /\ (i # v => u[i] = s[i])
         /\ u[v].last = x
<1> DEFINE g == [s[v] EXCEPT !.last = x]
<1>1. v \in 1..Len(s) /\ s[v] \in Frame BY ElementOfSeq DEF IsHelper
<1>2. g \in Frame /\ Same(s[v], g) /\ g.last = x
  BY <1>1 DEF IsHelper, Frame, Native, Same
<1>3. u = [s EXCEPT ![v] = g] BY DEF WithLast
<1> HIDE DEF g
<1>4. /\ [s EXCEPT ![v] = g] \in Seq(Frame)
      /\ Len([s EXCEPT ![v] = g]) = Len(s)
      /\ \A i \in 1..Len(s) : [s EXCEPT ![v] = g][i] = IF i = v THEN g ELSE s[i]
  BY <1>1, <1>2, ExceptSeq
<1>5. \A i \in 1..Len(s) : Same(s[i], s[i]) BY DEF Same
<1> QED BY <1>1, <1>2, <1>3, <1>4, <1>5

\* Innermost is the last function on the stack.
LEMMA InnermostIsLast ==
  ASSUME TypeInv, ShapeInv, NEW t \in Threads, Execs(t) # {}
  PROVE  /\ IsExec(stack[t], Innermost(t)) /\ Innermost(t) \in Execs(t)
         /\ NoExec(stack[t], Innermost(t), Depth(t) + 1)
         /\ \A e : IsExec(stack[t], e) /\ NoExec(stack[t], e, Depth(t) + 1) => e = Innermost(t)
<1> DEFINE s == stack[t]
<1>0. s \in Seq(Frame) /\ Len(s) \in Nat BY LenProperties DEF TypeInv
<1>1. PICK e \in 0..Len(s) : (e = 0 \/ IsExec(s, e)) /\ NoExec(s, e, Len(s) + 1)
  BY <1>0 DEF ShapeInv, WellFormed, HasInnermost
<1>2. \A i : i \in Execs(t) <=> IsExec(s, i) BY DEF Execs, IsExec, Depth
<1>3. e # 0 BY <1>1, <1>2, <1>0 DEF NoExec, IsExec
<1>4. e \in Execs(t) /\ \A j \in Execs(t) : j <= e
  BY <1>0, <1>1, <1>2, <1>3 DEF NoExec, IsExec
<1>5. Innermost(t) \in Execs(t) /\ \A j \in Execs(t) : j <= Innermost(t)
  BY <1>4 DEF Innermost
<1>6. NoExec(s, Innermost(t), Len(s) + 1) BY <1>0, <1>2, <1>5 DEF NoExec, IsExec
<1>7. ASSUME NEW d, IsExec(s, d), NoExec(s, d, Len(s) + 1) PROVE d = Innermost(t)
  BY <1>0, <1>2, <1>5, <1>7 DEF NoExec, IsExec
<1> QED BY <1>2, <1>5, <1>6, <1>7 DEF Depth

(***************************************************************************)
(* Steps.  One thread changes its stack; what it does is about one context.*)
(***************************************************************************)
OnlyOf(t) == /\ stack' \in [Threads -> Seq(Frame)]
             /\ \A r \in Threads \ {t} : stack'[r] = stack[r]

Pushes(t, f) == /\ OnlyOf(t) /\ HasRoom /\ f \in Frame
                /\ Grows(stack[t], stack'[t], f) /\ FitsOn(stack[t], f)

Cuts(t, k) == /\ OnlyOf(t) /\ k \in 0..2
              /\ Shrinks(stack[t], stack'[t])
              /\ Len(stack'[t]) = Len(stack[t]) - k

\* nothing changes for another context
FocusOn(t, c) ==
  /\ OnlyOf(t)
  /\ c \in Contexts \cup {Null}
  /\ c \in Contexts =>
        \A r \in Threads \ {t} : \A i \in 1..Depth(r) : ~IsUser(stack[r], i, c)
  /\ \A d \in Contexts \ {c} : state'[d] = state[d] /\ (d \in abort' <=> d \in abort)
  /\ \A d \in Contexts \ {c} : \A i \in 1..MaxDepth :
        /\ IsUser(stack'[t], i, d) <=> IsUser(stack[t], i, d)
        /\ IsUser(stack[t], i, d) => stack'[t][i] = stack[t][i]

\* Stacks are sequences of frames.
LEMMA StacksAreSequences ==
  ASSUME TypeInv, NEW t \in Threads
  PROVE  /\ stack[t] \in Seq(Frame) /\ Depth(t) \in Nat /\ Depth(t) = Len(stack[t])
         /\ \A i \in 1..Depth(t) : stack[t][i] \in Frame
<1>1. stack[t] \in Seq(Frame) BY DEF TypeInv
<1> QED BY <1>1, LenProperties, ElementOfSeq DEF Depth

\* A thread's stack is bounded by the frames of all.
LEMMA OneStackHasRoom ==
  ASSUME TypeInv, Counted, HasRoom, NEW t \in Threads
  PROVE  Depth(t) < MaxDepth
<1> DEFINE own == {t} \X (1..Depth(t))
<1>1. Depth(t) \in Nat /\ Depth(t) <= MaxDepth /\ MaxDepth \in Nat
  BY StacksAreSequences, DepthAssumption DEF Counted
<1>2. own \in SUBSET Frames BY <1>1 DEF Frames
<1>3. Cardinality(own) <= Cardinality(Frames) BY <1>2, FS_Subset DEF Counted
<1>4. Cardinality(own) = Depth(t)
  <2>1. IsFiniteSet({t}) /\ Cardinality({t}) = 1 BY FS_Singleton
  <2>2. IsFiniteSet(1..Depth(t)) /\ Cardinality(1..Depth(t)) = Depth(t)
    BY <1>1, FS_Interval
  <2>3. Cardinality(own) = Cardinality({t}) * Cardinality(1..Depth(t))
    BY <2>1, <2>2, FS_Product
  <2> QED BY <1>1, <2>1, <2>2, <2>3
<1>5. Cardinality(Frames) \in Nat BY FS_CardinalityType DEF Counted
<1> QED BY <1>1, <1>3, <1>4, <1>5 DEF HasRoom

\* One frame more is counted as one more.
LEMMA PushingIsCounted ==
  ASSUME TypeInv, Counted, NEW t \in Threads, NEW f, Pushes(t, f)
  PROVE  /\ Counted' /\ Frames' = Frames \cup {<<t, Depth(t) + 1>>}
         /\ Depth(t) + 1 \in 1..MaxDepth
<1>1. Depth(t) \in Nat /\ Depth(t) < MaxDepth /\ MaxDepth \in Nat
  BY StacksAreSequences, OneStackHasRoom, DepthAssumption DEF Pushes
<1>2. Depth(t)' = Depth(t) + 1 /\ \A r \in Threads \ {t} : Depth(r)' = Depth(r)
  BY DEF Pushes, Grows, OnlyOf, Depth
<1>3. Frames' = Frames \cup {<<t, Depth(t) + 1>>} BY <1>1, <1>2 DEF Frames
<1>4. Cardinality(Frames) \in Nat /\ Cardinality(Frames) < MaxDepth
  BY FS_CardinalityType DEF Counted, Pushes, HasRoom
<1> DEFINE old == Frames
           new == <<t, Depth(t) + 1>>
<1>5. IsFiniteSet(old \cup {new}) /\ Cardinality(old \cup {new}) \in 0..MaxDepth
  <2>1. IsFiniteSet(old) BY DEF Counted
  <2>2. Cardinality(old) \in Nat /\ Cardinality(old) < MaxDepth BY <1>4
  <2> HIDE DEF old, new
  <2>3. /\ IsFiniteSet(old \cup {new})
        /\ Cardinality(old \cup {new}) = IF new \in old THEN Cardinality(old)
                                                      ELSE Cardinality(old) + 1
    BY <2>1, FS_AddElement
  <2> QED BY <2>2, <2>3, DepthAssumption
<1>6. IsFiniteSet(Frames') /\ Cardinality(Frames') <= MaxDepth
  <2>1. Frames' = old \cup {new} BY <1>3
  <2> HIDE DEF old, new
  <2>2. IsFiniteSet(Frames') /\ Cardinality(Frames') \in 0..MaxDepth
    BY <1>5, <2>1, Zenon
  <2> QED BY <2>2, DepthAssumption
<1>7. \A r \in Threads : Depth(r)' <= MaxDepth BY <1>1, <1>2 DEF Counted
<1> QED BY <1>1, <1>3, <1>6, <1>7 DEF Counted

\* A cut leaves no more frames.
LEMMA CuttingIsCounted ==
  ASSUME TypeInv, Counted, NEW t \in Threads, NEW k, Cuts(t, k)
  PROVE  Counted' /\ Frames' \subseteq Frames
<1>1. Depth(t) \in Nat /\ \A r \in Threads : Depth(r) <= MaxDepth
  BY StacksAreSequences DEF Counted
<1>2. Depth(t)' <= Depth(t) /\ \A r \in Threads \ {t} : Depth(r)' = Depth(r)
  BY <1>1 DEF Cuts, OnlyOf, Depth, Shrinks
<1>3. Depth(t)' \in Nat /\ MaxDepth \in Nat
  BY LenProperties, DepthAssumption DEF Cuts, OnlyOf, Depth
<1>4. Frames' \in SUBSET Frames BY <1>1, <1>2, <1>3 DEF Frames
<1>5. IsFiniteSet(Frames') /\ Cardinality(Frames') <= Cardinality(Frames)
  BY <1>4, FS_Subset DEF Counted
<1>6. Cardinality(Frames) \in Nat /\ Cardinality(Frames') \in Nat
  BY <1>5, FS_CardinalityType DEF Counted
<1>7. \A r \in Threads : Depth(r)' <= MaxDepth BY <1>1, <1>2, <1>3 DEF Counted
<1> QED BY <1>3, <1>4, <1>5, <1>6, <1>7 DEF Counted

\* Stacks keep their shape.
LEMMA StepsKeepShape ==
  ASSUME TypeInv, ShapeInv, NEW t \in Threads,
         \/ \E f : Pushes(t, f)
         \/ \E k : Cuts(t, k)
  PROVE  ShapeInv'
<1> SUFFICES ASSUME NEW r \in Threads PROVE WellFormed(stack'[r]) BY DEF ShapeInv
<1>1. stack[r] \in Seq(Frame) /\ WellFormed(stack[r]) BY DEF TypeInv, ShapeInv
<1>2. CASE r # t
  <2>1. stack'[r] = stack[r] BY <1>2 DEF Pushes, Cuts, OnlyOf
  <2> QED BY <1>1, <2>1
<1>3. CASE r = t /\ \E f : Pushes(t, f)
  BY <1>1, <1>3, GrowingKeepsShape DEF Pushes
<1>4. CASE r = t /\ \E k : Cuts(t, k)
  BY <1>1, <1>4, ShrinkingKeepsShape DEF Cuts
<1> QED BY <1>2, <1>3, <1>4

\* Two threads never use one context, and nobody uses one of the pool.
LEMMA UsersAreOnOneThread ==
  ASSUME TypeInv, Counted, ShapeInv, LendingInv, NEW c \in Contexts
  PROVE  /\ \A t, r \in Threads : \A i, j :
              IsUser(stack[t], i, c) /\ IsUser(stack[r], j, c) => t = r /\ c \notin pool
         /\ \A t \in Threads : \A i, b :
              IsUser(stack[t], i, c) /\ Borrows(stack[t], b, c) => b <= i
<1>0. \A t \in Threads : \A i : IsUser(stack[t], i, c) =>
         i \in Nat /\ \E b \in 1..i : b \in 1..MaxDepth /\ Borrows(stack[t], b, c)
  <2> SUFFICES ASSUME NEW t \in Threads, NEW i, IsUser(stack[t], i, c)
               PROVE  i \in Nat /\ \E b \in 1..i : b \in 1..MaxDepth /\ Borrows(stack[t], b, c)
    OBVIOUS
  <2>1. i \in 1..Depth(t) /\ Depth(t) \in Nat /\ Depth(t) <= MaxDepth
    BY StacksAreSequences DEF IsUser, Counted
  <2>2. PICK b \in 1..i : Borrows(stack[t], b, c)
    BY <2>1, StacksAreSequences DEF ShapeInv, WellFormed, Borrowed
  <2> QED BY <2>1, <2>2, DepthAssumption
<1>1. \A t \in Threads : \A b : Borrows(stack[t], b, c) => b \in 1..MaxDepth
  <2> SUFFICES ASSUME NEW t \in Threads, NEW b, Borrows(stack[t], b, c)
               PROVE  b \in 1..MaxDepth
    OBVIOUS
  <2>1. b \in 1..Depth(t) /\ Depth(t) \in Nat /\ Depth(t) <= MaxDepth
    BY StacksAreSequences DEF Borrows, Counted
  <2> QED BY <2>1, DepthAssumption
<1>2. ASSUME NEW t \in Threads, NEW i, IsUser(stack[t], i, c),
             NEW r \in Threads, NEW j, IsUser(stack[r], j, c)
      PROVE  t = r /\ c \notin pool
  <2>1. PICK b \in 1..MaxDepth : Borrows(stack[t], b, c) BY <1>0, <1>2
  <2>2. PICK d \in 1..MaxDepth : Borrows(stack[r], d, c) BY <1>0, <1>2
  <2> QED BY <2>1, <2>2 DEF LendingInv
<1>3. ASSUME NEW t \in Threads, NEW i, IsUser(stack[t], i, c),
             NEW b, Borrows(stack[t], b, c)
      PROVE  b <= i
  <2>1. PICK d \in 1..i : d \in 1..MaxDepth /\ Borrows(stack[t], d, c) BY <1>0, <1>3
  <2>2. d = b BY <2>1, <1>1, <1>3 DEF LendingInv
  <2> QED BY <2>1, <2>2, <1>0, <1>3
<1> QED BY <1>2, <1>3

\* Who uses a context is on one thread.
LEMMA OthersDoNotUse ==
  ASSUME TypeInv, Counted, ShapeInv, LendingInv, NEW c \in Contexts, NEW t \in Threads,
         \E i : IsUser(stack[t], i, c)
  PROVE  \A r \in Threads \ {t} : \A k : ~IsUser(stack[r], k, c)
<1>1. PICK i : IsUser(stack[t], i, c) OBVIOUS
<1>2. ASSUME NEW r \in Threads \ {t}, NEW k, IsUser(stack[r], k, c) PROVE FALSE
  BY <1>1, <1>2, UsersAreOnOneThread
<1> QED BY <1>2

(***************************************************************************)
(* What a step that is about one context leaves alone.                     *)
(***************************************************************************)

\* Other threads and other contexts are as before.
LEMMA FocusKeepsOthers ==
  ASSUME Inv, Counted', NEW t \in Threads, NEW c, FocusOn(t, c)
  PROVE  /\ (c \in Contexts => ResultAt(t, c)') => ResultInv'
         /\ (c \in Contexts => ToldAt(t, c)') => ToldInv'
         /\ (c \in Contexts \cap abort' =>
               /\ state'[c] # "suspended"
               /\ \E i \in 1..Depth(t)' : IsExec(stack'[t], i) /\ stack'[t][i].ctx = c)
            /\ abort' \subseteq Contexts => AbortInv'
         /\ (c \in pool' => state'[c] = "uninitialized")
            /\ (\A d \in pool' \ {c} : d \in pool) => IdleInv'
<1>0. /\ Depth(t) \in Nat /\ Depth(t) <= MaxDepth /\ MaxDepth \in Nat
      /\ Depth(t)' \in Nat /\ Depth(t)' <= MaxDepth
  <2>1. stack'[t] \in Seq(Frame) BY DEF FocusOn, OnlyOf
  <2> QED BY <2>1, StacksAreSequences, LenProperties, DepthAssumption DEF Inv, Counted, Depth
<1>1. \A r \in Threads \ {t} : stack'[r] = stack[r] /\ Depth(r)' = Depth(r)
  BY DEF FocusOn, OnlyOf, Depth
<1>2. c \in Contexts => \A r \in Threads \ {t} : \A i \in 1..Depth(r) : ~IsUser(stack[r], i, c) BY DEF FocusOn
<1>3. \A d \in Contexts \ {c} : state'[d] = state[d] /\ (d \in abort' <=> d \in abort)
  BY DEF FocusOn
<1>4. \A d \in Contexts \ {c}, i \in 1..MaxDepth :
        /\ IsUser(stack'[t], i, d) <=> IsUser(stack[t], i, d)
        /\ IsUser(stack[t], i, d) => stack'[t][i] = stack[t][i]
  BY DEF FocusOn
<1>5. \A d, i : IsUser(stack[t], i, d) => i \in 1..Depth(t) /\ i \in 1..MaxDepth
  BY <1>0 DEF IsUser, Depth
<1>6. \A d, i : IsUser(stack'[t], i, d) => i \in 1..Depth(t)' /\ i \in 1..MaxDepth
  BY <1>0 DEF IsUser, Depth
<1>a. ASSUME c \in Contexts => ResultAt(t, c)' PROVE ResultInv'
  <2> SUFFICES ASSUME NEW r \in Threads, NEW d \in Contexts PROVE ResultAt(r, d)'
    BY DEF ResultInv
  <2>0. ResultAt(r, d) BY DEF Inv, ResultInv
  <2>1. CASE r # t /\ d = c BY <2>1, <1>1, <1>2 DEF ResultAt
  <2>2. CASE r # t /\ d # c
    <3>1. stack'[r] = stack[r] /\ Depth(r)' = Depth(r) /\ state'[d] = state[d]
      BY <2>2, <1>1, <1>3
    <3> QED BY <2>0, <3>1 DEF ResultAt
  <2>3. CASE r = t /\ d = c BY <2>3, <1>a
  <2>4. CASE r = t /\ d # c
    <3> SUFFICES ASSUME NEW i \in 1..Depth(t)', IsUser(stack'[t], i, d),
                        stack'[t][i].kind = "helper",
                        \A j \in 1..Depth(t)' : IsUser(stack'[t], j, d) => j <= i
                 PROVE  state'[d] = IF stack'[t][i].last = "none" THEN "uninitialized"
                                                                ELSE stack'[t][i].last
      BY <2>4 DEF ResultAt
    <3>1. /\ i \in 1..Depth(t) /\ IsUser(stack[t], i, d) /\ stack'[t][i] = stack[t][i]
          /\ state'[d] = state[d]
      BY <2>4, <1>3, <1>4, <1>5, <1>6
    <3>2. \A j \in 1..Depth(t) : IsUser(stack[t], j, d) => j <= i
      BY <2>4, <1>4, <1>5, <1>6
    <3> QED BY <2>0, <2>4, <3>1, <3>2 DEF ResultAt
  <2> QED BY <2>1, <2>2, <2>3, <2>4
<1>b. ASSUME c \in Contexts => ToldAt(t, c)' PROVE ToldInv'
  <2> SUFFICES ASSUME NEW r \in Threads, NEW d \in Contexts PROVE ToldAt(r, d)'
    BY DEF ToldInv
  <2>0. ToldAt(r, d) BY DEF Inv, ToldInv
  <2>1. CASE r # t /\ d = c
    <3>1. stack'[r] = stack[r] /\ Depth(r)' = Depth(r) BY <2>1, <1>1
    <3>2. \A i \in 1..Depth(r) : ~(IsExec(stack[r], i) /\ stack[r][i].ctx = c)
      BY <2>1, <1>2 DEF IsExec, IsUser
    <3> QED BY <2>1, <3>1, <3>2 DEF ToldAt
  <2>2. CASE r # t /\ d # c
    <3>1. /\ stack'[r] = stack[r] /\ Depth(r)' = Depth(r) /\ state'[d] = state[d]
          /\ (d \in abort' <=> d \in abort)
      BY <2>2, <1>1, <1>3
    <3> QED BY <2>0, <3>1 DEF ToldAt
  <2>3. CASE r = t /\ d = c BY <2>3, <1>b
  <2>4. CASE r = t /\ d # c
    <3> SUFFICES ASSUME NEW i \in 1..Depth(t)', IsExec(stack'[t], i), stack'[t][i].ctx = d
                 PROVE  /\ stack'[t][i].told = "exception" =>
                            /\ state'[d] = "exception"
                            /\ \A j \in 1..Depth(t)' : i < j => ~IsUser(stack'[t], j, d)
                        /\ stack'[t][i].told = "aborted" =>
                            /\ d \in abort'
                            /\ \A j \in 1..Depth(t)' :
                                 i < j /\ IsUser(stack'[t], j, d)
                                   => stack'[t][j].kind = "helper"
      BY <2>4 DEF ToldAt
    <3>0. IsUser(stack'[t], i, d) BY DEF IsUser, IsExec
    <3>1. /\ i \in 1..Depth(t) /\ IsUser(stack[t], i, d) /\ stack'[t][i] = stack[t][i]
          /\ state'[d] = state[d] /\ (d \in abort' <=> d \in abort)
      BY <2>4, <3>0, <1>3, <1>4, <1>5, <1>6
    <3>2. \A j \in 1..Depth(t)' : IsUser(stack'[t], j, d) =>
             j \in 1..Depth(t) /\ IsUser(stack[t], j, d) /\ stack'[t][j] = stack[t][j]
      BY <2>4, <1>4, <1>5, <1>6
    <3>3. IsExec(stack[t], i) /\ stack[t][i].ctx = d BY <3>1 DEF IsExec, IsUser
    <3> QED BY <2>0, <2>4, <3>1, <3>2, <3>3 DEF ToldAt
  <2> QED BY <2>1, <2>2, <2>3, <2>4
<1>c. ASSUME c \in Contexts \cap abort' =>
               /\ state'[c] # "suspended"
               /\ \E i \in 1..Depth(t)' : IsExec(stack'[t], i) /\ stack'[t][i].ctx = c,
             abort' \subseteq Contexts
      PROVE  AbortInv'
  <2> SUFFICES ASSUME NEW d \in abort'
               PROVE  /\ state'[d] # "suspended"
                      /\ \E r \in Threads : \E i \in 1..Depth(r)' :
                            IsExec(stack'[r], i) /\ stack'[r][i].ctx = d
    BY DEF AbortInv
  <2>1. CASE d = c BY <2>1, <1>c
  <2>2. CASE d # c
    <3>1. d \in abort /\ d \in Contexts /\ state'[d] # "suspended"
      BY <2>2, <1>c, <1>3 DEF Inv, AbortInv
    <3>a. PICK r \in Threads : \E i \in 1..Depth(r) :
                 IsExec(stack[r], i) /\ stack[r][i].ctx = d
      BY <3>1 DEF Inv, AbortInv
    <3>2. PICK i \in 1..Depth(r) : IsExec(stack[r], i) /\ stack[r][i].ctx = d
      BY <3>a
    <3>3. CASE r # t BY <3>1, <3>2, <3>3, <1>1
    <3>4. CASE r = t
      <4>1. IsUser(stack[t], i, d) BY <3>2, <3>4 DEF IsUser, IsExec
      <4>2. IsUser(stack'[t], i, d) /\ stack'[t][i] = stack[t][i] /\ i \in 1..Depth(t)'
        BY <4>1, <3>1, <2>2, <1>4, <1>5, <1>6
      <4>3. IsExec(stack'[t], i) /\ stack'[t][i].ctx = d
        BY <4>2, <3>2, <3>4 DEF IsExec, IsUser
      <4> QED BY <3>1, <4>2, <4>3
    <3> QED BY <3>3, <3>4
  <2> QED BY <2>1, <2>2
<1>d. ASSUME c \in pool' => state'[c] = "uninitialized", \A d \in pool' \ {c} : d \in pool
      PROVE  IdleInv'
  BY <1>d, <1>3 DEF IdleInv, Inv, TypeInv
<1> QED BY <1>a, <1>b, <1>c, <1>d

\* Who has borrowed which context does not change.
LEMMA SameBorrowers ==
  ASSUME Inv, NEW t \in Threads, OnlyOf(t), pool' = pool,
         \A c \in Contexts, i \in 1..MaxDepth :
            Borrows(stack'[t], i, c) <=> Borrows(stack[t], i, c)
  PROVE  LendingInv'
<1>1. \A r \in Threads, c \in Contexts, i \in 1..MaxDepth :
         Borrows(stack'[r], i, c) <=> Borrows(stack[r], i, c)
  BY DEF OnlyOf
<1> QED BY <1>1 DEF LendingInv, Inv

\* Which contexts have saved states does not change.
LEMMA SameNested ==
  ASSUME Inv, NEW t \in Threads, OnlyOf(t), saved' = saved,
         \A c \in Contexts, i \in 1..MaxDepth :
            Nests(stack'[t], i, c) <=> Nests(stack[t], i, c)
  PROVE  BalanceInv'
<1>1. \A r \in Threads, c \in Contexts, i \in 1..MaxDepth :
         Nests(stack'[r], i, c) <=> Nests(stack[r], i, c)
  BY DEF OnlyOf
<1>2. \A c \in Contexts : NestedIn(stack', c) = NestedIn(stack, c)
  BY <1>1 DEF NestedIn
<1>3. \A c \in Contexts : Cardinality(NestedIn(stack', c)) = Cardinality(NestedIn(stack, c))
  BY <1>2, Zenon
<1> QED BY <1>3 DEF BalanceInv, Inv

\* There are finitely many nested helpers.
LEMMA NestedAreFinite ==
  ASSUME TypeInv, Counted, NEW c
  PROVE  /\ IsFiniteSet(NestedIn(stack, c))
         /\ Cardinality(NestedIn(stack, c)) \in 0..MaxDepth
<1>1. NestedIn(stack, c) \in SUBSET Frames
  BY StacksAreSequences DEF NestedIn, Nests, Frames
<1>2. /\ IsFiniteSet(NestedIn(stack, c))
      /\ Cardinality(NestedIn(stack, c)) <= Cardinality(Frames)
  BY <1>1, FS_Subset DEF Counted
<1>3. Cardinality(Frames) \in Nat /\ Cardinality(NestedIn(stack, c)) \in Nat
  BY <1>2, FS_CardinalityType DEF Counted
<1> QED BY <1>2, <1>3, DepthAssumption DEF Counted

\* A stack with one more frame.
LEMMA AppendFrame ==
  ASSUME NEW s \in Seq(Frame), NEW f \in Frame
  PROVE  /\ Grows(s, Append(s, f), f)
         /\ \A i \in 1..Len(s) : Append(s, f)[i] = s[i]
<1>1. /\ Append(s, f) \in Seq(Frame) /\ Len(Append(s, f)) = Len(s) + 1
      /\ \A i \in 1..Len(s) : Append(s, f)[i] = s[i]
      /\ Append(s, f)[Len(s) + 1] = f
  BY AppendProperties, LenProperties
<1>2. \A i \in 1..Len(s) : Same(s[i], Append(s, f)[i]) BY <1>1 DEF Same
<1> QED BY <1>1, <1>2 DEF Grows

\* A step that replaces the stack of t.
LEMMA ReplacedStack ==
  ASSUME TypeInv, NEW t \in Threads, NEW u \in Seq(Frame), stack' = [stack EXCEPT ![t] = u]
  PROVE  OnlyOf(t) /\ stack'[t] = u
BY DEF TypeInv, OnlyOf

\* A frame about c is pushed: the users of other contexts stay.
LEMMA PushFocus ==
  ASSUME Inv, NEW t \in Threads, NEW c, NEW f, Pushes(t, f),
         f.kind # "native" => f.ctx = c,
         \A i \in 1..Depth(t) : stack'[t][i] = stack[t][i] \/ IsUser(stack[t], i, c)
  PROVE  \A d \in Contexts \ {c} : \A i \in 1..MaxDepth :
            /\ IsUser(stack'[t], i, d) <=> IsUser(stack[t], i, d)
            /\ IsUser(stack[t], i, d) => stack'[t][i] = stack[t][i]
<1>1. Depth(t) \in Nat /\ Depth(t) = Len(stack[t]) BY StacksAreSequences DEF Inv
<1> QED BY <1>1 DEF Pushes, Grows, Same, IsUser

\* Frames about c are removed: the users of other contexts stay.
LEMMA CutFocus ==
  ASSUME Inv, NEW t \in Threads, NEW c, NEW k, Cuts(t, k),
         \A i \in 1..Depth(t) :
            \/ i <= Depth(t) - k /\ stack'[t][i] = stack[t][i]
            \/ stack[t][i].kind = "native"
            \/ IsUser(stack[t], i, c)
  PROVE  \A d \in Contexts \ {c} : \A i \in 1..MaxDepth :
            /\ IsUser(stack'[t], i, d) <=> IsUser(stack[t], i, d)
            /\ IsUser(stack[t], i, d) => stack'[t][i] = stack[t][i]
<1>1. Depth(t) \in Nat /\ Depth(t) = Len(stack[t]) BY StacksAreSequences DEF Inv
<1>2. Len(stack'[t]) = Depth(t) - k /\ k \in 0..2 BY <1>1 DEF Cuts
<1>3. \A i \in 1..Len(stack'[t]) : Same(stack[t][i], stack'[t][i]) BY DEF Cuts, Shrinks
<1> QED BY SMTT(20), <1>1, <1>2, <1>3 DEF Same, IsUser

(***************************************************************************)
(* The actions.                                                            *)
(***************************************************************************)

\* A context is borrowed: it leaves the pool, and nobody used it.
LEMMA RequestContextKeepsInv ==
  ASSUME Inv, NEW t \in Threads, NEW c \in Contexts \cup {Null}, RequestContext(t, c)
  PROVE  Inv'
<1> DEFINE s == stack[t]
           n == Len(stack[t])
           f == Helper(c, FALSE, FALSE)
<1>1. /\ s \in Seq(Frame) /\ n \in Nat /\ Depth(t) = n /\ n <= MaxDepth /\ MaxDepth \in Nat
      /\ TypeInv /\ Counted /\ ShapeInv /\ LendingInv /\ WellFormed(s)
  BY StacksAreSequences, DepthAssumption DEF Inv, Counted, ShapeInv
<1>2. f \in Frame /\ f.kind = "helper" /\ f.ctx = c /\ f.nested = FALSE /\ f.last = "none"
  BY DEF Frame, Helper
<1>3. stack' = [stack EXCEPT ![t] = Append(s, f)] BY DEF RequestContext, Push
<1>4. Grows(s, Append(s, f), f) /\ \A i \in 1..n : Append(s, f)[i] = s[i]
  BY <1>1, <1>2, AppendFrame
<1>5. OnlyOf(t) /\ stack'[t] = Append(s, f)
  <2>1. Append(s, f) \in Seq(Frame) BY <1>4 DEF Grows
  <2> QED BY <2>1, <1>1, <1>3, ReplacedStack
<1>6. ~(n > 0 /\ s[n].kind = "exec")
  BY <1>1, EmptySeq DEF RequestContext, InNative, TopIs, Top, Depth
<1>7. Pushes(t, f)
  <2>1. FitsOn(s, f) BY <1>2, <1>6 DEF FitsOn
  <2> QED BY <2>1, <1>2, <1>4, <1>5 DEF Pushes, RequestContext
<1>8. Counted' /\ ShapeInv' /\ n + 1 \in 1..MaxDepth
  BY <1>1, <1>7, PushingIsCounted, StepsKeepShape
<1>9. /\ c \in Contexts => c \in pool
      /\ pool' = pool \ {c} /\ state' = state /\ saved' = saved /\ abort' = abort
  BY NullAssumption, <1>1 DEF RequestContext, TypeInv
<1>10. c \in Contexts => \A r \in Threads : \A i : ~IsUser(stack[r], i, c)
  BY <1>1, <1>9, UsersAreOnOneThread
<1>11. FocusOn(t, c)
  <2>1. \A i \in 1..Depth(t) : stack'[t][i] = stack[t][i] BY <1>1, <1>4, <1>5
  <2>2. \A d \in Contexts \ {c} : \A i \in 1..MaxDepth :
            /\ IsUser(stack'[t], i, d) <=> IsUser(stack[t], i, d)
            /\ IsUser(stack[t], i, d) => stack'[t][i] = stack[t][i]
    BY <2>1, <1>2, <1>7, PushFocus
  <2> QED BY <2>2, <1>5, <1>9, <1>10 DEF FocusOn
<1>12. Len(stack'[t]) = n + 1 /\ stack'[t][n + 1] = f /\ Depth(t)' = n + 1
  BY <1>4, <1>5 DEF Grows, Depth
<1>13. \A i : c \in Contexts /\ IsUser(stack'[t], i, c) => i = n + 1
  <2> SUFFICES ASSUME NEW i, c \in Contexts, IsUser(stack'[t], i, c), i # n + 1 PROVE FALSE
    OBVIOUS
  <2>1. i \in 1..n BY <1>1, <1>12 DEF IsUser
  <2>2. IsUser(s, i, c) BY <2>1, <1>4, <1>5 DEF IsUser
  <2> QED BY <2>2, <1>10
<1>14. ResultInv' /\ ToldInv' /\ AbortInv' /\ IdleInv'
  <2>1. c \in Contexts => ResultAt(t, c)'
    <3>1. c \in Contexts => state'[c] = "uninitialized" BY <1>9 DEF Inv, IdleInv
    <3>2. stack'[t][n + 1].last = "none" BY <1>2, <1>12
    <3> QED BY <1>13, <3>1, <3>2 DEF ResultAt
  <2>2. c \in Contexts => ToldAt(t, c)'
    BY <1>2, <1>12, <1>13 DEF ToldAt, IsExec, IsUser
  <2>3. abort' \subseteq Contexts BY <1>1, <1>9 DEF TypeInv
  <2>4. c \in Contexts => c \notin abort'
    <3> SUFFICES ASSUME c \in Contexts, c \in abort PROVE FALSE BY <1>9
    <3>1. PICK r \in Threads : \E i \in 1..Depth(r) : IsExec(stack[r], i) /\ stack[r][i].ctx = c
      BY DEF Inv, AbortInv
    <3> QED BY <3>1, <1>10 DEF IsExec, IsUser
  <2>5. c \notin pool' /\ \A d \in pool' \ {c} : d \in pool BY <1>9
  <2> QED BY <1>8, <1>11, <2>1, <2>2, <2>3, <2>4, <2>5, FocusKeepsOthers
<1> HIDE DEF f
<1>15. BalanceInv'
  <2>1. \A d \in Contexts, i \in 1..MaxDepth : Nests(stack'[t], i, d) <=> Nests(s, i, d)
    BY <1>1, <1>2, <1>4, <1>5, <1>12 DEF Nests
  <2> QED BY <2>1, <1>5, <1>9, SameNested
<1>16. LendingInv'
  <2>1. \A d \in Contexts, i \in 1..MaxDepth :
          Borrows(stack'[t], i, d) <=> Borrows(s, i, d) \/ (i = n + 1 /\ d = c)
    BY <1>1, <1>2, <1>4, <1>5, <1>12 DEF Borrows
  <2>2. \A r \in Threads \ {t} : stack'[r] = stack[r] BY <1>5 DEF OnlyOf
  <2>3. \A r \in Threads, d \in Contexts, i \in 1..MaxDepth :
          Borrows(stack'[r], i, d) <=>
             Borrows(stack[r], i, d) \/ (r = t /\ i = n + 1 /\ d = c)
    BY <2>1, <2>2
  <2>4. c \in Contexts => \A r \in Threads, i \in 1..MaxDepth : ~Borrows(stack[r], i, c)
    BY <1>9, <1>1 DEF LendingInv
  <2> QED BY <2>3, <2>4, <1>1, <1>8, <1>9 DEF LendingInv
<1>17. ErrorsReach'
  <2> SUFFICES ASSUME NEW r \in Threads, TopIs(r, "exec")' PROVE (Top(r).told)' \notin Errors
    BY DEF ErrorsReach
  <2>1. r # t BY <1>2, <1>12, <1>1 DEF TopIs, Top, Depth
  <2>2. stack'[r] = stack[r] BY <2>1, <1>5 DEF OnlyOf
  <2> QED BY <2>2 DEF Inv, ErrorsReach, TopIs, Top, Depth
<1>18. TypeInv' BY <1>1, <1>5, <1>9 DEF TypeInv, OnlyOf
<1> QED BY <1>8, <1>14, <1>15, <1>16, <1>17, <1>18 DEF Inv

\* A nested call is prepared: the helper is the first user of the context above
\* the function that executes, for its state is active.
LEMMA ReuseNestedKeepsInv ==
  ASSUME Inv, NEW t \in Threads, NEW p \in BOOLEAN, ReuseNested(t, p)
  PROVE  Inv'
<1> DEFINE s == stack[t]
           n == Len(stack[t])
<1>a. PICK c : c = CurrentContext(t) OBVIOUS
<1>b. PICK e : e = Innermost(t) OBVIOUS
<1> DEFINE f == Helper(c, TRUE, p)
<1>1. /\ s \in Seq(Frame) /\ n \in Nat /\ Depth(t) = n /\ n <= MaxDepth /\ MaxDepth \in Nat
      /\ TypeInv /\ Counted /\ ShapeInv /\ LendingInv /\ WellFormed(s)
  BY StacksAreSequences, DepthAssumption DEF Inv, Counted, ShapeInv
<1>2. c # Null /\ state[c] = "active" BY <1>a DEF ReuseNested, CanPush
<1>3. /\ e \in 1..n /\ IsExec(s, e) /\ NoExec(s, e, n + 1) /\ s[e].ctx = c
      /\ c \in Contexts /\ IsUser(s, e, c)
  <2>1. Execs(t) # {} /\ c = s[e].ctx BY <1>2, <1>a, <1>b DEF CurrentContext
  <2>2. IsExec(s, e) /\ NoExec(s, e, n + 1) BY <2>1, <1>1, <1>b, InnermostIsLast
  <2>3. s[e] \in Frame BY <2>2, ElementOfSeq, <1>1 DEF IsExec
  <2>4. c \in Contexts BY <2>1, <2>2, <2>3 DEF Frame, Native, IsExec
  <2> QED BY <2>1, <2>2, <2>4 DEF IsExec, IsUser
<1>4. NoUser(s, e, n + 1, c)
  <2>1. \A k \in 1..n : e < k /\ IsUser(s, k, c) =>
           s[k].kind = "helper" /\ NoUser(s, e, k, c)
    <3> SUFFICES ASSUME NEW k \in 1..n, e < k, IsUser(s, k, c)
                 PROVE  s[k].kind = "helper" /\ NoUser(s, e, k, c)
      OBVIOUS
    <3>1. s[k] \in Frame BY <1>1, ElementOfSeq
    <3>2. s[k].kind = "helper" /\ s[k].nested \in BOOLEAN
      BY <3>1, <1>1, <1>3 DEF NoExec, IsUser, Frame, Native
    <3>3. s[k].nested = TRUE
      <4> SUFFICES ASSUME s[k].nested = FALSE PROVE FALSE BY <3>2
      <4>1. Borrows(s, k, c) BY <3>2 DEF Borrows, IsUser
      <4>2. IsUser(s, e, c) BY <1>3 DEF IsExec, IsUser
      <4>3. c \in Contexts BY <1>3
      <4>4. \A i, b : IsUser(stack[t], i, c) /\ Borrows(stack[t], b, c) => b <= i
        BY <4>3, <1>1, UsersAreOnOneThread
      <4>5. k <= e BY <4>1, <4>2, <4>4
      <4>6. e \in Int /\ k \in Int BY <1>3
      <4> QED BY <4>5, <4>6
    <3>4. PICK d \in 1..(k-1) : /\ IsExec(s, d) /\ s[d].ctx = c
                                /\ NoExec(s, d, k) /\ NoUser(s, d, k, c)
      BY <3>2, <3>3, <1>1 DEF WellFormed, NestsInCaller, IsUser
    <3>5. d = e BY <3>4, <1>1, <1>3 DEF NoExec, IsExec
    <3> QED BY <3>2, <3>4, <3>5
  <2> SUFFICES ASSUME NEW k \in 1..n, e < k, IsUser(s, k, c) PROVE FALSE
    BY <1>1, <1>3 DEF NoUser
  <2>2. \A j \in 1..n : IsUser(s, j, c) => j <= k
    BY <2>1, <1>1, <1>3 DEF NoUser
  <2>3. s[k].kind = "helper" /\ s[k] \in Frame BY <2>1, <1>1, ElementOfSeq
  <2>4. state[c] = IF s[k].last = "none" THEN "uninitialized" ELSE s[k].last
    BY <2>2, <2>3, <1>1, <1>3 DEF Inv, ResultInv, ResultAt
  <2>5. s[k].last \in Outcomes \cup {"none"} BY <2>3 DEF Frame, Native
  <2> QED BY <2>4, <2>5, <1>2 DEF Outcomes, Errors
<1>5. /\ f \in Frame /\ f.kind = "helper" /\ f.ctx = c /\ f.nested = TRUE
      /\ f.last = "none"
  BY <1>3 DEF Frame, Helper
<1>6. /\ stack' = [stack EXCEPT ![t] = Append(s, f)]
      /\ saved' = [saved EXCEPT ![c] = @ + 1]
      /\ state' = [state EXCEPT ![c] = "uninitialized"]
      /\ abort' = abort /\ pool' = pool
  BY <1>a DEF ReuseNested, Push
<1> HIDE DEF f
<1>7. Grows(s, Append(s, f), f) /\ \A i \in 1..n : Append(s, f)[i] = s[i]
  BY <1>1, <1>5, AppendFrame
<1>8. OnlyOf(t) /\ stack'[t] = Append(s, f)
  <2>1. Append(s, f) \in Seq(Frame) BY <1>7 DEF Grows
  <2> QED BY <2>1, <1>1, <1>6, ReplacedStack
<1>9. Pushes(t, f)
  <2>1. ~(n > 0 /\ s[n].kind = "exec")
    BY <1>1, EmptySeq DEF ReuseNested, InNative, TopIs, Top, Depth
  <2>2. FitsOn(s, f) BY <2>1, <1>1, <1>3, <1>4, <1>5 DEF FitsOn
  <2> QED BY <2>2, <1>5, <1>7, <1>8 DEF Pushes, ReuseNested
<1>10. Counted' /\ ShapeInv' /\ n + 1 \in 1..MaxDepth
  BY <1>1, <1>9, PushingIsCounted, StepsKeepShape
<1>11. Len(stack'[t]) = n + 1 /\ stack'[t][n + 1] = f /\ Depth(t)' = n + 1
  BY <1>7, <1>8 DEF Grows, Depth
<1>12. \A i \in 1..n : stack'[t][i] = s[i] BY <1>7, <1>8
<1>13. FocusOn(t, c)
  <2>1. \A d \in Contexts \ {c} : \A i \in 1..MaxDepth :
            /\ IsUser(stack'[t], i, d) <=> IsUser(stack[t], i, d)
            /\ IsUser(stack[t], i, d) => stack'[t][i] = stack[t][i]
    BY <1>1, <1>5, <1>9, <1>12, PushFocus
  <2>2. \A r \in Threads \ {t} : \A i \in 1..Depth(r) : ~IsUser(stack[r], i, c)
    BY <1>1, <1>3, UsersAreOnOneThread
  <2> QED BY <2>1, <2>2, <1>1, <1>3, <1>6, <1>8 DEF FocusOn, TypeInv
<1>14. state'[c] = "uninitialized" BY <1>1, <1>3, <1>6 DEF TypeInv
<1>15. ResultInv' /\ ToldInv' /\ AbortInv' /\ IdleInv'
  <2>1. ResultAt(t, c)'
    <3>1. IsUser(stack'[t], n + 1, c) /\ n + 1 \in 1..Depth(t)'
      BY <1>1, <1>5, <1>11 DEF IsUser
    <3> QED BY <3>1, <1>1, <1>5, <1>11, <1>14 DEF ResultAt
  <2>2. ToldAt(t, c)'
    <3> SUFFICES ASSUME NEW i \in 1..Depth(t)', IsExec(stack'[t], i), stack'[t][i].ctx = c
                 PROVE  /\ stack'[t][i].told # "exception"
                        /\ stack'[t][i].told = "aborted" =>
                             /\ c \in abort'
                             /\ \A j \in 1..Depth(t)' : i < j /\ IsUser(stack'[t], j, c)
                                   => stack'[t][j].kind = "helper"
      BY DEF ToldAt
    <3>1. i \in 1..n /\ stack'[t][i] = s[i] /\ IsExec(s, i)
      BY <1>1, <1>5, <1>11, <1>12 DEF IsExec
    <3>2. /\ s[i].told = "exception" => state[c] = "exception"
          /\ s[i].told = "aborted" =>
               /\ c \in abort
               /\ \A j \in 1..n : i < j /\ IsUser(s, j, c) => s[j].kind = "helper"
      BY <3>1, <1>1, <1>3 DEF Inv, ToldInv, ToldAt
    <3>3. \A j \in 1..n : IsUser(stack'[t], j, c) => IsUser(s, j, c)
      BY <1>1, <1>12 DEF IsUser
    <3>4. stack'[t][i].told # "exception" BY <3>1, <3>2, <1>2
    <3>5. ASSUME stack'[t][i].told = "aborted", NEW j \in 1..Depth(t)', i < j,
                 IsUser(stack'[t], j, c)
          PROVE  stack'[t][j].kind = "helper"
      <4>1. CASE j = n + 1 BY <4>1, <1>5, <1>11
      <4>2. CASE j \in 1..n BY <4>2, <3>1, <3>2, <3>3, <3>5, <1>12
      <4> QED BY <4>1, <4>2, <1>1, <1>11
    <3> QED BY <3>1, <3>2, <3>4, <3>5, <1>6
  <2>3. /\ e \in 1..Depth(t)' /\ IsExec(stack'[t], e) /\ stack'[t][e].ctx = c
        /\ abort' \subseteq Contexts
    BY <1>1, <1>3, <1>6, <1>11, <1>12 DEF IsExec, TypeInv
  <2>4. \A d \in pool' \ {c} : d \in pool BY <1>6
  <2> QED BY <1>10, <1>13, <1>14, <2>1, <2>2, <2>3, <2>4, FocusKeepsOthers
<1>16. BalanceInv'
  <2> DEFINE new == <<t, n + 1>>
  <2>1. \A d \in Contexts, i \in 1..MaxDepth :
          Nests(stack'[t], i, d) <=> Nests(s, i, d) \/ (i = n + 1 /\ d = c)
    BY <1>1, <1>5, <1>11, <1>12 DEF Nests
  <2>2. \A r \in Threads, d \in Contexts, i \in 1..MaxDepth :
          Nests(stack'[r], i, d) <=>
             Nests(stack[r], i, d) \/ (r = t /\ i = n + 1 /\ d = c)
    BY <2>1, <1>8 DEF OnlyOf
  <2>3. NestedIn(stack', c) = NestedIn(stack, c) \cup {new}
    BY <2>2, <1>3, <1>10 DEF NestedIn
  <2>4. new \notin NestedIn(stack, c) BY <1>1 DEF NestedIn, Nests
  <2>5. Cardinality(NestedIn(stack', c)) = saved[c] + 1
    <3>1. saved[c] = Cardinality(NestedIn(stack, c)) /\ IsFiniteSet(NestedIn(stack, c))
      BY <1>1, <1>3, NestedAreFinite DEF Inv, BalanceInv
    <3> QED BY <3>1, <2>3, <2>4, FS_AddElement
  <2>6. \A d \in Contexts \ {c} : NestedIn(stack', d) = NestedIn(stack, d)
    BY <2>2 DEF NestedIn
  <2>7. \A d \in Contexts \ {c} : Cardinality(NestedIn(stack', d)) = saved[d]
    BY <2>6, Zenon DEF Inv, BalanceInv
  <2> QED BY <2>5, <2>7, <1>1, <1>3, <1>6 DEF BalanceInv, TypeInv
<1>17. LendingInv'
  <2>1. \A d \in Contexts, i \in 1..MaxDepth : Borrows(stack'[t], i, d) <=> Borrows(s, i, d)
    BY <1>1, <1>5, <1>11, <1>12 DEF Borrows
  <2> QED BY <2>1, <1>6, <1>8, SameBorrowers
<1>18. ErrorsReach'
  <2> SUFFICES ASSUME NEW r \in Threads, TopIs(r, "exec")' PROVE (Top(r).told)' \notin Errors
    BY DEF ErrorsReach
  <2>1. r # t BY <1>5, <1>11, <1>1 DEF TopIs, Top, Depth
  <2>2. stack'[r] = stack[r] BY <2>1, <1>8 DEF OnlyOf
  <2> QED BY <2>2 DEF Inv, ErrorsReach, TopIs, Top, Depth
<1>19. TypeInv' BY <1>1, <1>3, <1>6, <1>8 DEF TypeInv, OnlyOf, States
<1> QED BY <1>10, <1>15, <1>16, <1>17, <1>18, <1>19 DEF Inv

\* A function executes: its helper is the last user of the context, above the
\* functions that use it, and what the innermost of these was told is lost with
\* the request to abort.
LEMMA ExecuteKeepsInv ==
  ASSUME Inv, NEW t \in Threads, NEW i \in Mine(t), NEW c \in Contexts, NEW s0 \in Seq(Frame),
         c = stack[t][i].ctx, HasRoom,
         Len(s0) = Depth(t),
         \A k \in 1..Depth(t) :
            /\ Same(stack[t][k], s0[k])
            /\ \/ s0[k] = stack[t][k]
               \/ IsExec(stack[t], k) /\ stack[t][k].ctx = c /\ s0[k].told \notin Errors
            /\ IsExec(stack[t], k) /\ stack[t][k].ctx = c => s0[k].told # "aborted",
         stack' = [stack EXCEPT ![t] = Append(s0, Exec(c, i))],
         state' = [state EXCEPT ![c] = "active"],
         abort' = abort \/ abort' = abort \ {c},
         saved' = saved, pool' = pool
  PROVE  Inv'
<1> DEFINE s == stack[t]
           n == Len(stack[t])
           f == Exec(c, i)
<1>1. /\ s \in Seq(Frame) /\ n \in Nat /\ Depth(t) = n /\ n <= MaxDepth /\ MaxDepth \in Nat
      /\ TypeInv /\ Counted /\ ShapeInv /\ LendingInv /\ WellFormed(s)
  BY StacksAreSequences, DepthAssumption DEF Inv, Counted, ShapeInv
<1>2. /\ i \in 1..n /\ s[i].kind = "helper" /\ NoExec(s, i, n + 1) /\ IsUser(s, i, c)
      /\ \A k : IsExec(s, k) => k < i
  <2>1. \A k : IsExec(s, k) => k \in Execs(t) BY <1>1 DEF IsExec, Execs
  <2>2. i \in 1..n /\ s[i].kind = "helper" /\ \A j \in Execs(t) : j < i
    BY <1>1 DEF Mine
  <2>3. \A k : IsExec(s, k) => k < i BY <2>1, <2>2
  <2>4. NoExec(s, i, n + 1)
    <3> SUFFICES ASSUME NEW k \in 1..n, i < k, s[k].kind = "exec" PROVE FALSE
      BY <1>1 DEF NoExec
    <3>1. k < i BY <2>3 DEF IsExec
    <3> QED BY <3>1, <2>2, <1>1
  <2>5. IsUser(s, i, c) BY <2>2 DEF IsUser
  <2> QED BY <2>2, <2>3, <2>4, <2>5
<1>3. NoUser(s, i, n + 1, c)
  <2> SUFFICES ASSUME NEW k \in 1..n, i < k, IsUser(s, k, c) PROVE FALSE
    BY <1>1, <1>2 DEF NoUser
  <2>1. s[k] \in Frame BY <1>1, ElementOfSeq
  <2>2. s[k].kind = "helper" /\ s[k].nested \in BOOLEAN
    BY <2>1, <1>1, <1>2 DEF NoExec, IsUser, Frame, Native
  <2>3. CASE s[k].nested = FALSE
    <3>1. Borrows(s, k, c) BY <2>2, <2>3 DEF Borrows, IsUser
    <3>2. k <= i BY <3>1, <1>1, <1>2, UsersAreOnOneThread
    <3> QED BY <3>2, <1>1, <1>2
  <2>4. CASE s[k].nested = TRUE
    <3>1. PICK d \in 1..(k-1) : /\ IsExec(s, d) /\ s[d].ctx = c
                                /\ NoExec(s, d, k) /\ NoUser(s, d, k, c)
      BY <2>2, <2>4, <1>1 DEF WellFormed, NestsInCaller, IsUser
    <3> QED BY <3>1, <1>1, <1>2 DEF NoUser
  <2> QED BY <2>2, <2>3, <2>4
<1>4. /\ f \in Frame /\ f.kind = "exec" /\ f.ctx = c /\ f.via = i /\ f.told = "none"
  BY <1>1, <1>2 DEF Frame, Exec
<1> HIDE DEF f
<1>5. /\ Append(s0, f) \in Seq(Frame) /\ Len(Append(s0, f)) = n + 1
      /\ Append(s0, f)[n + 1] = f /\ \A k \in 1..n : Append(s0, f)[k] = s0[k]
  <2>1. Grows(s0, Append(s0, f), f) /\ \A k \in 1..Len(s0) : Append(s0, f)[k] = s0[k]
    BY <1>4, AppendFrame
  <2> QED BY <2>1, <1>1 DEF Grows
<1>6. OnlyOf(t) /\ stack'[t] = Append(s0, f) BY <1>5, <1>1, ReplacedStack DEF f
<1>7. \A k \in 1..n :
         /\ Same(s[k], stack'[t][k])
         /\ \/ stack'[t][k] = s[k]
            \/ IsExec(s, k) /\ s[k].ctx = c /\ stack'[t][k].told \notin Errors
         /\ IsExec(s, k) /\ s[k].ctx = c => stack'[t][k].told # "aborted"
  BY <1>1, <1>5, <1>6
<1>8. Len(stack'[t]) = n + 1 /\ stack'[t][n + 1] = f /\ Depth(t)' = n + 1
  BY <1>5, <1>6 DEF Depth
<1>9. Pushes(t, f)
  <2>1. ~(n > 0 /\ s[n].kind = "exec") BY <1>1, <1>2 DEF IsExec
  <2>2. FitsOn(s, f) BY <2>1, <1>2, <1>3, <1>4, <1>1 DEF FitsOn, IsUser
  <2>3. Grows(s, stack'[t], f) BY <1>5, <1>6, <1>7 DEF Grows
  <2> QED BY <2>2, <2>3, <1>4, <1>6 DEF Pushes
<1>10. Counted' /\ ShapeInv' /\ n + 1 \in 1..MaxDepth
  BY <1>1, <1>9, PushingIsCounted, StepsKeepShape
<1>11. state'[c] = "active" /\ c \notin pool /\ (c \in abort' => c \in abort)
  BY <1>1, <1>2, UsersAreOnOneThread DEF TypeInv
<1>12. FocusOn(t, c)
  <2>1. \A k \in 1..Depth(t) : stack'[t][k] = stack[t][k] \/ IsUser(stack[t], k, c)
    BY <1>1, <1>7 DEF IsExec, IsUser
  <2>2. \A d \in Contexts \ {c} : \A k \in 1..MaxDepth :
            /\ IsUser(stack'[t], k, d) <=> IsUser(stack[t], k, d)
            /\ IsUser(stack[t], k, d) => stack'[t][k] = stack[t][k]
    BY <2>1, <1>4, <1>9, PushFocus
  <2>3. \A r \in Threads \ {t} : \A k \in 1..Depth(r) : ~IsUser(stack[r], k, c)
    BY <1>1, <1>2, UsersAreOnOneThread
  <2> QED BY <2>2, <2>3, <1>1, <1>6 DEF FocusOn, TypeInv
<1>13. \A k \in 1..n : IsUser(stack'[t], k, c) <=> IsUser(s, k, c)
  BY <1>1, <1>7, <1>8 DEF IsUser, Same
<1>14. ResultInv' /\ ToldInv' /\ AbortInv' /\ IdleInv'
  <2>0. IsUser(stack'[t], n + 1, c) /\ IsExec(stack'[t], n + 1) /\ n + 1 \in 1..Depth(t)'
    BY <1>1, <1>4, <1>8 DEF IsUser, IsExec
  <2>1. ResultAt(t, c)'
    BY <2>0, <1>1, <1>4, <1>8 DEF ResultAt
  <2>2. ToldAt(t, c)'
    <3> SUFFICES ASSUME NEW k \in 1..Depth(t)', IsExec(stack'[t], k), stack'[t][k].ctx = c
                 PROVE  stack'[t][k].told \notin {"exception", "aborted"}
      BY DEF ToldAt
    <3>1. CASE k = n + 1 BY <3>1, <1>4, <1>8
    <3>2. CASE k \in 1..n
      <4>1. IsExec(s, k) /\ s[k].ctx = c BY <3>2, <1>7, <1>1 DEF IsExec, Same
      <4>2. stack'[t][k].told # "aborted" BY <3>2, <4>1, <1>7
      <4>3. s[k].told # "exception"
        BY <3>2, <4>1, <1>1, <1>2 DEF Inv, ToldInv, ToldAt
      <4>4. stack'[t][k].told # "exception" BY <3>2, <4>3, <1>7 DEF Errors
      <4> QED BY <4>2, <4>4
    <3> QED BY <3>1, <3>2, <1>1, <1>8
  <2>3. stack'[t][n + 1].ctx = c /\ abort' \subseteq Contexts
    BY <1>1, <1>4, <1>8 DEF TypeInv
  <2>4. \A d \in pool' \ {c} : d \in pool OBVIOUS
  <2> QED BY <1>10, <1>11, <1>12, <2>0, <2>1, <2>2, <2>3, <2>4, FocusKeepsOthers
<1>15. BalanceInv'
  <2>1. \A d \in Contexts, k \in 1..MaxDepth : Nests(stack'[t], k, d) <=> Nests(s, k, d)
    BY <1>1, <1>4, <1>7, <1>8 DEF Nests, Same, IsExec
  <2> QED BY <2>1, <1>6, SameNested
<1>16. LendingInv'
  <2>1. \A d \in Contexts, k \in 1..MaxDepth : Borrows(stack'[t], k, d) <=> Borrows(s, k, d)
    BY <1>1, <1>4, <1>7, <1>8 DEF Borrows, Same, IsExec
  <2> QED BY <2>1, <1>6, SameBorrowers
<1>17. ErrorsReach'
  <2> SUFFICES ASSUME NEW r \in Threads, TopIs(r, "exec")' PROVE (Top(r).told)' \notin Errors
    BY DEF ErrorsReach
  <2>1. CASE r = t BY <2>1, <1>4, <1>8 DEF Top, Depth, Errors
  <2>2. CASE r # t
    <3>1. stack'[r] = stack[r] BY <2>2, <1>6 DEF OnlyOf
    <3> QED BY <3>1 DEF Inv, ErrorsReach, TopIs, Top, Depth
  <2> QED BY <2>1, <2>2
<1>18. TypeInv' BY <1>1, <1>6 DEF TypeInv, OnlyOf, States
<1> QED BY <1>10, <1>14, <1>15, <1>16, <1>17, <1>18 DEF Inv

\* The context of a helper that has one is a context of the engine.
LEMMA MineAreHelpers ==
  ASSUME TypeInv, NEW t \in Threads, NEW i \in Mine(t)
  PROVE  /\ i \in 1..Depth(t) /\ stack[t][i].kind = "helper"
         /\ stack[t][i] \in Frame /\ stack[t][i].nested \in BOOLEAN
         /\ stack[t][i].ctx # Null => stack[t][i].ctx \in Contexts
         /\ \A k \in 1..Depth(t) : IsExec(stack[t], k) => k < i
<1>1. i \in 1..Depth(t) /\ stack[t][i].kind = "helper" /\ \A j \in Execs(t) : j < i
  BY DEF Mine
<1>2. stack[t][i] \in Frame BY <1>1, StacksAreSequences
<1>3. \A k \in 1..Depth(t) : IsExec(stack[t], k) => k < i BY <1>1 DEF Execs, IsExec
<1> QED BY <1>1, <1>2, <1>3 DEF Frame, Native

\* A function is called.
LEMMA ScriptInvokeKeepsInv ==
  ASSUME Inv, NEW t \in Threads, NEW i, ScriptInvoke(t, i)
  PROVE  Inv'
<1> DEFINE s == stack[t]
           n == Len(stack[t])
<1>1. /\ s \in Seq(Frame) /\ n \in Nat /\ Depth(t) = n /\ n <= MaxDepth /\ MaxDepth \in Nat
      /\ TypeInv /\ Counted /\ ShapeInv /\ LendingInv /\ WellFormed(s)
  BY StacksAreSequences, DepthAssumption DEF Inv, Counted, ShapeInv
<1>2. i \in Mine(t) /\ HasRoom BY DEF ScriptInvoke
<1>3. PICK c : c = s[i].ctx OBVIOUS
<1>4. /\ c # Null
      /\ state' = [state EXCEPT ![c] = "active"]
      /\ abort' = abort \ {c}
      /\ stack' = [stack EXCEPT ![t] = Append(Reprieved(t, c), Exec(c, i))]
      /\ saved' = saved /\ pool' = pool
  BY <1>3 DEF ScriptInvoke
<1>5. /\ i \in 1..n /\ s[i].kind = "helper" /\ s[i].nested \in BOOLEAN
      /\ c \in Contexts /\ IsUser(s, i, c)
      /\ \A k \in 1..n : IsExec(s, k) => k < i
  BY <1>1, <1>2, <1>3, <1>4, MineAreHelpers DEF IsUser
<1>6. CASE c \notin abort
  <2>1. Reprieved(t, c) = s BY <1>6 DEF Reprieved
  <2>2. \A k \in 1..n : IsExec(s, k) /\ s[k].ctx = c => s[k].told # "aborted"
    BY <1>1, <1>5, <1>6 DEF Inv, ToldInv, ToldAt
  <2>3. \A k \in 1..n : Same(s[k], s[k]) BY DEF Same
  <2> QED BY <2>1, <2>2, <2>3, <1>1, <1>2, <1>3, <1>4, <1>5, ExecuteKeepsInv
<1>7. CASE c \in abort
  <2>1. \E k \in 1..n : IsExec(s, k) /\ s[k].ctx = c
    <3>1. PICK r \in Threads : \E k \in 1..Depth(r) : IsExec(stack[r], k) /\ stack[r][k].ctx = c
      BY <1>7 DEF Inv, AbortInv
    <3>2. PICK k \in 1..Depth(r) : IsExec(stack[r], k) /\ stack[r][k].ctx = c BY <3>1
    <3>3. IsUser(stack[r], k, c) BY <3>2 DEF IsExec, IsUser
    <3>4. r = t BY <3>3, <1>1, <1>5, UsersAreOnOneThread
    <3> QED BY <3>2, <3>4, <1>1
  <2>2. s[i].nested = TRUE
    <3> SUFFICES ASSUME s[i].nested = FALSE PROVE FALSE BY <1>5
    <3>1. PICK k \in 1..n : IsExec(s, k) /\ s[k].ctx = c BY <2>1
    <3>2. IsUser(s, k, c) /\ Borrows(s, i, c) BY <3>1, <1>5 DEF IsExec, IsUser, Borrows
    <3>3. i <= k BY <3>2, <1>1, <1>5, UsersAreOnOneThread
    <3>4. k < i BY <3>1, <1>5
    <3> QED BY <3>3, <3>4, <1>1, <1>5
  <2>3. PICK e \in 1..(i-1) : /\ IsExec(s, e) /\ s[e].ctx = c /\ NoExec(s, e, i)
    BY <2>2, <1>1, <1>3, <1>5 DEF WellFormed, NestsInCaller
  <2>4. NoExec(s, e, n + 1)
    <3> SUFFICES ASSUME NEW k \in 1..n, e < k, s[k].kind = "exec" PROVE FALSE
      BY <1>1 DEF NoExec
    <3>1. k < i BY <1>5 DEF IsExec
    <3> QED BY <3>1, <2>3 DEF NoExec
  <2>5. e \in 1..n /\ Execs(t) # {} BY <2>3, <1>1 DEF IsExec, Execs
  <2>6. e = Innermost(t) BY <2>3, <2>4, <2>5, <1>1, InnermostIsLast
  <2>x. PICK x : x = IF s[e].told \in Errors THEN "lost" ELSE s[e].told OBVIOUS
  <2>u. PICK u : u = WithTold(s, e, x) OBVIOUS
  <2>7. Reprieved(t, c) = u BY <1>7, <2>6, <2>x, <2>u DEF Reprieved, WithTold
  <2>y. x \in Errors \cup {"none", "lost"} /\ x \notin Errors
    <3>1. s[e] \in Frame /\ s[e].kind = "exec" BY <2>3, <1>1, ElementOfSeq DEF IsExec
    <3> QED BY <3>1, <2>x DEF Frame, Native, Errors
  <2>8. /\ u \in Seq(Frame) /\ Len(u) = n
        /\ \A k \in 1..n : Same(s[k], u[k]) /\ (k # e => u[k] = s[k])
        /\ u[e].told \notin Errors
    BY <1>1, <2>3, <2>u, <2>y, TellFrame
  <2>9. ASSUME NEW k \in 1..n, IsExec(s, k), s[k].ctx = c PROVE u[k].told # "aborted"
    <3>1. CASE k = e BY <3>1, <2>8 DEF Errors
    <3>2. CASE k # e
      <4>1. k < e BY <3>2, <2>9, <2>4, <2>5, <1>1 DEF NoExec, IsExec
      <4>2. IsUser(s, e, c) /\ s[e].kind = "exec" BY <2>3 DEF IsExec, IsUser
      <4>3. s[k].told # "aborted"
        BY <4>1, <4>2, <2>5, <2>9, <1>1, <1>5 DEF Inv, ToldInv, ToldAt
      <4> QED BY <4>3, <3>2, <2>8
    <3> QED BY <3>1, <3>2
  <2>10. \A k \in 1..Depth(t) :
            /\ Same(stack[t][k], u[k])
            /\ \/ u[k] = stack[t][k]
               \/ IsExec(stack[t], k) /\ stack[t][k].ctx = c /\ u[k].told \notin Errors
            /\ IsExec(stack[t], k) /\ stack[t][k].ctx = c => u[k].told # "aborted"
    BY <2>3, <2>8, <2>9, <1>1
  <2>11. /\ stack' = [stack EXCEPT ![t] = Append(u, Exec(c, i))]
         /\ c = stack[t][i].ctx /\ u \in Seq(Frame) /\ Len(u) = Depth(t)
    BY <2>7, <2>8, <1>1, <1>3, <1>4
  <2> QED BY <2>10, <2>11, <1>2, <1>4, <1>5, ExecuteKeepsInv
<1> QED BY <1>6, <1>7

\* A suspended function goes on: its context is not told to abort.
LEMMA ResumeKeepsInv ==
  ASSUME Inv, NEW t \in Threads, NEW i, Resume(t, i)
  PROVE  Inv'
<1> DEFINE s == stack[t]
<1>1. s \in Seq(Frame) /\ Depth(t) = Len(s) /\ TypeInv BY StacksAreSequences DEF Inv
<1>2. i \in Mine(t) /\ HasRoom BY DEF Resume
<1>3. PICK c : c = s[i].ctx OBVIOUS
<1>4. /\ c # Null /\ state[c] = "suspended"
      /\ state' = [state EXCEPT ![c] = "active"]
      /\ stack' = [stack EXCEPT ![t] = Append(s, Exec(c, i))]
      /\ abort' = abort /\ saved' = saved /\ pool' = pool
  BY <1>3 DEF Resume, Push
<1>5. c \in Contexts BY <1>1, <1>2, <1>3, <1>4, MineAreHelpers
<1>6. \A k \in 1..Depth(t) : /\ Same(s[k], s[k])
                             /\ IsExec(s, k) /\ s[k].ctx = c => s[k].told # "aborted"
  <2>1. c \notin abort BY <1>4 DEF Inv, AbortInv
  <2> QED BY <2>1, <1>5 DEF Inv, ToldInv, ToldAt, Same
<1> QED BY <1>1, <1>2, <1>3, <1>4, <1>5, <1>6, ExecuteKeepsInv

\* Native code on top of a stack was called by the innermost function, the last
\* user of the current context.
LEMMA NativeOnTop ==
  ASSUME TypeInv, Counted, ShapeInv, LendingInv, NEW t \in Threads, TopIs(t, "native"),
         NEW c, c = CurrentContext(t)
  PROVE  LET s == stack[t]
             n == Len(stack[t])
         IN  /\ n > 1 /\ s[n].kind = "native" /\ IsExec(s, n - 1) /\ s[n - 1].ctx = c
             /\ Innermost(t) = n - 1
             /\ c \in Contexts /\ c \notin pool /\ IsUser(s, n - 1, c)
             /\ \A k \in 1..n : IsUser(s, k, c) => k <= n - 1
<1> DEFINE s == stack[t]
           n == Len(stack[t])
<1>1. s \in Seq(Frame) /\ n \in Nat /\ Depth(t) = n /\ WellFormed(s)
  BY StacksAreSequences DEF ShapeInv
<1>2. n > 0 /\ s[n].kind = "native" BY <1>1, EmptySeq DEF TopIs, Top, Depth
<1>3. n > 1 /\ s[n - 1].kind = "exec" BY <1>1, <1>2 DEF WellFormed, Alternates
<1>4. IsExec(s, n - 1) BY <1>1, <1>3 DEF IsExec
<1>5. n - 1 \in Execs(t) BY <1>1, <1>3 DEF Execs
<1>6. NoExec(s, n - 1, n + 1) BY <1>1, <1>2 DEF NoExec
<1>7. Innermost(t) = n - 1 BY <1>1, <1>4, <1>5, <1>6, InnermostIsLast
<1>8. c = s[n - 1].ctx BY <1>5, <1>7 DEF CurrentContext
<1>9. c \in Contexts
  <2>1. s[n - 1] \in Frame BY <1>1, <1>3, ElementOfSeq
  <2> QED BY <2>1, <1>3, <1>8 DEF Frame, Native
<1>10. IsUser(s, n - 1, c) BY <1>4, <1>8 DEF IsUser, IsExec
<1>11. c \notin pool BY <1>9, <1>10, UsersAreOnOneThread
<1>12. \A k \in 1..n : IsUser(s, k, c) => k <= n - 1 BY <1>1, <1>2 DEF IsUser
<1> QED BY <1>2, <1>3, <1>4, <1>7, <1>8, <1>9, <1>10, <1>11, <1>12

\* A function calls native code.
LEMMA ScriptCallsKeepsInv ==
  ASSUME Inv, NEW t \in Threads, ScriptCalls(t)
  PROVE  Inv'
<1> DEFINE s == stack[t]
           n == Len(stack[t])
<1>1. /\ s \in Seq(Frame) /\ n \in Nat /\ Depth(t) = n /\ n <= MaxDepth /\ MaxDepth \in Nat
      /\ TypeInv /\ Counted /\ ShapeInv /\ LendingInv /\ WellFormed(s)
  BY StacksAreSequences, DepthAssumption DEF Inv, Counted, ShapeInv
<1>2. /\ stack' = [stack EXCEPT ![t] = Append(s, Native)]
      /\ state' = state /\ saved' = saved /\ abort' = abort /\ pool' = pool
  BY DEF ScriptCalls, Push
<1>3. Native \in Frame /\ Native.kind = "native" BY DEF Frame, Native
<1>4. Grows(s, Append(s, Native), Native) /\ \A k \in 1..n : Append(s, Native)[k] = s[k]
  BY <1>1, <1>3, AppendFrame
<1>5. OnlyOf(t) /\ stack'[t] = Append(s, Native)
  <2>1. Append(s, Native) \in Seq(Frame) BY <1>4 DEF Grows
  <2> QED BY <2>1, <1>1, <1>2, ReplacedStack
<1>6. Pushes(t, Native)
  <2>1. n > 0 /\ s[n].kind = "exec"
    BY <1>1, EmptySeq DEF ScriptCalls, TopIs, Top, Depth
  <2>2. FitsOn(s, Native) BY <2>1, <1>3 DEF FitsOn
  <2> QED BY <2>2, <1>3, <1>4, <1>5 DEF Pushes, ScriptCalls
<1>7. Counted' /\ ShapeInv' /\ n + 1 \in 1..MaxDepth
  BY <1>1, <1>6, PushingIsCounted, StepsKeepShape
<1>8. /\ Len(stack'[t]) = n + 1 /\ stack'[t][n + 1].kind = "native" /\ Depth(t)' = n + 1
      /\ \A k \in 1..n : stack'[t][k] = s[k]
  BY <1>3, <1>4, <1>5 DEF Grows, Depth
<1>9. FocusOn(t, Null)
  <2>1. \A d \in Contexts \ {Null} : \A k \in 1..MaxDepth :
            /\ IsUser(stack'[t], k, d) <=> IsUser(stack[t], k, d)
            /\ IsUser(stack[t], k, d) => stack'[t][k] = stack[t][k]
    BY <1>1, <1>3, <1>6, <1>8, PushFocus
  <2> QED BY <2>1, <1>2, <1>5, NullAssumption DEF FocusOn
<1>10. ResultInv' /\ ToldInv' /\ AbortInv' /\ IdleInv'
  <2>1. Null \notin pool' /\ abort' \subseteq Contexts
    BY <1>1, <1>2, NullAssumption DEF TypeInv
  <2> QED BY <2>1, <1>2, <1>7, <1>9, NullAssumption, FocusKeepsOthers
<1>11. BalanceInv'
  <2>1. \A d \in Contexts, k \in 1..MaxDepth : Nests(stack'[t], k, d) <=> Nests(s, k, d)
    BY SMTT(20), <1>1, <1>8 DEF Nests
  <2> QED BY <2>1, <1>2, <1>5, SameNested
<1>12. LendingInv'
  <2>1. \A d \in Contexts, k \in 1..MaxDepth : Borrows(stack'[t], k, d) <=> Borrows(s, k, d)
    BY <1>1, <1>8 DEF Borrows
  <2> QED BY <2>1, <1>2, <1>5, SameBorrowers
<1>13. ErrorsReach'
  <2> SUFFICES ASSUME NEW r \in Threads, TopIs(r, "exec")' PROVE (Top(r).told)' \notin Errors
    BY DEF ErrorsReach
  <2>1. r # t BY <1>8, <1>1 DEF TopIs, Top, Depth
  <2>2. stack'[r] = stack[r] BY <2>1, <1>5 DEF OnlyOf
  <2> QED BY <2>2 DEF Inv, ErrorsReach, TopIs, Top, Depth
<1>14. TypeInv' BY <1>1, <1>2, <1>5 DEF TypeInv, OnlyOf
<1> QED BY <1>7, <1>10, <1>11, <1>12, <1>13, <1>14 DEF Inv

\* A call ends, however it ended: its helper is the last user of the context
\* again and knows the outcome.
LEMMA EndsKeepsInv ==
  ASSUME Inv, NEW t \in Threads, NEW frames \in Seq(Frame), NEW outcome \in Outcomes,
         NEW m \in 1..Depth(t), IsExec(stack[t], m),
         m = Depth(t) \/ (m = Depth(t) - 1 /\ stack[t][Depth(t)].kind = "native"),
         Len(frames) = m, \A k \in 1..m : frames[k] = stack[t][k],
         Ends(t, frames, outcome)
  PROVE  Inv'
<1> DEFINE s == stack[t]
           n == Len(stack[t])
<1>1. /\ s \in Seq(Frame) /\ n \in Nat /\ Depth(t) = n /\ n <= MaxDepth /\ MaxDepth \in Nat
      /\ TypeInv /\ Counted /\ ShapeInv /\ LendingInv /\ WellFormed(s)
  BY StacksAreSequences, DepthAssumption DEF Inv, Counted, ShapeInv
<1>a. PICK c, v, rest, u : /\ c = frames[Len(frames)].ctx /\ v = frames[Len(frames)].via
                           /\ rest = SubSeq(frames, 1, Len(frames) - 1)
                           /\ u = WithLast(rest, v, outcome)
  OBVIOUS
<1>2. c = s[m].ctx /\ v = s[m].via /\ rest = SubSeq(frames, 1, m - 1) BY <1>a, <1>1
<1>3. /\ stack' = [stack EXCEPT ![t] = u]
      /\ state' = [state EXCEPT ![c] = outcome]
      /\ abort' = abort \ {c} /\ saved' = saved /\ pool' = pool
  BY <1>a DEF Ends, WithLast
<1>4. /\ m \in 1..n /\ s[m].kind = "exec" /\ s[m] \in Frame /\ c \in Contexts
      /\ IsUser(s, m, c)
  <2>1. s[m] \in Frame BY <1>1, ElementOfSeq
  <2>2. s[m].kind = "exec" BY DEF IsExec
  <2> QED BY <2>1, <2>2, <1>1, <1>2 DEF Frame, Native, IsUser
<1>5. /\ v \in 1..(m-1) /\ s[v].kind = "helper" /\ s[v].ctx = c
      /\ NoUser(s, v, m, c)
  BY <1>1, <1>2, <1>4 DEF WellFormed, CallsReturn
<1>6. /\ rest \in Seq(Frame) /\ Len(rest) = m - 1
      /\ \A k \in 1..(m-1) : rest[k] = s[k]
  BY <1>1, <1>2, <1>4, CutFrames
<1>7. /\ u \in Seq(Frame) /\ Len(u) = m - 1
      /\ \A k \in 1..(m-1) : Same(s[k], u[k]) /\ (k # v => u[k] = s[k])
      /\ u[v].last = outcome
  <2>1. IsHelper(rest, v) BY <1>5, <1>6 DEF IsHelper
  <2>2. /\ u \in Seq(Frame) /\ Len(u) = Len(rest)
        /\ \A k \in 1..Len(rest) : Same(rest[k], u[k]) /\ (k # v => u[k] = rest[k])
        /\ u[v].last = outcome
    <3>1. rest \in Seq(Frame) /\ u = WithLast(rest, v, outcome) BY <1>a, <1>6
    <3> QED BY <2>1, <3>1, EndFrame
  <2> QED BY <2>2, <1>6
<1>8. OnlyOf(t) /\ stack'[t] = u /\ Depth(t)' = m - 1
  BY <1>1, <1>3, <1>7, ReplacedStack DEF Depth
<1>9. PICK k \in 1..2 : m - 1 = n - k BY <1>1
<1>10. Cuts(t, k) BY <1>1, <1>4, <1>7, <1>8, <1>9 DEF Cuts, Shrinks
<1>11. Counted' /\ ShapeInv' BY <1>1, <1>10, CuttingIsCounted, StepsKeepShape
<1>12. c \notin pool /\ state'[c] = outcome
  BY <1>1, <1>3, <1>4, UsersAreOnOneThread DEF TypeInv
<1>13. FocusOn(t, c)
  <2>1. ASSUME NEW i \in 1..Depth(t)
        PROVE  \/ i <= Depth(t) - k /\ stack'[t][i] = stack[t][i]
               \/ stack[t][i].kind = "native"
               \/ IsUser(stack[t], i, c)
    <3>1. CASE i \in 1..(m-1) /\ i # v BY <3>1, <1>1, <1>7, <1>8, <1>9
    <3>2. CASE i = v BY <3>2, <1>1, <1>4, <1>5 DEF IsUser
    <3>3. CASE i = m BY <3>3, <1>4
    <3>4. CASE i > m BY <3>4, <1>1
    <3> QED BY <3>1, <3>2, <3>3, <3>4, <1>1, <1>4
  <2>2. \A d \in Contexts \ {c} : \A i \in 1..MaxDepth :
            /\ IsUser(stack'[t], i, d) <=> IsUser(stack[t], i, d)
            /\ IsUser(stack[t], i, d) => stack'[t][i] = stack[t][i]
    BY <2>1, <1>10, CutFocus
  <2>3. \A r \in Threads \ {t} : \A i \in 1..Depth(r) : ~IsUser(stack[r], i, c)
    BY <1>1, <1>4, UsersAreOnOneThread
  <2> QED BY <2>2, <2>3, <1>1, <1>3, <1>4, <1>8 DEF FocusOn, TypeInv
<1>14. \A i \in 1..(m-1) : IsUser(stack'[t], i, c) <=> IsUser(s, i, c)
  BY SMTT(20), <1>1, <1>4, <1>7, <1>8 DEF IsUser, Same
<1>15. ResultInv' /\ ToldInv' /\ AbortInv' /\ IdleInv'
  <2>1. ResultAt(t, c)'
    <3> SUFFICES ASSUME NEW i \in 1..(m-1), IsUser(stack'[t], i, c),
                        \A j \in 1..(m-1) : IsUser(stack'[t], j, c) => j <= i
                 PROVE  i = v
      BY <1>5, <1>7, <1>8, <1>12 DEF ResultAt, Outcomes, Errors
    <3>1. IsUser(stack'[t], v, c) BY <1>4, <1>5, <1>14 DEF IsUser
    <3>2. v <= i BY <3>1, <1>5
    <3>3. ~(v < i /\ i < m) BY <1>4, <1>5, <1>14 DEF NoUser
    <3> QED BY <3>2, <3>3, <1>4, <1>5
  <2>2. ToldAt(t, c)'
    <3> SUFFICES ASSUME NEW i \in 1..(m-1), IsExec(stack'[t], i), stack'[t][i].ctx = c
                 PROVE  stack'[t][i].told \notin {"exception", "aborted"}
      BY <1>8 DEF ToldAt
    <3>1. i # v /\ u[i] = s[i] /\ IsExec(s, i) /\ s[i].ctx = c /\ i \in 1..n
      BY <1>1, <1>4, <1>5, <1>7, <1>8 DEF IsExec, Same
    <3>2. i < m /\ m \in 1..n BY <1>4
    <3>3. s[i].told \notin {"exception", "aborted"}
      BY <3>1, <3>2, <1>1, <1>4 DEF Inv, ToldInv, ToldAt
    <3> QED BY <3>1, <3>3, <1>8
  <2>3. c \notin abort' /\ abort' \subseteq Contexts BY <1>1, <1>3 DEF TypeInv
  <2> QED BY <1>3, <1>11, <1>12, <1>13, <2>1, <2>2, <2>3, FocusKeepsOthers
<1>16. BalanceInv'
  <2>1. \A d \in Contexts, i \in 1..MaxDepth : Nests(stack'[t], i, d) <=> Nests(s, i, d)
    <3> SUFFICES ASSUME NEW d \in Contexts, NEW i \in 1..MaxDepth
                 PROVE  Nests(stack'[t], i, d) <=> Nests(s, i, d)
      OBVIOUS
    <3>1. CASE i \in 1..(m-1)
      <4>1. Same(s[i], stack'[t][i]) /\ i \in 1..Len(s) /\ i \in 1..Len(stack'[t])
        BY <3>1, <1>1, <1>4, <1>7, <1>8
      <4> QED BY <4>1 DEF Nests, Same
    <3>2. CASE i >= m
      <4>1. ~Nests(s, i, d) BY <3>2, <1>1, <1>4 DEF Nests
      <4>2. ~Nests(stack'[t], i, d) BY <3>2, <1>1, <1>4, <1>7, <1>8 DEF Nests
      <4> QED BY <4>1, <4>2
    <3> QED BY <3>1, <3>2, <1>1, <1>4
  <2> QED BY <2>1, <1>3, <1>8, SameNested
<1>17. LendingInv'
  <2>1. \A d \in Contexts, i \in 1..MaxDepth : Borrows(stack'[t], i, d) <=> Borrows(s, i, d)
    <3> SUFFICES ASSUME NEW d \in Contexts, NEW i \in 1..MaxDepth
                 PROVE  Borrows(stack'[t], i, d) <=> Borrows(s, i, d)
      OBVIOUS
    <3>1. CASE i \in 1..(m-1)
      <4>1. Same(s[i], stack'[t][i]) /\ i \in 1..Len(s) /\ i \in 1..Len(stack'[t])
        BY <3>1, <1>1, <1>4, <1>7, <1>8
      <4> QED BY <4>1 DEF Borrows, Same
    <3>2. CASE i >= m
      <4>1. ~Borrows(s, i, d) BY <3>2, <1>1, <1>4 DEF Borrows
      <4>2. ~Borrows(stack'[t], i, d) BY <3>2, <1>1, <1>4, <1>7, <1>8 DEF Borrows
      <4> QED BY <4>1, <4>2
    <3> QED BY <3>1, <3>2, <1>1, <1>4
  <2> QED BY <2>1, <1>3, <1>8, SameBorrowers
<1>18. ErrorsReach'
  <2> SUFFICES ASSUME NEW r \in Threads, TopIs(r, "exec")' PROVE (Top(r).told)' \notin Errors
    BY DEF ErrorsReach
  <2>1. CASE r = t
    <3>1. m > 1 /\ u[m-1].kind = "exec" BY <2>1, <1>1, <1>4, <1>5, <1>8 DEF TopIs, Top
    <3>2. s[m-1].kind = "exec" BY <3>1, <1>4, <1>7 DEF Same
    <3>3. m - 1 \in 1..n /\ m - 1 < n /\ (m - 1) + 1 = m BY <3>1, <1>1, <1>4
    <3>4. s[m].kind = "native" BY <3>2, <3>3, <1>1 DEF WellFormed, Alternates
    <3> QED BY <3>4, <1>4
  <2>2. CASE r # t
    <3>1. stack'[r] = stack[r] BY <2>2, <1>8 DEF OnlyOf
    <3> QED BY <3>1 DEF Inv, ErrorsReach, TopIs, Top, Depth
  <2> QED BY <2>1, <2>2
<1>19. TypeInv' BY <1>1, <1>3, <1>8 DEF TypeInv, OnlyOf, States
<1> QED BY <1>11, <1>15, <1>16, <1>17, <1>18, <1>19 DEF Inv

\* A function returns or throws.
LEMMA ScriptEndsKeepsInv ==
  ASSUME Inv, NEW t \in Threads, NEW outcome \in Outcomes,
         TopIs(t, "exec"), Ends(t, stack[t], outcome)
  PROVE  Inv'
<1> DEFINE s == stack[t]
<1>1. TypeInv /\ s \in Seq(Frame) /\ Depth(t) = Len(s) /\ Depth(t) \in Nat
  BY StacksAreSequences DEF Inv
<1>2. Depth(t) \in 1..Depth(t) /\ IsExec(s, Depth(t))
  BY <1>1, EmptySeq DEF TopIs, Top, IsExec
<1> QED BY <1>1, <1>2, EndsKeepsInv

\* Native code ends the function that called it.
LEMMA NativeEndsKeepsInv ==
  ASSUME Inv, NEW t \in Threads, NEW outcome \in Outcomes,
         TopIs(t, "native"), Ends(t, Popped(t), outcome)
  PROVE  Inv'
<1> DEFINE s == stack[t]
           n == Len(stack[t])
<1>1. /\ TypeInv /\ Counted /\ ShapeInv /\ LendingInv /\ s \in Seq(Frame)
      /\ Depth(t) = n /\ n \in Nat
  BY StacksAreSequences DEF Inv
<1>2. n > 1 /\ s[n].kind = "native" /\ IsExec(s, n - 1) BY <1>1, NativeOnTop
<1>3. n - 1 \in 1..Depth(t) /\ n - 1 \in 0..n BY <1>1, <1>2
<1>4. /\ Popped(t) \in Seq(Frame) /\ Len(Popped(t)) = n - 1
      /\ \A k \in 1..(n-1) : Popped(t)[k] = s[k]
  BY <1>1, <1>3, CutFrames DEF Popped
<1> HIDE DEF n
<1> QED BY <1>1, <1>2, <1>3, <1>4, EndsKeepsInv

\* Native code marks the context of its caller.
LEMMA MarkKeepsInv ==
  ASSUME Inv, NEW t \in Threads, NEW c, c = CurrentContext(t),
         TopIs(t, "native"), state[c] = "active",
         \/ abort' = abort /\ state' = [state EXCEPT ![c] = "exception"]
         \/ abort' = abort \cup {c} /\ state' = state,
         stack' = stack, saved' = saved, pool' = pool
  PROVE  Inv'
<1> DEFINE s == stack[t]
           n == Len(stack[t])
<1>1. /\ s \in Seq(Frame) /\ n \in Nat /\ Depth(t) = n /\ n <= MaxDepth /\ MaxDepth \in Nat
      /\ TypeInv /\ Counted /\ ShapeInv /\ LendingInv /\ WellFormed(s)
  BY StacksAreSequences, DepthAssumption DEF Inv, Counted, ShapeInv
<1>2. /\ n > 1 /\ IsExec(s, n - 1) /\ s[n - 1].ctx = c
      /\ c \in Contexts /\ c \notin pool /\ IsUser(s, n - 1, c)
      /\ \A k \in 1..n : IsUser(s, k, c) => k <= n - 1
  BY <1>1, NativeOnTop
<1>3. Counted' /\ ShapeInv' /\ LendingInv' /\ BalanceInv' /\ ErrorsReach' /\ Depth(t)' = n
  <2>1. Counted' BY DEF Inv, Counted, Frames, Depth
  <2>2. ShapeInv' /\ LendingInv' BY DEF Inv, ShapeInv, LendingInv
  <2>3. BalanceInv' BY DEF Inv, BalanceInv
  <2>4. ErrorsReach' BY DEF Inv, ErrorsReach, TopIs, Top, Depth
  <2> QED BY <2>1, <2>2, <2>3, <2>4 DEF Depth
<1>4. FocusOn(t, c)
  <2>1. \A r \in Threads \ {t} : \A k \in 1..Depth(r) : ~IsUser(stack[r], k, c)
    <3>1. \E k : IsUser(stack[t], k, c) BY <1>2
    <3> QED BY <3>1, <1>1, <1>2, OthersDoNotUse
  <2>2. OnlyOf(t) BY <1>1 DEF OnlyOf, TypeInv
  <2>3. \A d \in Contexts \ {c} : state'[d] = state[d] /\ (d \in abort' <=> d \in abort)
    BY <1>1 DEF TypeInv
  <2> QED BY <2>1, <2>2, <2>3, <1>2 DEF FocusOn
<1>5. ResultAt(t, c)'
  <2>1. ASSUME NEW i \in 1..n, \A j \in 1..n : IsUser(s, j, c) => j <= i, IsUser(s, i, c)
        PROVE  s[i].kind = "exec"
    <3>1. n - 1 <= i /\ i <= n - 1 BY <2>1, <1>1, <1>2
    <3> QED BY <3>1, <1>1, <1>2 DEF IsExec
  <2> QED BY <2>1, <1>3 DEF ResultAt
<1>6. ToldAt(t, c)'
  <2>1. \A i \in 1..n : IsExec(s, i) /\ s[i].ctx = c => s[i].told # "exception"
    BY <1>1, <1>2 DEF Inv, ToldInv, ToldAt
  <2>2. c \in abort => c \in abort' OBVIOUS
  <2>3. ToldAt(t, c) BY <1>2 DEF Inv, ToldInv
  <2> QED BY <2>1, <2>2, <2>3, <1>1, <1>3 DEF ToldAt
<1>7. /\ c \in abort' =>
           /\ state'[c] # "suspended"
           /\ \E i \in 1..Depth(t)' : IsExec(stack'[t], i) /\ stack'[t][i].ctx = c
      /\ abort' \subseteq Contexts
  <2>1. state'[c] \in {"active", "exception"} BY <1>1, <1>2 DEF TypeInv
  <2>2. n - 1 \in 1..Depth(t)' BY <1>1, <1>2, <1>3
  <2>3. abort' \subseteq Contexts BY <1>1, <1>2 DEF TypeInv
  <2> QED BY <2>1, <2>2, <2>3, <1>2
<1>8. ResultInv' /\ ToldInv' /\ AbortInv' /\ IdleInv'
  BY <1>2, <1>3, <1>4, <1>5, <1>6, <1>7, FocusKeepsOthers
<1>9. TypeInv' BY <1>1, <1>2 DEF TypeInv, States, Outcomes, Errors
<1> QED BY <1>3, <1>8, <1>9 DEF Inv

\* Native code returns to the function that called it, which runs on: whatever
\* it had been told is still set on the context, or was caught.
LEMMA ReturnKeepsInv ==
  ASSUME Inv, NEW t \in Threads, NEW c, c = CurrentContext(t), TopIs(t, "native"),
         NEW u \in Seq(Frame), Len(u) = Depth(t) - 1,
         \A k \in 1..(Depth(t)-1) : /\ Same(stack[t][k], u[k])
                                    /\ k # Depth(t) - 1 => u[k] = stack[t][k],
         u[Depth(t) - 1].told \notin Errors,
         stack' = [stack EXCEPT ![t] = u],
         state' = state \/ state' = [state EXCEPT ![c] = "active"],
         abort' = abort, saved' = saved, pool' = pool
  PROVE  Inv'
<1> DEFINE s == stack[t]
           n == Len(stack[t])
<1>1. /\ s \in Seq(Frame) /\ n \in Nat /\ Depth(t) = n /\ n <= MaxDepth /\ MaxDepth \in Nat
      /\ TypeInv /\ Counted /\ ShapeInv /\ LendingInv /\ WellFormed(s)
  BY StacksAreSequences, DepthAssumption DEF Inv, Counted, ShapeInv
<1>2. /\ n > 1 /\ s[n].kind = "native" /\ IsExec(s, n - 1) /\ s[n - 1].ctx = c
      /\ c \in Contexts /\ c \notin pool /\ IsUser(s, n - 1, c)
      /\ \A k \in 1..n : IsUser(s, k, c) => k <= n - 1
  BY <1>1, NativeOnTop
<1>3. OnlyOf(t) /\ stack'[t] = u /\ Depth(t)' = n - 1
  BY <1>1, ReplacedStack DEF Depth
<1>4. /\ \A k \in 1..(n-1) : Same(s[k], stack'[t][k]) /\ (k # n - 1 => stack'[t][k] = s[k])
      /\ stack'[t][n - 1].told \notin Errors /\ Len(stack'[t]) = n - 1
  BY <1>1, <1>3
<1>5. Cuts(t, 1) BY <1>1, <1>2, <1>3, <1>4 DEF Cuts, Shrinks
<1>6. Counted' /\ ShapeInv' BY <1>1, <1>5, CuttingIsCounted, StepsKeepShape
<1>7. FocusOn(t, c)
  <2>1. ASSUME NEW i \in 1..Depth(t)
        PROVE  \/ i <= Depth(t) - 1 /\ stack'[t][i] = stack[t][i]
               \/ stack[t][i].kind = "native"
               \/ IsUser(stack[t], i, c)
    <3>1. CASE i = n BY <3>1, <1>2
    <3>2. CASE i = n - 1 BY <3>2, <1>2
    <3>3. CASE i \in 1..(n-2) BY <3>3, <1>1, <1>4
    <3> QED BY <3>1, <3>2, <3>3, <1>1
  <2>2. \A d \in Contexts \ {c} : \A i \in 1..MaxDepth :
            /\ IsUser(stack'[t], i, d) <=> IsUser(stack[t], i, d)
            /\ IsUser(stack[t], i, d) => stack'[t][i] = stack[t][i]
    BY <2>1, <1>5, CutFocus
  <2>3. \A r \in Threads \ {t} : \A i \in 1..Depth(r) : ~IsUser(stack[r], i, c)
    <3>1. \E k : IsUser(stack[t], k, c) BY <1>2
    <3> QED BY <3>1, <1>1, <1>2, OthersDoNotUse
  <2> QED BY <2>2, <2>3, <1>1, <1>2, <1>3 DEF FocusOn, TypeInv
<1>8. IsUser(stack'[t], n - 1, c) /\ IsExec(stack'[t], n - 1) /\ n - 1 \in 1..Depth(t)'
      /\ stack'[t][n - 1].ctx = c
  <2>1. n - 1 \in 1..(n-1) /\ Same(s[n - 1], stack'[t][n - 1]) BY <1>1, <1>2, <1>4
  <2> QED BY <2>1, <1>2, <1>3, <1>4 DEF IsUser, IsExec, Same
<1>9. ResultAt(t, c)'
  <2> SUFFICES ASSUME NEW i \in 1..(n-1), stack'[t][i].kind = "helper",
                      \A j \in 1..(n-1) : IsUser(stack'[t], j, c) => j <= i
               PROVE  FALSE
    BY <1>3 DEF ResultAt
  <2>1. n - 1 <= i BY <1>3, <1>8
  <2>2. i = n - 1 BY <2>1, <1>1
  <2> QED BY <2>2, <1>8 DEF IsExec
<1>10. ToldAt(t, c)'
  <2> SUFFICES ASSUME NEW i \in 1..(n-1), IsExec(stack'[t], i), stack'[t][i].ctx = c
               PROVE  stack'[t][i].told \notin {"exception", "aborted"}
    BY <1>3 DEF ToldAt
  <2>1. CASE i = n - 1 BY <2>1, <1>4 DEF Errors
  <2>2. CASE i # n - 1
    <3>1. stack'[t][i] = s[i] /\ IsExec(s, i) /\ i < n - 1 /\ i \in 1..n /\ n - 1 \in 1..n
      BY <2>2, <1>1, <1>4 DEF IsExec
    <3>2. s[i].told \notin {"exception", "aborted"}
      <4>1. ToldAt(t, c) BY <1>2 DEF Inv, ToldInv
      <4>2. /\ s[i].told = "exception" => ~IsUser(s, n - 1, c)
            /\ s[i].told = "aborted" => s[n - 1].kind = "helper"
        BY <4>1, <3>1, <2>2, <1>1, <1>2 DEF ToldAt
      <4> QED BY <4>2, <1>2 DEF IsExec
    <3> QED BY <3>1, <3>2
  <2> QED BY <2>1, <2>2
<1>11. /\ c \in abort' =>
            /\ state'[c] # "suspended"
            /\ \E i \in 1..Depth(t)' : IsExec(stack'[t], i) /\ stack'[t][i].ctx = c
       /\ abort' \subseteq Contexts
  <2>1. c \in abort => state'[c] # "suspended" BY <1>1, <1>2 DEF Inv, AbortInv, TypeInv
  <2> QED BY <2>1, <1>1, <1>8 DEF TypeInv
<1>12. ResultInv' /\ ToldInv' /\ AbortInv' /\ IdleInv'
  BY <1>2, <1>6, <1>7, <1>9, <1>10, <1>11, FocusKeepsOthers
<1>13. \A i \in 1..(n-1) : Same(s[i], stack'[t][i]) /\ i \in 1..Len(s) /\ i \in 1..Len(stack'[t])
  BY <1>1, <1>4
<1>14. BalanceInv'
  <2>1. \A d \in Contexts, i \in 1..MaxDepth : Nests(stack'[t], i, d) <=> Nests(s, i, d)
    <3> SUFFICES ASSUME NEW d \in Contexts, NEW i \in 1..MaxDepth
                 PROVE  Nests(stack'[t], i, d) <=> Nests(s, i, d)
      OBVIOUS
    <3>1. CASE i \in 1..(n-1) BY <3>1, <1>13 DEF Nests, Same
    <3>2. CASE i >= n BY <3>2, <1>1, <1>2, <1>4 DEF Nests
    <3> QED BY <3>1, <3>2, <1>1
  <2> QED BY <2>1, <1>3, SameNested
<1>15. LendingInv'
  <2>1. \A d \in Contexts, i \in 1..MaxDepth : Borrows(stack'[t], i, d) <=> Borrows(s, i, d)
    <3> SUFFICES ASSUME NEW d \in Contexts, NEW i \in 1..MaxDepth
                 PROVE  Borrows(stack'[t], i, d) <=> Borrows(s, i, d)
      OBVIOUS
    <3>1. CASE i \in 1..(n-1) BY <3>1, <1>13 DEF Borrows, Same
    <3>2. CASE i >= n BY <3>2, <1>1, <1>2, <1>4 DEF Borrows
    <3> QED BY <3>1, <3>2, <1>1
  <2> QED BY <2>1, <1>3, SameBorrowers
<1>16. ErrorsReach'
  <2> SUFFICES ASSUME NEW r \in Threads, TopIs(r, "exec")' PROVE (Top(r).told)' \notin Errors
    BY DEF ErrorsReach
  <2>1. CASE r = t BY <2>1, <1>3, <1>4 DEF Top
  <2>2. CASE r # t
    <3>1. stack'[r] = stack[r] BY <2>2, <1>3 DEF OnlyOf
    <3> QED BY <3>1 DEF Inv, ErrorsReach, TopIs, Top, Depth
  <2> QED BY <2>1, <2>2
<1>17. TypeInv' BY <1>1, <1>2, <1>3 DEF TypeInv, OnlyOf, States
<1> QED BY <1>6, <1>12, <1>14, <1>15, <1>16, <1>17 DEF Inv

\* What is below a helper on top of a stack is not a function.
LEMMA HelperOnTop ==
  ASSUME Inv, NEW t \in Threads, TopIs(t, "helper")
  PROVE  LET s == stack[t]
             n == Len(stack[t])
         IN  /\ n \in 1..MaxDepth /\ n - 1 \in 0..n /\ Depth(t) = n /\ s \in Seq(Frame)
             /\ s[n].kind = "helper" /\ s[n] = Top(t) /\ s[n] \in Frame
             /\ s[n].nested \in BOOLEAN /\ s[n].ctx \in Contexts \cup {Null}
             /\ n > 1 => s[n - 1].kind # "exec"
<1> DEFINE s == stack[t]
           n == Len(stack[t])
<1>1. /\ s \in Seq(Frame) /\ n \in Nat /\ Depth(t) = n /\ n <= MaxDepth /\ WellFormed(s)
      /\ MaxDepth \in Nat
  BY StacksAreSequences, DepthAssumption DEF Inv, Counted, ShapeInv
<1>2. n > 0 /\ s[n].kind = "helper" /\ s[n] = Top(t)
  BY <1>1, EmptySeq DEF TopIs, Top, Depth
<1>3. s[n] \in Frame BY <1>1, <1>2, ElementOfSeq
<1>4. s[n].nested \in BOOLEAN /\ s[n].ctx \in Contexts \cup {Null}
  BY <1>2, <1>3 DEF Frame, Native
<1>5. n > 1 => s[n - 1].kind # "exec"
  <2> SUFFICES ASSUME n > 1, s[n - 1].kind = "exec" PROVE FALSE OBVIOUS
  <2>1. n - 1 \in 1..n /\ n - 1 < n /\ (n - 1) + 1 = n BY <1>1
  <2>2. s[n].kind = "native" BY <2>1, <1>1 DEF WellFormed, Alternates
  <2> QED BY <2>2, <1>2
<1> QED BY <1>1, <1>2, <1>3, <1>4, <1>5

\* No function is told anything by what is below it, and one that comes on top
\* was told nothing: the helper on top of a stack leaves no function there.
LEMMA NoFunctionAppears ==
  ASSUME Inv, NEW t \in Threads, TopIs(t, "helper"), Cuts(t, 1)
  PROVE  ErrorsReach'
<1> SUFFICES ASSUME NEW r \in Threads, TopIs(r, "exec")' PROVE (Top(r).told)' \notin Errors
  BY DEF ErrorsReach
<1> DEFINE s == stack[t]
           n == Len(stack[t])
<1>1. /\ n \in 1..MaxDepth /\ Depth(t) = n /\ (n > 1 => s[n - 1].kind # "exec")
  BY HelperOnTop
<1>2. Len(stack'[t]) = n - 1 /\ stack'[t] \in Seq(Frame)
      /\ \A i \in 1..(n-1) : Same(s[i], stack'[t][i])
  BY <1>1 DEF Cuts, Shrinks
<1>3. CASE r = t
  <2>1. n > 1 /\ stack'[t][n - 1].kind = "exec"
    BY <1>1, <1>2, <1>3, EmptySeq DEF TopIs, Top, Depth
  <2>2. n - 1 \in 1..(n-1) BY <2>1, <1>1
  <2>3. Same(s[n - 1], stack'[t][n - 1]) BY <2>2, <1>2
  <2> QED BY <2>1, <2>3, <1>1 DEF Same
<1>4. CASE r # t
  <2>1. stack'[r] = stack[r] BY <1>4 DEF Cuts, OnlyOf
  <2> QED BY <2>1 DEF Inv, ErrorsReach, TopIs, Top, Depth
<1> QED BY <1>3, <1>4

\* A context is given back: its helper was its only user.
LEMMA ReturnContextKeepsInv ==
  ASSUME Inv, NEW t \in Threads, TopIs(t, "helper"), Top(t).nested = FALSE,
         NEW c, c = Top(t).ctx, Return(t, c)
  PROVE  Inv'
<1> DEFINE s == stack[t]
           n == Len(stack[t])
<1>1. /\ n \in 1..MaxDepth /\ n - 1 \in 0..n /\ Depth(t) = n /\ s \in Seq(Frame)
      /\ s[n].kind = "helper" /\ s[n].nested = FALSE /\ s[n].ctx = c
      /\ c \in Contexts \cup {Null}
      /\ TypeInv /\ Counted /\ ShapeInv /\ LendingInv /\ MaxDepth \in Nat
  BY HelperOnTop, DepthAssumption DEF Inv
<1>2. /\ Popped(t) \in Seq(Frame) /\ Len(Popped(t)) = n - 1
      /\ \A i \in 1..(n-1) : Popped(t)[i] = s[i]
  BY <1>1, CutFrames DEF Popped
<1>3. /\ stack' = [stack EXCEPT ![t] = Popped(t)]
      /\ pool' = pool \cup ({c} \ {Null})
      /\ state' = [d \in Contexts |-> IF d = c THEN "uninitialized" ELSE state[d]]
      /\ saved' = saved /\ abort' = abort
  BY DEF Return
<1>4. /\ OnlyOf(t) /\ stack'[t] = Popped(t) /\ Depth(t)' = n - 1
      /\ Len(stack'[t]) = n - 1 /\ \A i \in 1..(n-1) : stack'[t][i] = s[i]
  BY <1>1, <1>2, <1>3, ReplacedStack DEF Depth
<1>5. Cuts(t, 1) BY SMTT(20), <1>1, <1>2, <1>4 DEF Cuts, Shrinks, Same
<1>6. Counted' /\ ShapeInv' BY <1>1, <1>5, CuttingIsCounted, StepsKeepShape
<1>7. c \in Contexts => /\ Borrows(s, n, c) /\ c \notin pool
                        /\ \A r \in Threads \ {t} : \A k : ~IsUser(stack[r], k, c)
                        /\ \A k : IsUser(s, k, c) => k = n
  <2> SUFFICES ASSUME c \in Contexts
               PROVE  /\ Borrows(s, n, c) /\ c \notin pool
                      /\ \A r \in Threads \ {t} : \A k : ~IsUser(stack[r], k, c)
                      /\ \A k : IsUser(s, k, c) => k = n
    OBVIOUS
  <2>1. Borrows(s, n, c) /\ IsUser(s, n, c) BY <1>1 DEF Borrows, IsUser
  <2>2. c \notin pool BY <2>1, <1>1, UsersAreOnOneThread
  <2>3. \A r \in Threads \ {t} : \A k : ~IsUser(stack[r], k, c)
    BY <2>1, <1>1, OthersDoNotUse
  <2>4. ASSUME NEW k, IsUser(s, k, c) PROVE k = n
    <3>1. n <= k BY <2>1, <2>4, <1>1, UsersAreOnOneThread
    <3>2. k \in 1..n BY <2>4 DEF IsUser
    <3> QED BY <3>1, <3>2, <1>1
  <2> QED BY <2>1, <2>2, <2>3, <2>4
<1>8. FocusOn(t, c)
  <2>1. ASSUME NEW i \in 1..Depth(t)
        PROVE  \/ i <= Depth(t) - 1 /\ stack'[t][i] = stack[t][i]
               \/ stack[t][i].kind = "native"
               \/ IsUser(stack[t], i, c)
    <3>1. CASE i = n BY <3>1, <1>1 DEF IsUser
    <3>2. CASE i \in 1..(n-1) BY <3>2, <1>1, <1>4
    <3> QED BY <3>1, <3>2, <1>1
  <2>2. \A d \in Contexts \ {c} : \A i \in 1..MaxDepth :
            /\ IsUser(stack'[t], i, d) <=> IsUser(stack[t], i, d)
            /\ IsUser(stack[t], i, d) => stack'[t][i] = stack[t][i]
    BY <2>1, <1>5, CutFocus
  <2> QED BY <2>2, <1>1, <1>3, <1>4, <1>7 DEF FocusOn
<1>9. c \in Contexts => \A k : ~IsUser(stack'[t], k, c)
  <2> SUFFICES ASSUME c \in Contexts, NEW k, IsUser(stack'[t], k, c) PROVE FALSE OBVIOUS
  <2>1. k \in 1..(n-1) /\ IsUser(s, k, c) BY <1>1, <1>4 DEF IsUser
  <2> QED BY <2>1, <1>1, <1>7
<1>10. ResultInv' /\ ToldInv' /\ AbortInv' /\ IdleInv'
  <2>1. c \in Contexts => ResultAt(t, c)' BY <1>9 DEF ResultAt
  <2>2. c \in Contexts => ToldAt(t, c)' BY <1>9 DEF ToldAt, IsExec, IsUser
  <2>3. c \notin abort' /\ abort' \subseteq Contexts
    <3> SUFFICES ASSUME c \in abort PROVE FALSE BY <1>1, <1>3 DEF TypeInv
    <3>1. c \in Contexts BY <1>1 DEF TypeInv
    <3>2. PICK r \in Threads : \E k \in 1..Depth(r) : IsExec(stack[r], k) /\ stack[r][k].ctx = c
      BY DEF Inv, AbortInv
    <3>3. PICK k \in 1..Depth(r) : IsExec(stack[r], k) /\ stack[r][k].ctx = c BY <3>2
    <3>4. IsUser(stack[r], k, c) BY <3>3 DEF IsExec, IsUser
    <3>5. r = t /\ k = n BY <3>1, <3>4, <1>7
    <3> QED BY <3>3, <3>5, <1>1 DEF IsExec
  <2>4. /\ c \in pool' => state'[c] = "uninitialized"
        /\ \A d \in pool' \ {c} : d \in pool
    BY <1>1, <1>3, NullAssumption DEF TypeInv
  <2> QED BY <1>6, <1>8, <2>1, <2>2, <2>3, <2>4, FocusKeepsOthers
<1>11. BalanceInv'
  <2>1. \A d \in Contexts, i \in 1..MaxDepth : Nests(stack'[t], i, d) <=> Nests(s, i, d)
    <3> SUFFICES ASSUME NEW d \in Contexts, NEW i \in 1..MaxDepth
                 PROVE  Nests(stack'[t], i, d) <=> Nests(s, i, d)
      OBVIOUS
    <3>1. CASE i \in 1..(n-1) BY <3>1, <1>1, <1>4 DEF Nests
    <3>2. CASE i >= n BY <3>2, <1>1, <1>4 DEF Nests
    <3> QED BY <3>1, <3>2, <1>1
  <2> QED BY <2>1, <1>3, <1>4, SameNested
<1>12. LendingInv'
  <2>1. ASSUME NEW d \in Contexts, NEW i \in 1..MaxDepth
        PROVE  Borrows(stack'[t], i, d) <=> Borrows(s, i, d) /\ i # n
    <3>1. CASE i \in 1..(n-1) BY <3>1, <1>1, <1>4 DEF Borrows
    <3>2. CASE i >= n BY <3>2, <1>1, <1>4 DEF Borrows
    <3> QED BY <3>1, <3>2, <1>1
  <2>2. \A r \in Threads \ {t} : stack'[r] = stack[r] BY <1>4 DEF OnlyOf
  <2>3. \A r \in Threads, d \in Contexts, i \in 1..MaxDepth :
          Borrows(stack'[r], i, d) => Borrows(stack[r], i, d)
    BY <2>1, <2>2
  <2>4. \A r \in Threads, d \in Contexts, i \in 1..MaxDepth : d # c =>
          (Borrows(stack'[r], i, d) <=> Borrows(stack[r], i, d))
    <3>1. \A d \in Contexts : d # c => ~Borrows(s, n, d) BY <1>1 DEF Borrows
    <3> QED BY <3>1, <2>1, <2>2
  <2>5. c \in Contexts => \A r \in Threads, i \in 1..MaxDepth : ~Borrows(stack'[r], i, c)
    <3> SUFFICES ASSUME c \in Contexts, NEW r \in Threads, NEW i \in 1..MaxDepth,
                        Borrows(stack'[r], i, c)
                 PROVE  FALSE
      OBVIOUS
    <3>1. Borrows(stack[r], i, c) /\ Borrows(s, n, c) BY <2>3, <1>7
    <3>2. r = t /\ i = n BY <3>1, <1>1 DEF LendingInv
    <3> QED BY <3>2, <2>1
  <2>6. \A d \in Contexts : d # c => (d \in pool' <=> d \in pool) BY <1>3
  <2>7. c \in Contexts => c \in pool' BY <1>3, NullAssumption
  <2> QED BY <2>3, <2>4, <2>5, <2>6, <2>7, <1>1 DEF LendingInv
<1>13. ErrorsReach' BY <1>5, NoFunctionAppears
<1>14. TypeInv'
  <2>1. state' \in [Contexts -> States] BY <1>1, <1>3 DEF TypeInv, States
  <2> QED BY <2>1, <1>1, <1>3, <1>4 DEF TypeInv, OnlyOf
<1> QED BY <1>6, <1>10, <1>11, <1>12, <1>13, <1>14 DEF Inv

\* A nested call is over: the function around it is the last user of the
\* context again, and knows an error that is set on it.
LEMMA PopStateKeepsInv ==
  ASSUME Inv, NEW t \in Threads, TopIs(t, "helper"), Top(t).nested = TRUE,
         NEW c, c = Top(t).ctx, PopState(t, c)
  PROVE  Inv'
<1> DEFINE s == stack[t]
           n == Len(stack[t])
<1>1. /\ n \in 1..MaxDepth /\ n - 1 \in 0..n /\ Depth(t) = n /\ s \in Seq(Frame)
      /\ s[n].kind = "helper" /\ s[n].nested = TRUE /\ s[n].ctx = c
      /\ TypeInv /\ Counted /\ ShapeInv /\ LendingInv /\ WellFormed(s) /\ MaxDepth \in Nat
  BY HelperOnTop, DepthAssumption DEF Inv, ShapeInv
<1>2. PICK e \in 1..(n-1) : /\ IsExec(s, e) /\ s[e].ctx = c
                            /\ NoExec(s, e, n) /\ NoUser(s, e, n, c)
  BY <1>1 DEF WellFormed, NestsInCaller
<1>3. /\ e \in 1..n /\ e < n /\ s[e] \in Frame /\ s[e].kind = "exec" /\ c \in Contexts
      /\ s[e].told \in Errors \cup {"none", "lost"}
      /\ IsUser(s, e, c) /\ IsUser(s, n, c)
  <2>1. e \in 1..n /\ e < n /\ s[e].kind = "exec" BY <1>1, <1>2 DEF IsExec
  <2>2. s[e] \in Frame BY <2>1, <1>1, ElementOfSeq
  <2>3. c \in Contexts /\ s[e].told \in Errors \cup {"none", "lost"}
    BY <2>1, <2>2, <1>2 DEF Frame, Native
  <2> QED BY <2>1, <2>2, <2>3, <1>1, <1>2 DEF IsUser
<1>4. Innermost(t) = e
  <2>1. NoExec(s, e, n + 1)
    <3> SUFFICES ASSUME NEW k \in 1..n, e < k, s[k].kind = "exec" PROVE FALSE
      BY <1>1 DEF NoExec
    <3>1. k # n BY <1>1
    <3> QED BY <3>1, <1>1, <1>2 DEF NoExec
  <2>2. e \in Execs(t) BY <1>1, <1>3 DEF Execs
  <2> QED BY <2>1, <2>2, <1>1, <1>2, InnermostIsLast
<1>a. PICK err : err = IF Top(t).propagate THEN state[c] ELSE "none" OBVIOUS
<1>b. PICK rest : rest = Popped(t) OBVIOUS
<1>c. PICK x : x = IF err \in Errors THEN err ELSE rest[e].told OBVIOUS
<1>d. PICK u : u = WithTold(rest, e, x) OBVIOUS
<1>5. /\ stack' = [stack EXCEPT ![t] = u]
      /\ saved' = [saved EXCEPT ![c] = @ - 1]
      /\ state' = [state EXCEPT ![c] = IF err = "exception" THEN "exception" ELSE "active"]
      /\ abort' = IF err = "aborted" THEN abort \cup {c} ELSE abort
      /\ pool' = pool
  BY <1>4, <1>a, <1>b, <1>c, <1>d DEF PopState, Told, WithTold
<1>6. /\ rest \in Seq(Frame) /\ Len(rest) = n - 1
      /\ \A k \in 1..(n-1) : rest[k] = s[k]
  BY <1>1, <1>b, CutFrames DEF Popped
<1>7. x \in Errors \cup {"none", "lost"} /\ (err \notin Errors => x = s[e].told)
  BY <1>2, <1>3, <1>6, <1>c
<1>8. /\ u \in Seq(Frame) /\ Len(u) = n - 1
      /\ \A k \in 1..(n-1) : Same(s[k], u[k]) /\ (k # e => u[k] = s[k])
      /\ u[e].told = x
  <2>1. IsExec(rest, e) BY <1>2, <1>3, <1>6 DEF IsExec
  <2>2. /\ u \in Seq(Frame) /\ Len(u) = Len(rest)
        /\ \A k \in 1..Len(rest) : Same(rest[k], u[k]) /\ (k # e => u[k] = rest[k])
        /\ u[e].told = x
    <3>1. rest \in Seq(Frame) /\ x \in Errors \cup {"none", "lost"} BY <1>6, <1>7
    <3> HIDE DEF n
    <3> QED BY <3>1, <2>1, <1>d, TellFrame
  <2> QED BY <2>2, <1>6
<1>9. /\ OnlyOf(t) /\ stack'[t] = u /\ Depth(t)' = n - 1 /\ Len(stack'[t]) = n - 1
      /\ \A k \in 1..(n-1) : Same(s[k], stack'[t][k]) /\ (k # e => stack'[t][k] = s[k])
  BY <1>1, <1>5, <1>8, ReplacedStack DEF Depth
<1>10. Cuts(t, 1) BY <1>1, <1>8, <1>9 DEF Cuts, Shrinks
<1>11. Counted' /\ ShapeInv' BY <1>1, <1>10, CuttingIsCounted, StepsKeepShape
<1>12. /\ c \notin pool /\ c \notin pool'
       /\ state'[c] = IF err = "exception" THEN "exception" ELSE "active"
  BY <1>1, <1>3, <1>5, UsersAreOnOneThread DEF TypeInv
<1>13. FocusOn(t, c)
  <2>1. ASSUME NEW i \in 1..Depth(t)
        PROVE  \/ i <= Depth(t) - 1 /\ stack'[t][i] = stack[t][i]
               \/ stack[t][i].kind = "native"
               \/ IsUser(stack[t], i, c)
    <3>1. CASE i = n BY <3>1, <1>3
    <3>2. CASE i = e BY <3>2, <1>3
    <3>3. CASE i \in 1..(n-1) /\ i # e
      <4>1. i <= n - 1 /\ stack'[t][i] = s[i] BY <3>3, <1>1, <1>9
      <4> QED BY <4>1, <1>1
    <3> QED BY <3>1, <3>2, <3>3, <1>1
  <2>2. \A d \in Contexts \ {c} : \A i \in 1..MaxDepth :
            /\ IsUser(stack'[t], i, d) <=> IsUser(stack[t], i, d)
            /\ IsUser(stack[t], i, d) => stack'[t][i] = stack[t][i]
    BY <2>1, <1>10, CutFocus
  <2>3. \A r \in Threads \ {t} : \A k : ~IsUser(stack[r], k, c)
    BY <1>1, <1>3, OthersDoNotUse
  <2> QED BY <2>2, <2>3, <1>1, <1>3, <1>5, <1>9 DEF FocusOn, TypeInv
<1>14. \A k \in 1..(n-1) : /\ IsUser(stack'[t], k, c) <=> IsUser(s, k, c)
                           /\ IsUser(stack'[t], k, c) => k <= e
  <2>1. ASSUME NEW k \in 1..(n-1) PROVE IsUser(stack'[t], k, c) <=> IsUser(s, k, c)
    BY SMTT(20), <1>1, <1>9 DEF IsUser, Same
  <2>2. ASSUME NEW k \in 1..(n-1), IsUser(s, k, c) PROVE k <= e
    <3>1. k \in 1..n /\ k < n BY <1>1
    <3>2. ~(e < k) BY <3>1, <2>2, <1>1, <1>2 DEF NoUser
    <3> QED BY <3>1, <3>2, <1>3
  <2> QED BY <2>1, <2>2
<1>15. /\ e \in 1..Depth(t)' /\ IsExec(stack'[t], e) /\ stack'[t][e].ctx = c
       /\ IsUser(stack'[t], e, c)
  BY <1>2, <1>3, <1>9, <1>14 DEF Same, IsExec, IsUser
<1>16. ResultAt(t, c)'
  <2> SUFFICES ASSUME NEW i \in 1..(n-1), IsUser(stack'[t], i, c),
                      stack'[t][i].kind = "helper",
                      \A j \in 1..(n-1) : IsUser(stack'[t], j, c) => j <= i
               PROVE  FALSE
    BY <1>9 DEF ResultAt
  <2>1. e <= i /\ i <= e BY <1>9, <1>14, <1>15
  <2>2. i = e BY <2>1, <1>3
  <2> QED BY <2>2, <1>15 DEF IsExec
<1>17. ToldAt(t, c)'
  <2> SUFFICES ASSUME NEW i \in 1..(n-1), IsExec(stack'[t], i), stack'[t][i].ctx = c
               PROVE  /\ stack'[t][i].told = "exception" =>
                          /\ state'[c] = "exception"
                          /\ \A j \in 1..(n-1) : i < j => ~IsUser(stack'[t], j, c)
                      /\ stack'[t][i].told = "aborted" =>
                          /\ c \in abort'
                          /\ \A j \in 1..(n-1) :
                               i < j /\ IsUser(stack'[t], j, c)
                                 => stack'[t][j].kind = "helper"
    BY <1>9 DEF ToldAt
  <2>1. /\ i \in 1..n /\ IsExec(s, i) /\ s[i].ctx = c /\ n \in 1..n /\ i < n
        /\ s[i].told # "exception"
        /\ s[i].told = "aborted" =>
             /\ c \in abort
             /\ \A j \in 1..n : i < j /\ IsUser(s, j, c) => s[j].kind = "helper"
    <3>1. i \in 1..n /\ IsExec(s, i) /\ s[i].ctx = c /\ n \in 1..n /\ i < n
      BY <1>1, <1>9 DEF Same, IsExec
    <3> QED BY <3>1, <1>1, <1>3 DEF Inv, ToldInv, ToldAt
  <2>2. CASE i = e
    <3>1. stack'[t][i].told = x BY <2>2, <1>8, <1>9
    <3>2. \A j \in 1..(n-1) : i < j => ~IsUser(stack'[t], j, c) BY <2>2, <1>3, <1>14
    <3>3. x = "exception" => state'[c] = "exception"
      BY <2>1, <2>2, <1>7, <1>12, <1>c DEF Errors
    <3>4. x = "aborted" => c \in abort' BY <2>1, <2>2, <1>5, <1>7, <1>c DEF Errors
    <3> QED BY <3>1, <3>2, <3>3, <3>4
  <2>3. CASE i # e
    <3>1. i <= e BY <2>1, <1>1, <1>2, <1>14, <1>15 DEF NoExec, IsExec, IsUser
    <3>2. i < e BY <3>1, <2>1, <2>3, <1>3
    <3>3. s[i].told # "aborted" BY <3>2, <2>1, <1>3
    <3> QED BY <3>3, <2>1, <2>3, <1>9
  <2> QED BY <2>2, <2>3
<1>18. ResultInv' /\ ToldInv' /\ AbortInv' /\ IdleInv'
  <2>1. state'[c] # "suspended" /\ abort' \subseteq Contexts
    BY <1>1, <1>3, <1>5, <1>12 DEF TypeInv
  <2>2. \A d \in pool' \ {c} : d \in pool BY <1>5
  <2> QED BY <1>11, <1>12, <1>13, <1>15, <1>16, <1>17, <2>1, <2>2, FocusKeepsOthers
<1>19. BalanceInv'
  <2> DEFINE old == <<t, n>>
  <2>1. ASSUME NEW d \in Contexts, NEW i \in 1..MaxDepth
        PROVE  Nests(stack'[t], i, d) <=> Nests(s, i, d) /\ i # n
    <3>1. CASE i \in 1..(n-1)
      <4>1. Same(s[i], stack'[t][i]) /\ i \in 1..Len(s) /\ i \in 1..Len(stack'[t]) /\ i # n
        BY <3>1, <1>1, <1>9
      <4> QED BY <4>1 DEF Nests, Same
    <3>2. CASE i >= n BY <3>2, <1>1, <1>9 DEF Nests
    <3> QED BY <3>1, <3>2, <1>1
  <2>2. \A r \in Threads, d \in Contexts, i \in 1..MaxDepth :
          Nests(stack'[r], i, d) <=> Nests(stack[r], i, d) /\ ~(r = t /\ i = n)
    BY <2>1, <1>9 DEF OnlyOf
  <2>3. NestedIn(stack', c) = NestedIn(stack, c) \ {old}
    BY <2>2, <1>3 DEF NestedIn
  <2>4. old \in NestedIn(stack, c) BY <1>1 DEF NestedIn, Nests
  <2>5. Cardinality(NestedIn(stack', c)) = saved[c] - 1
    <3>1. saved[c] = Cardinality(NestedIn(stack, c)) /\ IsFiniteSet(NestedIn(stack, c))
      BY <1>1, <1>3, NestedAreFinite DEF Inv, BalanceInv
    <3> QED BY <3>1, <2>3, <2>4, FS_RemoveElement
  <2>6. \A d \in Contexts \ {c} : NestedIn(stack', d) = NestedIn(stack, d)
    <3>1. \A d \in Contexts \ {c} : ~Nests(s, n, d) BY <1>1 DEF Nests
    <3> QED BY <3>1, <2>2 DEF NestedIn
  <2>7. \A d \in Contexts \ {c} : Cardinality(NestedIn(stack', d)) = saved[d]
    BY <2>6, Zenon DEF Inv, BalanceInv
  <2> QED BY <2>5, <2>7, <1>1, <1>3, <1>5 DEF BalanceInv, TypeInv
<1>20. LendingInv'
  <2>1. \A d \in Contexts, i \in 1..MaxDepth : Borrows(stack'[t], i, d) <=> Borrows(s, i, d)
    <3> SUFFICES ASSUME NEW d \in Contexts, NEW i \in 1..MaxDepth
                 PROVE  Borrows(stack'[t], i, d) <=> Borrows(s, i, d)
      OBVIOUS
    <3>1. CASE i \in 1..(n-1)
      <4>1. Same(s[i], stack'[t][i]) /\ i \in 1..Len(s) /\ i \in 1..Len(stack'[t])
        BY SMTT(20), <3>1, <1>1, <1>9
      <4> QED BY <4>1 DEF Borrows, Same
    <3>2. CASE i >= n BY <3>2, <1>1, <1>9 DEF Borrows
    <3> QED BY <3>1, <3>2, <1>1
  <2> QED BY <2>1, <1>5, <1>9, SameBorrowers
<1>21. ErrorsReach' BY <1>10, NoFunctionAppears
<1>22. TypeInv' BY <1>1, <1>3, <1>5, <1>9 DEF TypeInv, OnlyOf, States, Outcomes, Errors
<1> QED BY <1>11, <1>18, <1>19, <1>20, <1>21, <1>22 DEF Inv

\* Both destructors of a helper.
LEMMA DestroyHelperKeepsInv ==
  ASSUME Inv, NEW t \in Threads, DestroyHelper(t)
  PROVE  Inv'
<1>1. TopIs(t, "helper") BY DEF DestroyHelper
<1>2. Top(t).nested \in BOOLEAN BY <1>1, HelperOnTop
<1>3. PICK c : c = Top(t).ctx OBVIOUS
<1>4. CASE Top(t).nested = TRUE
  <2>1. PopState(t, c) BY <1>3, <1>4 DEF DestroyHelper
  <2> QED BY <2>1, <1>1, <1>3, <1>4, PopStateKeepsInv
<1>5. CASE Top(t).nested = FALSE
  <2>1. Return(t, c) BY <1>3, <1>5 DEF DestroyHelper
  <2> QED BY <2>1, <1>1, <1>3, <1>5, ReturnContextKeepsInv
<1> QED BY <1>2, <1>4, <1>5

\* Native code returns; an error that was set on the context ends its caller.
LEMMA NativeReturnsKeepsInv ==
  ASSUME Inv, NEW t \in Threads, NativeReturns(t)
  PROVE  Inv'
<1> DEFINE s == stack[t]
           n == Len(stack[t])
<1>a. PICK c : c = CurrentContext(t) OBVIOUS
<1>1. TopIs(t, "native") BY DEF NativeReturns
<1>2. CASE state[c] = "exception"
  <2>1. Ends(t, Popped(t), "exception") BY <1>2, <1>a DEF NativeReturns
  <2> QED BY <2>1, <1>1, NativeEndsKeepsInv DEF Outcomes, Errors
<1>3. CASE state[c] # "exception" /\ c \in abort
  <2>1. Ends(t, Popped(t), "aborted") BY <1>3, <1>a DEF NativeReturns
  <2> QED BY <2>1, <1>1, NativeEndsKeepsInv DEF Outcomes, Errors
<1>4. CASE state[c] # "exception" /\ c \notin abort
  <2>1. /\ stack' = [stack EXCEPT ![t] = Popped(t)]
        /\ state' = state /\ saved' = saved /\ abort' = abort /\ pool' = pool
    BY <1>4, <1>a DEF NativeReturns
  <2>2. /\ TypeInv /\ Counted /\ ShapeInv /\ LendingInv /\ s \in Seq(Frame) /\ n \in Nat
        /\ Depth(t) = n /\ n > 1 /\ IsExec(s, n - 1) /\ s[n - 1].ctx = c /\ c \in Contexts
        /\ n - 1 \in 1..n /\ n - 1 \in 0..n
    BY <1>1, <1>a, StacksAreSequences, NativeOnTop DEF Inv
  <2>3. /\ Popped(t) \in Seq(Frame) /\ Len(Popped(t)) = n - 1
        /\ \A k \in 1..(n-1) : Popped(t)[k] = s[k]
    BY <2>2, CutFrames DEF Popped
  <2>4. s[n - 1].told \notin Errors
    BY <2>2, <1>4 DEF Inv, ToldInv, ToldAt, Errors
  <2>5. Popped(t)[n - 1].told \notin Errors BY <2>2, <2>3, <2>4
  <2>6. \A k \in 1..(n-1) : Same(s[k], Popped(t)[k]) /\ (k # n - 1 => Popped(t)[k] = s[k])
    BY <2>3 DEF Same
  <2> HIDE DEF n
  <2> QED BY <2>1, <2>2, <2>3, <2>5, <2>6, <1>1, <1>a, ReturnKeepsInv
<1> QED BY <1>2, <1>3, <1>4

\* The function that called native code catches the exception.
LEMMA ScriptCatchesKeepsInv ==
  ASSUME Inv, NEW t \in Threads, ScriptCatches(t)
  PROVE  Inv'
<1> DEFINE s == stack[t]
           n == Len(stack[t])
<1>a. PICK c : c = CurrentContext(t) OBVIOUS
<1>b. PICK rest : rest = Popped(t) OBVIOUS
<1>1. TopIs(t, "native") BY DEF ScriptCatches
<1>2. /\ TypeInv /\ Counted /\ ShapeInv /\ LendingInv /\ s \in Seq(Frame) /\ n \in Nat
      /\ Depth(t) = n /\ n > 1 /\ IsExec(s, n - 1) /\ Innermost(t) = n - 1
      /\ n - 1 \in 1..n /\ n - 1 \in 0..n
  BY <1>1, <1>a, StacksAreSequences, NativeOnTop DEF Inv
<1>3. /\ rest \in Seq(Frame) /\ Len(rest) = n - 1
      /\ \A k \in 1..(n-1) : rest[k] = s[k]
  BY <1>2, <1>b, CutFrames DEF Popped
<1>c. PICK u : u = WithTold(rest, n - 1, "none") OBVIOUS
<1>4. /\ stack' = [stack EXCEPT ![t] = u]
      /\ state' = [state EXCEPT ![c] = "active"]
      /\ saved' = saved /\ abort' = abort /\ pool' = pool
  BY <1>2, <1>a, <1>b, <1>c DEF ScriptCatches, WithTold
<1>5. IsExec(rest, n - 1) BY <1>2, <1>3 DEF IsExec
<1>6. /\ u \in Seq(Frame) /\ Len(u) = Len(rest)
      /\ \A k \in 1..Len(rest) : Same(rest[k], u[k]) /\ (k # n - 1 => u[k] = rest[k])
      /\ u[n - 1].told \notin Errors
  BY <1>3, <1>5, <1>c, TellFrame DEF Errors
<1>7. \A k \in 1..(n-1) : Same(s[k], u[k]) /\ (k # n - 1 => u[k] = s[k]) BY <1>3, <1>6
<1> HIDE DEF n
<1> QED BY <1>1, <1>2, <1>3, <1>4, <1>6, <1>7, <1>a, ReturnKeepsInv

\* Every step keeps the invariant.
LEMMA StepKeepsInv ==
  ASSUME Inv, NEW t \in Threads, NativeStep(t) \/ ScriptStep(t)
  PROVE  Inv'
<1>1. ASSUME NEW c \in Contexts \cup {Null}, RequestContext(t, c) \/ ReuseFallback(t, c)
      PROVE  Inv'
  BY <1>1, RequestContextKeepsInv DEF ReuseFallback
<1>2. ASSUME NEW p \in BOOLEAN, ReuseNested(t, p) PROVE Inv'
  BY <1>2, ReuseNestedKeepsInv
<1>3. ASSUME DestroyHelper(t) PROVE Inv' BY <1>3, DestroyHelperKeepsInv
<1>4. ASSUME NEW i \in 1..MaxDepth, ScriptInvoke(t, i) PROVE Inv'
  BY <1>4, ScriptInvokeKeepsInv
<1>5. ASSUME NEW i \in 1..MaxDepth, Resume(t, i) PROVE Inv' BY <1>5, ResumeKeepsInv
<1>6. ASSUME NativeRaises(t) PROVE Inv'
  <2>a. PICK c : c = CurrentContext(t) OBVIOUS
  <2>1. /\ TopIs(t, "native") /\ state[c] = "active"
        /\ state' = [state EXCEPT ![c] = "exception"]
        /\ stack' = stack /\ saved' = saved /\ abort' = abort /\ pool' = pool
    BY <1>6, <2>a DEF NativeRaises
  <2> QED BY <2>a, <2>1, MarkKeepsInv
<1>7. ASSUME NativeAborts(t) PROVE Inv'
  <2>a. PICK c : c = CurrentContext(t) OBVIOUS
  <2>1. /\ TopIs(t, "native") /\ state[c] = "active"
        /\ abort' = abort \cup {c}
        /\ stack' = stack /\ state' = state /\ saved' = saved /\ pool' = pool
    BY <1>7, <2>a DEF NativeAborts
  <2> QED BY <2>a, <2>1, MarkKeepsInv
<1>8. ASSUME NativeSuspends(t) PROVE Inv'
  <2>1. TopIs(t, "native") /\ Ends(t, Popped(t), "suspended") BY <1>8 DEF NativeSuspends
  <2> QED BY <2>1, NativeEndsKeepsInv DEF Outcomes
<1>9. ASSUME NativeReturns(t) PROVE Inv' BY <1>9, NativeReturnsKeepsInv
<1>10. ASSUME ScriptReturns(t) \/ ScriptThrows(t) PROVE Inv'
  <2>1. PICK outcome \in Outcomes : TopIs(t, "exec") /\ Ends(t, stack[t], outcome)
    BY <1>10 DEF ScriptReturns, ScriptThrows, Outcomes, Errors
  <2> QED BY <2>1, ScriptEndsKeepsInv
<1>11. ASSUME ScriptCalls(t) PROVE Inv' BY <1>11, ScriptCallsKeepsInv
<1>12. ASSUME ScriptCatches(t) PROVE Inv' BY <1>12, ScriptCatchesKeepsInv
<1> QED BY <1>1, <1>2, <1>3, <1>4, <1>5, <1>6, <1>7, <1>8, <1>9, <1>10, <1>11, <1>12
        DEF NativeStep, ScriptStep

\* At first the stacks are empty and every context is in the pool.
LEMMA InitEstablishesInv == Init => Inv
<1> SUFFICES ASSUME Init PROVE Inv OBVIOUS
<1>1. /\ \A t \in Threads : stack[t] = <<>> /\ Len(stack[t]) = 0 /\ Depth(t) = 0
      /\ stack \in [Threads -> Seq(Frame)]
  <2>1. <<>> \in Seq(Frame) /\ Len(<<>>) = 0 BY EmptySeq
  <2> QED BY <2>1 DEF Init, Depth
<1>2. Frames = {} BY <1>1 DEF Frames
<1>3. Counted
  <2>1. IsFiniteSet(Frames) /\ Cardinality(Frames) = 0 BY <1>2, FS_EmptySet
  <2> QED BY <2>1, <1>1, DepthAssumption DEF Counted
<1>4. ShapeInv
  <2> SUFFICES ASSUME NEW t \in Threads PROVE WellFormed(stack[t]) BY DEF ShapeInv
  <2>1. HasInnermost(stack[t])
    <3> SUFFICES ASSUME NEW i \in 0..0
                 PROVE  \E e \in 0..i : /\ e = 0 \/ IsExec(stack[t], e)
                                        /\ NoExec(stack[t], e, i + 1)
      BY <1>1 DEF HasInnermost
    <3>1. 0 \in 0..i /\ NoExec(stack[t], 0, i + 1) BY <1>1 DEF NoExec
    <3> QED BY <3>1
  <2>2. /\ Alternates(stack[t]) /\ CallsReturn(stack[t])
        /\ NestsInCaller(stack[t]) /\ Borrowed(stack[t])
    BY <1>1 DEF Alternates, CallsReturn, NestsInCaller, Borrowed
  <2> QED BY <2>1, <2>2 DEF WellFormed
<1>5. LendingInv BY <1>1 DEF LendingInv, Borrows, Init
<1>6. IdleInv /\ AbortInv BY DEF IdleInv, AbortInv, Init
<1>7. BalanceInv
  <2>1. \A c : NestedIn(stack, c) = {} BY <1>1 DEF NestedIn, Nests
  <2>2. \A c : Cardinality(NestedIn(stack, c)) = 0 BY <2>1, FS_EmptySet
  <2> QED BY <2>2 DEF BalanceInv, Init
<1>8. ResultInv /\ ToldInv /\ ErrorsReach
  BY <1>1 DEF ResultInv, ResultAt, ToldInv, ToldAt, ErrorsReach, TopIs
<1>9. TypeInv BY <1>1 DEF TypeInv, Init, States
<1> QED BY <1>3, <1>4, <1>5, <1>6, <1>7, <1>8, <1>9 DEF Inv

\* The invariant is one.
LEMMA InvIsInvariant == Spec => []Inv
<1>1. Inv /\ [Next]_vars => Inv'
  <2> SUFFICES ASSUME Inv, [Next]_vars PROVE Inv' OBVIOUS
  <2>1. CASE Next BY <2>1, StepKeepsInv DEF Next
  <2>2. CASE UNCHANGED vars
    <3>1. stack' = stack /\ state' = state /\ saved' = saved /\ abort' = abort /\ pool' = pool
      BY <2>2 DEF vars
    <3>2. TypeInv' /\ Counted' /\ ShapeInv' /\ LendingInv'
      BY <3>1 DEF Inv, TypeInv, Counted, Frames, Depth, ShapeInv, LendingInv
    <3>3. IdleInv' /\ AbortInv' /\ BalanceInv'
      BY <3>1 DEF Inv, IdleInv, AbortInv, BalanceInv, Depth
    <3>4. ResultInv' /\ ToldInv' /\ ErrorsReach'
      BY <3>1 DEF Inv, ResultInv, ResultAt, ToldInv, ToldAt, ErrorsReach, TopIs, Top, Depth
    <3> QED BY <3>2, <3>3, <3>4 DEF Inv
  <2> QED BY <2>1, <2>2
<1> QED BY <1>1, InitEstablishesInv, PTL DEF Spec

(***************************************************************************)
(* The properties.                                                         *)
(***************************************************************************)

\* A helper is counted for a context when its stack has it.
LEMMA HelpersAreFrames ==
  ASSUME Inv, NEW c \in Contexts, NEW t \in Threads, NEW i \in 1..MaxDepth
  PROVE  /\ <<t, i>> \in Helpers(c, FALSE) <=> Borrows(stack[t], i, c)
         /\ <<t, i>> \in Helpers(c, TRUE) <=> Nests(stack[t], i, c)
<1>1. Depth(t) = Len(stack[t]) /\ Depth(t) \in Nat BY StacksAreSequences DEF Inv
<1>2. <<t, i>> \in Frames <=> i \in 1..Depth(t) BY <1>1 DEF Frames
<1> QED BY <1>1, <1>2 DEF Helpers, Users, Borrows, Nests

\* The values stay in their types.
LEMMA InvGivesTypes == Inv => TypeOK
<1> SUFFICES ASSUME Inv PROVE TypeOK OBVIOUS
<1>1. saved \in [Contexts -> 0..MaxDepth]
  <2>1. \A c \in Contexts : saved[c] \in 0..MaxDepth
    BY NestedAreFinite DEF Inv, BalanceInv
  <2> QED BY <2>1 DEF Inv, TypeInv
<1> QED BY <1>1 DEF Inv, TypeInv, Counted, TypeOK

\* A context is lent to one helper or in the pool, and used by one thread.
LEMMA InvGivesLentOnce == Inv => LentOnce
<1> SUFFICES ASSUME Inv, NEW c \in Contexts
             PROVE  /\ Cardinality(Helpers(c, FALSE)) = IF c \in pool THEN 0 ELSE 1
                    /\ \A t, u \in Threads :
                         Users(t, c) # {} /\ Users(u, c) # {} => t = u /\ c \notin pool
  BY DEF LentOnce
<1>0. TypeInv /\ Counted /\ ShapeInv /\ LendingInv BY DEF Inv
<1>1. \A f \in Helpers(c, FALSE) : \E t \in Threads, i \in 1..MaxDepth : f = <<t, i>>
  BY DEF Helpers, Frames
<1>2. ASSUME NEW t \in Threads, NEW u \in Threads, Users(t, c) # {}, Users(u, c) # {}
      PROVE  t = u /\ c \notin pool
  <2>1. PICK i : i \in Users(t, c) BY <1>2
  <2>2. PICK j : j \in Users(u, c) BY <1>2
  <2>3. IsUser(stack[t], i, c) /\ IsUser(stack[u], j, c)
    BY <2>1, <2>2 DEF Users, IsUser, Depth
  <2> QED BY <2>3, <1>0, UsersAreOnOneThread
<1>3. CASE c \in pool
  <2>1. Helpers(c, FALSE) = {}
    <3> SUFFICES ASSUME NEW f \in Helpers(c, FALSE) PROVE FALSE OBVIOUS
    <3>1. PICK t \in Threads, i \in 1..MaxDepth : f = <<t, i>> BY <1>1
    <3>2. Borrows(stack[t], i, c) BY <3>1, HelpersAreFrames
    <3> QED BY <3>2, <1>0, <1>3 DEF LendingInv
  <2>2. Cardinality(Helpers(c, FALSE)) = 0 BY <2>1, FS_EmptySet
  <2> QED BY <2>2, <1>3, <1>2
<1>4. CASE c \notin pool
  <2>1. PICK t \in Threads, i \in 1..MaxDepth : Borrows(stack[t], i, c)
    BY <1>0, <1>4 DEF LendingInv
  <2>2. <<t, i>> \in Helpers(c, FALSE) BY <2>1, HelpersAreFrames
  <2>3. ASSUME NEW f \in Helpers(c, FALSE) PROVE f = <<t, i>>
    <3>1. PICK u \in Threads, j \in 1..MaxDepth : f = <<u, j>> BY <1>1
    <3>2. Borrows(stack[u], j, c) BY <3>1, HelpersAreFrames
    <3>3. u = t /\ j = i BY <3>2, <2>1, <1>0 DEF LendingInv
    <3> QED BY <3>1, <3>3
  <2>4. Helpers(c, FALSE) = {<<t, i>>} BY <2>2, <2>3
  <2>5. Cardinality(Helpers(c, FALSE)) = 1 BY <2>4, FS_Singleton
  <2> QED BY <2>5, <1>4, <1>2
<1> QED BY <1>3, <1>4

\* The states saved are those of the nested helpers.
LEMMA InvGivesStatesBalance == Inv => StatesBalance
<1> SUFFICES ASSUME Inv, NEW c \in Contexts
             PROVE  saved[c] = Cardinality(Helpers(c, TRUE))
  BY DEF StatesBalance
<1>1. \A f \in Helpers(c, TRUE) : \E t \in Threads, i \in 1..MaxDepth : f = <<t, i>>
  BY DEF Helpers, Frames
<1>2. \A t \in Threads, i \in 1..MaxDepth :
         <<t, i>> \in Helpers(c, TRUE) <=> <<t, i>> \in NestedIn(stack, c)
  BY HelpersAreFrames DEF NestedIn
<1>3. \A f \in NestedIn(stack, c) : \E t \in Threads, i \in 1..MaxDepth : f = <<t, i>>
  BY DEF NestedIn
<1>4. Helpers(c, TRUE) = NestedIn(stack, c)
  <2>1. ASSUME NEW f \in Helpers(c, TRUE) PROVE f \in NestedIn(stack, c)
    <3>1. PICK t \in Threads, i \in 1..MaxDepth : f = <<t, i>> BY <1>1
    <3> QED BY <3>1, <1>2
  <2>2. ASSUME NEW f \in NestedIn(stack, c) PROVE f \in Helpers(c, TRUE)
    <3>1. PICK t \in Threads, i \in 1..MaxDepth : f = <<t, i>> BY <1>3
    <3> QED BY <3>1, <1>2
  <2> QED BY <2>1, <2>2
<1> QED BY <1>4 DEF Inv, BalanceInv

\* The last helper that uses a context knows its state.
LEMMA InvGivesResultsStay == Inv => ResultsStay
<1> SUFFICES ASSUME Inv, NEW t \in Threads, NEW c \in Contexts, NEW i \in Users(t, c),
                    stack[t][i].kind = "helper", \A j \in Users(t, c) : j <= i
             PROVE  state[c] = IF stack[t][i].last = "none" THEN "uninitialized"
                                                            ELSE stack[t][i].last
  BY DEF ResultsStay
<1>1. \A j : j \in Users(t, c) <=> IsUser(stack[t], j, c) BY DEF Users, IsUser, Depth
<1>2. i \in 1..Depth(t) BY DEF Users
<1> QED BY <1>1, <1>2 DEF Inv, ResultInv, ResultAt

(***************************************************************************)
(* The variables keep their types, and no more states are saved than there *)
(* are frames: request_context, reuse_active_context and script_invoke     *)
(* leave a context in a state AngelScript knows.                           *)
(***************************************************************************)
THEOREM TypeCorrect == Spec => []TypeOK
BY InvIsInvariant, InvGivesTypes, PTL

(***************************************************************************)
(* However calls nest and end, a context is borrowed by one helper at a    *)
(* time, is back in the pool when that helper is gone, and is never used   *)
(* by two threads: the destructors of request_context and                  *)
(* reuse_active_context give back exactly what was requested.              *)
(***************************************************************************)
THEOREM ContextsAreLentOnce == Spec => []LentOnce
BY InvIsInvariant, InvGivesLentOnce, PTL

(***************************************************************************)
(* Every PushState of reuse_active_context is undone once by the helper's  *)
(* destructor, whatever ended the calls in between.                        *)
(***************************************************************************)
THEOREM EveryStateIsPopped == Spec => []StatesBalance
BY InvIsInvariant, InvGivesStatesBalance, PTL

(***************************************************************************)
(* A script_invoke_result, which reads the context when it is asked, shows *)
(* the outcome of its own call as long as its helper makes no other.       *)
(***************************************************************************)
THEOREM ResultsAreKept == Spec => []ResultsStay
BY InvIsInvariant, InvGivesResultsStay, PTL

(***************************************************************************)
(* A function never goes on after pop_state_impl reported it an error,     *)
(* unless it caught the exception or a later call in its context took the  *)
(* abort back.                                                             *)
(***************************************************************************)
THEOREM ErrorsReachCallers == Spec => []ErrorsReach
<1>1. Inv => ErrorsReach BY DEF Inv
<1> QED BY <1>1, InvIsInvariant, PTL
=============================================================================
