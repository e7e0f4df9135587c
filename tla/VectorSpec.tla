------------------------------ MODULE VectorSpec ------------------------------
(***************************************************************************)
(* What doc/container.rst promises of small_vector: modifiers like those   *)
(* of std::vector.  A vector is a sequence; its buffer, its capacity and   *)
(* the small size optimisation do not show.  Positions count from 0.       *)
(***************************************************************************)
EXTENDS Integers, Sequences

CONSTANTS
    Vecs,       \* the vectors
    Values,     \* what an element can be; disjoint from the integers
    Zero,       \* the default element
    Absent      \* no vector is constructed here

VARIABLES
    seq,        \* the elements of each vector
    call        \* the last call, with its arguments and how it ended

vars == <<seq, call>>

Live(v) == seq[v] # Absent

Size(v) == Len(seq[v])

(* n copies of x.                                                           *)
Copies(n, x) == [i \in 1..n |-> x]

Head0(s, n) == SubSeq(s, 1, n)              \* the elements before position n

Tail0(s, n) == SubSeq(s, n + 1, Len(s))     \* those from position n on

(* n elements from position start, or as many as there are.                 *)
Clamp(s, start, n) == IF start + n > Len(s) THEN Len(s) - start ELSE n

Reversed(s) == [i \in 1..Len(s) |-> s[Len(s) + 1 - i]]

(* An argument is a value, or the position of an element whose value is     *)
(* meant.                                                                   *)
Meant(v, a) == IF a \in Values THEN a ELSE seq[v][a + 1]

Becomes(c, s) == seq' = [seq EXCEPT ![c.on] = s] /\ c.out = "ok"

Throws(c) == UNCHANGED seq /\ c.out = "out_of_range"

Init == /\ seq = [v \in Vecs |-> Absent]
        /\ call = [op |-> "none"]

(* Each operator below says what the call c does, by the name of the call.  *)

Ctor(c) == /\ c.op = "ctor"
           /\ ~Live(c.on)
           /\ Becomes(c, c.arg)

CopyCtor(c) == /\ c.op = "copy_ctor"
               /\ ~Live(c.on) /\ Live(c.arg)
               /\ Becomes(c, seq[c.arg])

(* The new vector has the elements; what is left in the other is unspecified *)
(* but still a vector.                                                       *)
MoveCtor(c) ==
    /\ c.op = "move_ctor"
    /\ ~Live(c.on) /\ Live(c.arg)
    /\ seq'[c.arg] \in Seq(Values)
    /\ seq' = [seq EXCEPT ![c.on] = seq[c.arg], ![c.arg] = seq'[c.arg]]
    /\ c.out = "ok"

Dtor(c) == c.op = "dtor" /\ Live(c.on) /\ Becomes(c, Absent)

(* reserve and shrink_to_fit.                                               *)
Relocate(c) == c.op \in {"reserve", "shrink_to_fit"}
               /\ UNCHANGED seq /\ c.out = "ok"

Resize(c) ==
    /\ c.op = "resize"
    /\ Live(c.on)
    /\ LET s == seq[c.on]
       IN  Becomes(c, IF c.count <= Len(s)
                      THEN Head0(s, c.count)
                      ELSE s \o Copies(c.count - Len(s), Zero))

(* push_back, emplace_back and their _n forms too: inserts at the end.      *)
Insert(c) ==
    /\ c.op = "insert"
    /\ Live(c.on)
    /\ LET s == seq[c.on]
       IN  IF c.at > Len(s) THEN Throws(c)
           ELSE Becomes(c, Head0(s, c.at) \o Copies(c.count, Meant(c.on, c.arg))
                             \o Tail0(s, c.at))

PopBack(c) ==
    /\ c.op = "pop_back"
    /\ Live(c.on)
    /\ Becomes(c, IF Size(c.on) = 0 THEN <<>>
                                    ELSE Head0(seq[c.on], Size(c.on) - 1))

EraseFrom(c) ==
    LET s == seq[c.on]
    IN  Becomes(c, Head0(s, c.at) \o Tail0(s, c.at + Clamp(s, c.at, c.count)))

Erase(c) == /\ c.op = "erase"
            /\ Live(c.on)
            /\ IF c.at >= Size(c.on) THEN Throws(c) ELSE EraseFrom(c)

Clear(c) == c.op = "clear" /\ Live(c.on) /\ Becomes(c, <<>>)

(* An iterator range of count elements; nothing happens when it is empty or *)
(* upside down.                                                             *)
EraseRange(c) ==
    /\ c.op = "erase_range"
    /\ Live(c.on)
    /\ IF c.count <= 0 THEN Becomes(c, seq[c.on]) ELSE EraseFrom(c)

Assign(c) ==
    /\ c.op = "assign"
    /\ Live(c.on)
    /\ IF c.at >= Size(c.on) THEN Throws(c)
       ELSE Becomes(c, [seq[c.on] EXCEPT ![c.at + 1] = Meant(c.on, c.arg)])

(* The element moves to the end, where it can be erased.                    *)
Remove(c) ==
    /\ c.op = "remove"
    /\ Live(c.on)
    /\ LET s == seq[c.on]
       IN  IF c.at >= Len(s) THEN Throws(c)
           ELSE Becomes(c, Head0(s, c.at) \o Tail0(s, c.at + 1) \o <<s[c.at + 1]>>)

Reverse(c) ==
    /\ c.op = "reverse"
    /\ Live(c.on)
    /\ LET s == seq[c.on]
           stop == c.at + Clamp(s, c.at, c.count)
       IN  IF c.at >= Len(s) THEN Throws(c)
           ELSE Becomes(c, Head0(s, c.at)
                             \o Reversed(SubSeq(s, c.at + 1, stop))
                             \o Tail0(s, stop))

(* Memory ran out: the vectors are as before the call.                      *)
Refused(c) ==
    /\ c.op \in {"ctor", "copy_ctor", "reserve", "shrink_to_fit", "resize", "insert"}
    /\ c.out = "bad_alloc"
    /\ UNCHANGED seq

Does(c) ==
    \/ Ctor(c) \/ CopyCtor(c) \/ MoveCtor(c) \/ Dtor(c)
    \/ Relocate(c) \/ Resize(c) \/ Clear(c)
    \/ Insert(c) \/ PopBack(c)
    \/ Erase(c) \/ EraseRange(c) \/ Assign(c) \/ Remove(c) \/ Reverse(c)
    \/ Refused(c)

Next == Does(call')

Spec == Init /\ [][Next]_vars
=============================================================================
