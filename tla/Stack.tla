-------------------------------- MODULE Stack --------------------------------
(***************************************************************************)
(* container::stack (include/container/stack.hpp): a buffer of cap_        *)
(* elements of which the first top_ are constructed.                       *)
(***************************************************************************)
EXTENDS Integers, Sequences

CONSTANTS Values,     \* the elements a user pushes
          Nothing,    \* std::nullopt
          Raw,        \* bytes that no element left
          N,          \* the constructor's argument n
          Trivial     \* std::is_trivially_destructible<T>

StackAssumption ==
    /\ N \in Nat
    /\ {Nothing, Raw} \cap Values = {} /\ Nothing # Raw
    /\ Trivial \in BOOLEAN

VARIABLES top,      \* top_
          S,        \* S_: what the bytes of every element hold
          live,     \* the indices that hold a constructed element
          freed,    \* the destructor has run
          popped    \* the result of the last pop()

vars == <<top, S, live, freed, popped>>

Slots == 0..N - 1

Init ==
    /\ top = 0
    /\ S = [x \in Slots |-> Raw]
    /\ live = {}
    /\ freed = FALSE
    /\ popped = Nothing

\* BOOST_ASSERT_MSG(!full(), ...): a user pushes onto a stack that is not full.
Push(v) ==
    /\ ~freed
    /\ top < N
    /\ S' = [S EXCEPT ![top] = v]
    /\ live' = live \cup {top}
    /\ top' = top + 1
    /\ UNCHANGED <<freed, popped>>

PopEmpty ==
    /\ ~freed
    /\ top = 0
    /\ popped' = Nothing
    /\ UNCHANGED <<top, S, live, freed>>

\* What an element leaves when it is destroyed: a trivial destructor leaves the
\* bytes alone, any other may leave anything.
Remains(v) == IF Trivial THEN {v} ELSE Values \cup {Raw}

\* Mutation: the element below is destroyed and returned.
Pop_Below ==
    /\ ~freed
    /\ top > 0
    /\ popped' = S[IF top > 1 THEN top - 2 ELSE 0]
    /\ live' = live \ {top - 1}
    /\ top' = top - 1
    /\ UNCHANGED <<S, freed>>

\* top is a reference: the element is destroyed before make_optional copies it.
Pop ==
    /\ ~freed
    /\ top > 0
    /\ \E v \in Remains(S[top - 1]) :
          /\ S' = [S EXCEPT ![top - 1] = v]
          /\ popped' = v
    /\ live' = live \ {top - 1}
    /\ top' = top - 1
    /\ UNCHANGED freed

\* The destructor: destroy_stack walks over S_[0], ..., S_[top_ - 1].
Free ==
    /\ ~freed
    /\ freed' = TRUE
    /\ live' = IF Trivial THEN {} ELSE live \ 0..top - 1
    /\ top' = 0
    /\ S' = [x \in Slots |-> Raw]
    /\ UNCHANGED popped

Next == (\E v \in Values : Push(v)) \/ PopEmpty \/ Pop \/ Free

Spec == Init /\ [][Next]_vars

----------------------------------------------------------------------------
(* Properties *)

\* Every variable holds a value of its type, and the elements below top_ are
\* those that are constructed, so that the destructor (lines 69-71) destroys
\* each once.
TypeOK ==
    /\ top \in 0..N
    /\ S \in [Slots -> Values \cup {Raw}]
    /\ live = 0..top - 1
    /\ freed \in BOOLEAN
    /\ popped \in Values \cup {Nothing, Raw}

Lifo == INSTANCE BoundedLifo
        WITH contents <- [x \in 1..top |-> S[x - 1]], Capacity <- N

\* A stack of a type with a trivial destructor is a last-in first-out stack of
\* at most n elements (lines 39-54).
ImplementsLifo == Lifo!Spec

=============================================================================
