----------------------------- MODULE BoundedFifo -----------------------------
(***************************************************************************)
(* What a bounded queue promises: at most Capacity elements, in at the     *)
(* back and out at the front, and a pop of an empty queue yields nothing.  *)
(***************************************************************************)
EXTENDS Naturals, Sequences

CONSTANTS Values,     \* the elements
          Nothing,    \* std::nullopt
          Capacity

VARIABLES contents, popped

vars == <<contents, popped>>

Init == contents = <<>> /\ popped = Nothing

Push(v) ==
    /\ Len(contents) < Capacity
    /\ contents' = Append(contents, v)
    /\ UNCHANGED popped

Pop ==
    /\ contents # <<>>
    /\ popped' = Head(contents)
    /\ contents' = Tail(contents)

PopEmpty ==
    /\ contents = <<>>
    /\ popped' = Nothing
    /\ UNCHANGED contents

\* The queue goes, with what is in it.
Discard == contents' = <<>> /\ UNCHANGED popped

Next == (\E v \in Values : Push(v)) \/ Pop \/ PopEmpty \/ Discard

Spec == Init /\ [][Next]_vars

=============================================================================
