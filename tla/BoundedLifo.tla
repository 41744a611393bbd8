----------------------------- MODULE BoundedLifo -----------------------------
(***************************************************************************)
(* What a bounded stack promises: at most Capacity elements, the last one  *)
(* in is the first one out, and a pop of an empty stack yields nothing.    *)
(***************************************************************************)
EXTENDS Naturals, SequencesExt

CONSTANTS Values,     \* the elements
          Nothing,    \* std::nullopt
          Capacity

VARIABLES contents, popped

vars == <<contents, popped>>

Init == contents = <<>> /\ popped = Nothing

Push(v) ==
    /\ Len(contents) < Capacity
    /\ contents' = Append(contents, v)
    /\ UNCHANGED popped

Pop ==
    /\ contents # <<>>
    /\ popped' = Last(contents)
    /\ contents' = Front(contents)

PopEmpty ==
    /\ contents = <<>>
    /\ popped' = Nothing
    /\ UNCHANGED contents

\* The stack goes, with what is in it.
Discard == contents' = <<>> /\ UNCHANGED popped

Next == (\E v \in Values : Push(v)) \/ Pop \/ PopEmpty \/ Discard

Spec == Init /\ [][Next]_vars

=============================================================================
