---------------------------- MODULE PriorityQueue ----------------------------
(***************************************************************************)
(* What a bounded priority queue promises: a key that is pushed is put in  *)
(* a place that is free, and pop empties one that holds a least key.       *)
(***************************************************************************)
EXTENDS Integers

CONSTANTS Keys,       \* integers
          Nothing,    \* std::nullopt, not a key
          Places      \* where the queue can hold a key

VARIABLES held,       \* the key in each place, or Nothing
          popped      \* the result of the last pop

vars == <<held, popped>>

Taken == {x \in Places : held[x] # Nothing}

Init == held = [x \in Places |-> Nothing] /\ popped = Nothing

Push(k) ==
    /\ \E x \in Places \ Taken : held' = [held EXCEPT ![x] = k]
    /\ UNCHANGED popped

Pop ==
    \E x \in Taken :
       /\ \A y \in Taken : held[x] <= held[y]
       /\ popped' = held[x]
       /\ held' = [held EXCEPT ![x] = Nothing]

PopEmpty ==
    /\ Taken = {}
    /\ popped' = Nothing
    /\ UNCHANGED held

Next == (\E k \in Keys : Push(k)) \/ Pop \/ PopEmpty

Spec == Init /\ [][Next]_vars

=============================================================================
