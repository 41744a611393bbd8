----------------------------- MODULE RingQueue -----------------------------
(***************************************************************************)
(* container::queue (include/container/queue.hpp): a ring of cap_ slots of *)
(* which one stays free, so that head_ = tail_ means empty.  allocate_queue *)
(* obtains n slots but makes the ring one slot larger (lines 92-95): what  *)
(* the queue does with the last index is what it would do if that slot     *)
(* existed, and AllocatedSlots says which slots do.                        *)
(***************************************************************************)
EXTENDS Integers, Sequences

CONSTANTS Values,     \* the elements a user pushes
          Nothing,    \* std::nullopt
          Raw,        \* a slot that no element was ever constructed in
          N,          \* the constructor's argument n
          Trivial     \* std::is_trivially_destructible<T>

ASSUME SizeAssumption == N \in Nat
ASSUME ValuesAssumption == {Nothing, Raw} \cap Values = {} /\ Nothing # Raw
ASSUME TrivialAssumption == Trivial \in BOOLEAN

VARIABLES head,     \* head_
          tail,     \* tail_
          slots,    \* Q_: what the bytes of every slot hold
          live,     \* the slots that hold a constructed element
          freed,    \* the destructor has run
          popped    \* the result of the last pop()

vars == <<head, tail, slots, live, freed, popped>>

Cap == N + 1                        \* cap_
Slots == 0..N
AllocatedSlots == 0..N - 1          \* what alloc::allocate(alloc_, n) returned

Init ==
    /\ head = 0 /\ tail = 0
    /\ slots = [i \in Slots |-> Raw]
    /\ live = {}
    /\ freed = FALSE
    /\ popped = Nothing

Empty == head = tail

After(i) == (i + 1) % Cap

Full == After(tail) = head

\* BOOST_ASSERT_MSG(!full(), ...): a user pushes onto a queue that is not full.
Push(v) ==
    /\ ~freed
    /\ ~Full
    /\ slots' = [slots EXCEPT ![tail] = v]
    /\ live' = live \cup {tail}
    /\ tail' = After(tail)
    /\ UNCHANGED <<head, freed, popped>>

PopEmpty ==
    /\ ~freed
    /\ Empty
    /\ popped' = Nothing
    /\ UNCHANGED <<head, tail, slots, live, freed>>

\* What a slot may hold after its element was destroyed: a destructor that is
\* trivial leaves the bytes alone, any other may leave anything.
Remains(v) == IF Trivial THEN {v} ELSE Values \cup {Raw}

\* Mutation: the last element pushed is taken.
Pop_Newest ==
    LET last == IF tail = 0 THEN N ELSE tail - 1
    IN  /\ ~freed
        /\ ~Empty
        /\ popped' = slots[last]
        /\ live' = live \ {last}
        /\ tail' = last
        /\ UNCHANGED <<head, slots, freed>>

\* front is a reference into the slot: the element is destroyed before
\* make_optional copies it.
Pop ==
    /\ ~freed
    /\ ~Empty
    /\ \E v \in Remains(slots[head]) :
          /\ slots' = [slots EXCEPT ![head] = v]
          /\ popped' = v
    /\ live' = live \ {head}
    /\ head' = After(head)
    /\ UNCHANGED <<tail, freed>>

\* Mutation: what has wrapped around the end is not destroyed.
Walked_Unwrapped == head..(tail - 1)

\* The slots destroy_queue walks over.
Walked == IF head <= tail THEN head..(tail - 1)
          ELSE (0..(tail - 1)) \cup (head..N)

\* The destructor; a type with a trivial one is not walked over.
Free ==
    /\ ~freed
    /\ freed' = TRUE
    /\ live' = IF Trivial THEN {} ELSE live \ Walked
    /\ head' = 0 /\ tail' = 0
    /\ slots' = [i \in Slots |-> Raw]
    /\ UNCHANGED popped

Next == (\E v \in Values : Push(v)) \/ PopEmpty \/ Pop \/ Free

Spec == Init /\ [][Next]_vars

----------------------------------------------------------------------------
(* Properties *)

\* Every variable holds a value of its type: the indices stay in the ring.
TypeOK ==
    /\ head \in Slots
    /\ tail \in Slots
    /\ slots \in [Slots -> Values \cup {Raw}]
    /\ live \in SUBSET Slots
    /\ freed \in BOOLEAN
    /\ popped \in Values \cup {Nothing, Raw}

\* The destructor meets every element that pop() has not destroyed, and
\* nothing else: wherever the ring has wrapped to, what destroy_queue (lines
\* 66-79) walks over are the slots that hold a constructed element.
WalksOverTheLive == live = Walked

Size == IF head <= tail THEN tail - head ELSE tail - head + Cap

\* The elements of the queue, front first.
Contents == [i \in 1..Size |-> slots[(head + i - 1) % Cap]]

Fifo == INSTANCE BoundedFifo WITH contents <- Contents, Capacity <- N

\* The ring of a type with a trivial destructor is a first-in first-out queue
\* of at most n elements (lines 39-56).
ImplementsFifo == Fifo!Spec

\* Line 62: cap_ is the size of the buffer of Q ("キューQのバッファサイズ"),
\* so an index below cap_ is inside the buffer.
ConstructsInsideBuffer == live \subseteq AllocatedSlots

=============================================================================
