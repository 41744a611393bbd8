--------------------------- MODULE RingQueueProofs ---------------------------
(***************************************************************************)
(* Proofs about RingQueue, for any number of slots and any elements: the   *)
(* indices stay in the ring, the destructor walks over exactly what is     *)
(* left, and the ring is a bounded first-in first-out queue.               *)
(***************************************************************************)
EXTENDS RingQueue, SequenceTheorems, TLAPS

\* An index that has run past the end of the ring comes back at its start.
LEMMA Wrap ==
    \A j \in 0..(N + N + 1) : j % Cap = IF j <= N THEN j ELSE j - (N + 1)
<1> SUFFICES ASSUME NEW j \in 0..(N + N + 1)
             PROVE  j % Cap = IF j <= N THEN j ELSE j - (N + 1)
    OBVIOUS
<1> N \in Nat BY SizeAssumption
<1>1. CASE j <= N
    BY <1>1, SMT DEF Cap
<1>2. CASE j > N
  <2>1. j = 1 * (N + 1) + (j - (N + 1))
      OBVIOUS
  <2>2. j - (N + 1) \in 0..N
      BY <1>2
  <2> QED BY <1>2, <2>1, <2>2, SMT DEF Cap
<1> QED BY <1>1, <1>2

LEMMA AfterWraps ==
    ASSUME NEW i \in Slots
    PROVE  /\ After(i) = IF i = N THEN 0 ELSE i + 1
           /\ After(i) \in Slots
<1> N \in Nat BY SizeAssumption
<1> DEFINE j == i + 1
<1>1. j \in 0..(N + N + 1)
    BY DEF Slots
<1>2. j % Cap = IF j <= N THEN j ELSE j - (N + 1)
  <2> HIDE DEF j
  <2> QED BY <1>1, Wrap, Zenon
<1>3. After(i) = IF j <= N THEN j ELSE j - (N + 1)
    BY <1>2, Zenon DEF After
<1>4. i \in 0..N /\ Cap = N + 1
    BY DEF Slots, Cap
<1> QED BY <1>3, <1>4 DEF Slots

----------------------------------------------------------------------------
(* The indices and the live slots *)

IInv == TypeOK /\ WalksOverTheLive

LEMMA InitIInv == Init => IInv
<1> SUFFICES ASSUME Init
             PROVE  IInv
    OBVIOUS
<1>1. TypeOK
  <2>1. freed \in BOOLEAN
      BY Zenon DEF Init
  <2> QED BY <2>1, SizeAssumption DEF Init, TypeOK, Slots
<1>2. Walked = {}
    BY SizeAssumption DEF Init, Walked
<1> QED BY <1>1, <1>2 DEF Init, IInv, WalksOverTheLive

LEMMA NextIInv == IInv /\ [Next]_vars => IInv'
<1> SUFFICES ASSUME IInv, [Next]_vars
             PROVE  IInv'
    OBVIOUS
<1> USE SizeAssumption DEF IInv, TypeOK
<1>1. ASSUME NEW v \in Values, Push(v)
      PROVE  IInv'
  <2>1. TypeOK'
      BY <1>1, AfterWraps DEF Push
  <2>2. After(tail) = (IF tail = N THEN 0 ELSE tail + 1)
      BY AfterWraps
  <2>3. tail' = (IF tail = N THEN 0 ELSE tail + 1) /\ tail' # head /\ head' = head
      BY <1>1, <2>2 DEF Push, Full
  <2>4. live' = live \cup {tail}
      BY <1>1 DEF Push
  <2>5. Walked' = Walked \cup {tail}
      BY <2>3 DEF Walked, Slots
  <2> QED BY <2>1, <2>4, <2>5 DEF WalksOverTheLive
<1>2. CASE PopEmpty
    BY <1>2 DEF PopEmpty, WalksOverTheLive, Walked
<1>3. CASE Pop
  <2>1. TypeOK'
      BY <1>3, AfterWraps DEF Pop, Remains
  <2>2. After(head) = (IF head = N THEN 0 ELSE head + 1)
      BY AfterWraps
  <2>3. head' = (IF head = N THEN 0 ELSE head + 1) /\ tail # head /\ tail' = tail
      BY <1>3, <2>2 DEF Pop, Empty
  <2>4. live' = live \ {head}
      BY <1>3 DEF Pop
  <2>5. Walked' = Walked \ {head}
      BY <2>3 DEF Walked, Slots
  <2> QED BY <2>1, <2>4, <2>5 DEF WalksOverTheLive
<1>4. CASE Free
  <2>1. live' = {}
      BY <1>4 DEF Free, WalksOverTheLive
  <2>2. Walked' = {}
      BY <1>4 DEF Free, Walked
  <2> QED BY <1>4, <2>1, <2>2 DEF Free, WalksOverTheLive, Slots
<1>5. CASE UNCHANGED vars
    BY <1>5 DEF vars, WalksOverTheLive, Walked
<1> QED BY <1>1, <1>2, <1>3, <1>4, <1>5 DEF Next

\* head_ and tail_ stay in the ring and every variable in its type, for any n.
THEOREM TypeCorrect == Spec => []TypeOK
<1>1. IInv => TypeOK
    BY DEF IInv
<1> QED BY InitIInv, NextIInv, <1>1, PTL DEF Spec

\* destroy_queue (lines 66-79) destroys what pop() has not, and nothing twice.
THEOREM DestructorCorrect == Spec => []WalksOverTheLive
<1>1. IInv => WalksOverTheLive
    BY DEF IInv
<1> QED BY InitIInv, NextIInv, <1>1, PTL DEF Spec

----------------------------------------------------------------------------
(* The ring implements the queue *)

\* The slot of the i-th element.
Slot(i) == IF head + i - 1 <= N THEN head + i - 1 ELSE head + i - 1 - (N + 1)

Layout ==
    /\ Size \in 0..N
    /\ Contents = [i \in 1..Size |-> slots[Slot(i)]]
    /\ \A i \in 1..Size : Slot(i) \in Slots /\ Contents[i] = slots[Slot(i)]

LEMMA ContentsBySlot == TypeOK => Layout
<1> SUFFICES ASSUME TypeOK
             PROVE  Layout
    OBVIOUS
<1> USE SizeAssumption DEF TypeOK, Slots
<1>1. Size \in 0..N
    BY DEF Size, Cap
<1>2. \A i \in 1..Size : (head + i - 1) % Cap = Slot(i)
  <2> SUFFICES ASSUME NEW i \in 1..Size
               PROVE  (head + i - 1) % Cap = Slot(i)
      OBVIOUS
  <2> DEFINE j == head + i - 1
  <2>1. j \in 0..(N + N + 1)
      BY <1>1
  <2>2. j % Cap = IF j <= N THEN j ELSE j - (N + 1)
    <3> HIDE DEF j
    <3> QED BY <2>1, Wrap, Zenon
  <2>3. Slot(i) = IF j <= N THEN j ELSE j - (N + 1)
      BY DEF Slot
  <2> HIDE DEF j
  <2>4. j % Cap = Slot(i)
      BY <2>2, <2>3
  <2> QED BY <2>4 DEF j
<1>3. \A i \in 1..Size : Slot(i) \in Slots
    BY <1>1 DEF Slot, Cap
<1>4. Contents = [i \in 1..Size |-> slots[Slot(i)]]
    BY <1>2 DEF Contents
<1> QED BY <1>1, <1>3, <1>4, Zenon DEF Layout

LEMMA ContentsBySlotNext == TypeOK' => Layout'
BY ContentsBySlot, PTL

ContentsTyped == Contents \in Seq(Values \cup {Raw}) /\ Len(Contents) = Size

LEMMA ContentsType == TypeOK => ContentsTyped
<1> SUFFICES ASSUME TypeOK
             PROVE  ContentsTyped
    OBVIOUS
<1>1. /\ Size \in 0..N
      /\ Contents = [i \in 1..Size |-> slots[Slot(i)]]
      /\ \A i \in 1..Size : slots[Slot(i)] \in Values \cup {Raw}
    BY ContentsBySlot DEF TypeOK, Layout
<1> QED BY <1>1, SizeAssumption DEF ContentsTyped

LEMMA ContentsTypeNext == TypeOK' => ContentsTyped'
BY ContentsType, PTL

\* A sequence with one more element at the end, or one fewer at the start.
LEMMA AppendElement ==
    ASSUME NEW S, NEW f \in Seq(S), NEW g \in Seq(S), NEW v \in S,
           Len(g) = Len(f) + 1,
           \A i \in 1..Len(f) : g[i] = f[i],
           g[Len(f) + 1] = v
    PROVE  g = Append(f, v)
<1>1. /\ Append(f, v) \in Seq(S) /\ Len(Append(f, v)) = Len(f) + 1
      /\ \A i \in 1..Len(f) : Append(f, v)[i] = f[i]
      /\ Append(f, v)[Len(f) + 1] = v
    OBVIOUS
<1> QED BY <1>1, SeqEqual

LEMMA TailElements ==
    ASSUME NEW S, NEW f \in Seq(S), NEW g \in Seq(S),
           Len(f) = Len(g) + 1,
           \A i \in 1..Len(g) : g[i] = f[i + 1]
    PROVE  f # <<>> /\ Head(f) = f[1] /\ g = Tail(f)
<1>1. f # <<>> /\ Head(f) = f[1]
    OBVIOUS
<1>2. /\ Tail(f) \in Seq(S) /\ Len(Tail(f)) = Len(g)
      /\ \A i \in 1..Len(g) : Tail(f)[i] = f[i + 1]
    BY <1>1, HeadTailProperties
<1>3. g = Tail(f)
    BY <1>2, SeqEqual
<1> QED BY <1>1, <1>3

LEMMA PushRefines ==
    ASSUME IInv, NEW v \in Values, Push(v)
    PROVE  Fifo!Push(v)
<1> USE SizeAssumption DEF IInv
<1>1. TypeOK'
    BY AfterWraps DEF Push, TypeOK
<1>2. After(tail) = (IF tail = N THEN 0 ELSE tail + 1)
    BY AfterWraps DEF TypeOK
<1>3. tail' = (IF tail = N THEN 0 ELSE tail + 1) /\ tail' # head /\ head' = head
    BY <1>2 DEF Push, Full, TypeOK
<1>4. Size' = Size + 1 /\ Size < N
    BY <1>3 DEF Size, Cap, TypeOK, Slots
<1>5. \A i \in 1..Size : Slot(i)' = Slot(i) /\ Slot(i) # tail
    BY <1>3 DEF Size, Slot, Cap, TypeOK, Slots
<1>6. \A i \in {Size + 1} : Slot(i)' = tail
    BY <1>3 DEF Size, Slot, Cap, TypeOK, Slots
<1>7. slots' = [slots EXCEPT ![tail] = v]
    BY DEF Push
<1>8. Layout /\ Layout'
    BY <1>1, ContentsBySlot, ContentsBySlotNext
<1>9. Contents' = Append(Contents, v)
  <2> DEFINE f == Contents  g == Contents'
  <2>1. f \in Seq(Values \cup {Raw}) /\ Len(f) = Size
      BY ContentsType DEF ContentsTyped
  <2>2. g \in Seq(Values \cup {Raw}) /\ Len(g) = Len(f) + 1
      BY <1>1, <1>4, <2>1, ContentsTypeNext DEF ContentsTyped
  <2>3. \A i \in 1..Len(f) : g[i] = f[i]
      BY <2>1, <1>4, <1>5, <1>7, <1>8 DEF TypeOK, Layout
  <2>4. g[Len(f) + 1] = v
    <3>1. \A i \in {Size + 1} : g[i] = slots'[tail]
        BY <1>4, <1>6, <1>8 DEF Layout
    <3> QED BY <2>1, <3>1, <1>7 DEF TypeOK
  <2>5. v \in Values \cup {Raw}
      OBVIOUS
  <2> HIDE DEF f, g
  <2>6. g = Append(f, v)
      BY <2>1, <2>2, <2>3, <2>4, <2>5, AppendElement
  <2> QED BY <2>6 DEF f, g
<1> QED BY <1>4, <1>9, ContentsType DEF ContentsTyped, TypeOK, Fifo!Push, Push

\* The front is taken; its bytes are still there if the destructor is trivial.
LEMMA PopRefines ==
    ASSUME IInv, Trivial, Pop
    PROVE  Fifo!Pop
<1> USE SizeAssumption DEF IInv
<1>1. TypeOK'
    BY AfterWraps DEF Pop, Remains, TypeOK
<1>2. After(head) = (IF head = N THEN 0 ELSE head + 1)
    BY AfterWraps DEF TypeOK
<1>3. head' = (IF head = N THEN 0 ELSE head + 1) /\ tail # head /\ tail' = tail
    BY <1>2 DEF Pop, Empty, TypeOK
<1>4. Size = Size' + 1 /\ Size' = Size - 1 /\ Size \in Nat \ {0}
    BY <1>3 DEF Size, Cap, TypeOK, Slots
<1>5. \A i \in 1..Size - 1 : Slot(i)' = Slot(i + 1)
    BY <1>3 DEF Size, Slot, Cap, TypeOK, Slots
<1>6. Slot(1) = head /\ 1 \in 1..Size
    BY <1>3 DEF Size, Slot, Cap, TypeOK, Slots
<1>7. slots' = slots /\ popped' = slots[head]
    BY DEF Pop, Remains, TypeOK
<1>8. Layout /\ Layout'
    BY <1>1, ContentsBySlot, ContentsBySlotNext
<1>9. Contents # <<>> /\ Head(Contents) = Contents[1] /\ Contents' = Tail(Contents)
  <2> DEFINE f == Contents  g == Contents'
  <2>1. /\ f \in Seq(Values \cup {Raw}) /\ Len(f) = Size
        /\ g \in Seq(Values \cup {Raw}) /\ Len(g) = Size'
      BY <1>1, ContentsType, ContentsTypeNext DEF ContentsTyped
  <2>2. Len(f) = Len(g) + 1
      BY <2>1, <1>4
  <2>3. \A i \in 1..Len(g) : g[i] = f[i + 1]
    <3>1. \A i \in 1..Size' : g[i] = slots[Slot(i)']
        BY <1>7, <1>8 DEF Layout
    <3>2. \A i \in 1..Size : f[i] = slots[Slot(i)]
        BY <1>8 DEF Layout
    <3>3. Size \in Nat /\ Len(g) = Size - 1
        BY <2>1, <1>4
    <3> HIDE DEF f, g
    <3>4. ASSUME NEW i \in 1..Len(g)
          PROVE  g[i] = f[i + 1]
      <4>1. i \in 1..Size' /\ i \in 1..Size - 1 /\ i + 1 \in 1..Size
          BY <2>1, <3>3
      <4>2. g[i] = slots[Slot(i)'] /\ f[i + 1] = slots[Slot(i + 1)]
          BY <3>1, <3>2, <4>1
      <4> QED BY <1>5, <4>1, <4>2
    <3> QED BY <3>4
  <2> HIDE DEF f, g
  <2>4. f # <<>> /\ Head(f) = f[1] /\ g = Tail(f)
      BY <2>1, <2>2, <2>3, TailElements
  <2> QED BY <2>4 DEF f, g
<1>10. Contents[1] = slots[head]
    BY <1>6, <1>8 DEF Layout
<1> QED BY <1>7, <1>9, <1>10 DEF Fifo!Pop

LEMMA StepRefines ==
    ASSUME IInv, Trivial, [Next]_vars
    PROVE  [Fifo!Next]_Fifo!vars
<1> USE DEF IInv
<1>1. ASSUME NEW v \in Values, Push(v)
      PROVE  Fifo!Next
    BY <1>1, PushRefines DEF Fifo!Next
<1>2. CASE PopEmpty
  <2>1. Contents = <<>> /\ Contents' = <<>>
    <3>1. Size = 0 /\ Size' = 0
        BY <1>2, SizeAssumption DEF PopEmpty, Empty, Size, TypeOK, Slots
    <3> QED BY <3>1 DEF Contents
  <2> QED BY <1>2, <2>1 DEF PopEmpty, Fifo!PopEmpty, Fifo!Next
<1>3. CASE Pop
    BY <1>3, PopRefines DEF Fifo!Next
<1>4. CASE Free
  <2>1. Contents' = <<>>
    <3>1. Size' = 0
        BY <1>4 DEF Free, Size
    <3> QED BY <3>1 DEF Contents
  <2> QED BY <1>4, <2>1 DEF Free, Fifo!Discard, Fifo!Next
<1>5. CASE UNCHANGED vars
    BY <1>5 DEF vars, Fifo!vars, Contents, Size
<1> QED BY <1>1, <1>2, <1>3, <1>4, <1>5 DEF Next

\* Whatever n is and wherever head_ and tail_ are, push() and pop() of a type
\* with a trivial destructor behave as those of a queue of at most n elements.
THEOREM RingIsFifo == ASSUME Trivial PROVE Spec => ImplementsFifo
<1>1. Init => Fifo!Init
  <2> SUFFICES ASSUME Init
               PROVE  Fifo!Init
      OBVIOUS
  <2>1. Size = 0
      BY DEF Init, Size
  <2>2. Contents = <<>>
      BY <2>1 DEF Contents
  <2> QED BY <2>2 DEF Init, Fifo!Init
<1>2. IInv /\ [Next]_vars => [Fifo!Next]_Fifo!vars
    BY StepRefines
<1> QED BY InitIInv, NextIInv, <1>1, <1>2, PTL DEF Spec, Fifo!Spec, ImplementsFifo

=============================================================================
