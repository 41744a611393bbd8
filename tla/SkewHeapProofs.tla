--------------------------- MODULE SkewHeapProofs ---------------------------
(***************************************************************************)
(* Proofs about SkewHeap, for a pool of any size and any set of keys.      *)
(*                                                                         *)
(* The weights of the nodes are the solution of one equation for each.     *)
(* There is only one, as two of them would differ at a node of least       *)
(* weight; so it is enough to say how a step changes a solution, and no    *)
(* induction over the tree is needed.  Of AvlTreeProofs only the lemmas    *)
(* about powers and numbers are used.                                      *)
(***************************************************************************)
EXTENDS Containers, AvlTreeProofs, SequenceTheorems

\* KeptInTrees without what follows from its last part.
Trees ==
    /\ Heap!Tops \subseteq Heap!Kept
    /\ \A x \in Heap!Kept : /\ Heap!Children(x) \subseteq Heap!Kept
                            /\ Heap!Children(x) \cap Heap!Tops = {}
    /\ \A x, y \in Heap!Kept : Heap!Children(x) \cap Heap!Children(y) # {} => x = y
    /\ \A x \in Heap!Kept \ Heap!OnPath : pool[x].l = pool[x].r => pool[x].l = Heap!Null
    /\ \A C \in SUBSET Heap!Kept :
          Heap!Tops \subseteq C /\ (\A x \in C : Heap!Children(x) \subseteq C) => C = Heap!Kept

HeapInv == Heap!TypeOK /\ Trees /\ Heap!HeldOnce /\ Heap!HeapOrdered /\ Heap!RootIsLeast

----------------------------------------------------------------------------
(* Facts about the state                                                   *)

LEMMA HeapNumbers == HeapKeys \subseteq Int /\ Nothing \notin HeapKeys /\ HeapSize \in Nat \ {0}
BY ContainersAssumption DEF Heap!HeapAssumption

LEMMA SameCount ==
    \A T : (Heap!IsFiniteSet(T) <=> IsFiniteSet(T)) /\ Heap!Cardinality(T) = Cardinality(T)
BY DEF Heap!IsFiniteSet, IsFiniteSet, Heap!Cardinality, Cardinality

LEMMA NullIsNoNode == Heap!Null \notin Heap!Nodes
BY HeapNumbers DEF Heap!Null, Heap!Nodes

\* Every node that is kept is held or has a parent: the others are not reached.
LEMMA TreesAreKept == Trees => Heap!KeptInTrees
<1> SUFFICES ASSUME Trees PROVE Heap!KeptInTrees
    OBVIOUS
<1> DEFINE C == Heap!Tops \cup UNION {Heap!Children(x) : x \in Heap!Kept}
<1>1. /\ C \in SUBSET Heap!Kept /\ Heap!Tops \subseteq C
      /\ \A x \in C : Heap!Children(x) \subseteq C
    BY DEF Trees
<1>2. C = Heap!Kept
    BY <1>1 DEF Trees
<1>3. ASSUME NEW D \in SUBSET Heap!Kept,
             Heap!Tops \subseteq D, UNION {Heap!Children(x) : x \in D} \subseteq D
      PROVE  D = Heap!Kept
  <2>1. \A x \in D : Heap!Children(x) \subseteq D
      BY <1>3
  <2> QED BY <1>3, <2>1 DEF Trees
<1> QED BY <1>2, <1>3 DEF Trees, Heap!KeptInTrees

LEMMA NoPath == calls = <<>> => Heap!OnPath = {} /\ DOMAIN calls = {}
BY DEF Heap!OnPath

LEMMA CallsFacts ==
    ASSUME calls \in Seq(Heap!Nodes)
    PROVE  /\ DOMAIN calls = 1..Len(calls) /\ Len(calls) \in Nat
           /\ Heap!OnPath \subseteq Heap!Nodes /\ Heap!Null \notin Heap!OnPath
           /\ \A i \in 1..Len(calls) : calls[i] \in Heap!Nodes
<1>1. /\ DOMAIN calls = 1..Len(calls) /\ Len(calls) \in Nat
      /\ \A i \in 1..Len(calls) : calls[i] \in Heap!Nodes
    BY ElementOfSeq, LenProperties
<1> QED BY <1>1, NullIsNoNode DEF Heap!OnPath

\* A call puts its node in front of the path.
LEMMA PathExtended ==
    ASSUME calls \in Seq(Heap!Nodes), NEW x \in Heap!Nodes, calls' = <<x>> \o calls
    PROVE  /\ calls' \in Seq(Heap!Nodes) /\ DOMAIN calls' = 1..Len(calls) + 1
           /\ Len(calls') = Len(calls) + 1 /\ calls'[1] = x /\ \A i \in 1..Len(calls) : calls'[i + 1] = calls[i]
           /\ Heap!OnPath' = Heap!OnPath \cup {x}
<1>1. <<x>> \in Seq(Heap!Nodes) /\ Len(<<x>>) = 1 /\ <<x>>[1] = x
    OBVIOUS
<1>2. /\ DOMAIN calls = 1..Len(calls) /\ Len(calls) \in Nat
    BY CallsFacts
<1>3. {<<x>>, calls} \subseteq Seq(Heap!Nodes)
    BY <1>1
<1>4. /\ calls' \in Seq(Heap!Nodes) /\ Len(calls') = 1 + Len(calls)
      /\ \A i \in 1..1 + Len(calls) : calls'[i] = IF i <= 1 THEN <<x>>[i] ELSE calls[i - 1]
    BY <1>1, <1>3, ConcatProperties
<1>5. DOMAIN calls' = 1..Len(calls) + 1 /\ Len(calls') = Len(calls) + 1
    BY <1>2, <1>4
<1>6. calls'[1] = x
    BY <1>1, <1>2, <1>4
<1>7. ASSUME NEW i \in 1..Len(calls) PROVE calls'[i + 1] = calls[i]
  <2>1. i + 1 \in 1..1 + Len(calls) /\ ~(i + 1 <= 1) /\ (i + 1) - 1 = i
      BY <1>2
  <2> QED BY <1>4, <2>1
<1>8. Heap!OnPath' = Heap!OnPath \cup {x}
  <2>1. \A i \in 1..Len(calls) + 1 : i = 1 \/ (i - 1 \in 1..Len(calls) /\ i = (i - 1) + 1)
      BY <1>2
  <2>2. \A i \in 1..Len(calls) : i + 1 \in 1..Len(calls) + 1
      BY <1>2
  <2>3. 1 \in 1..Len(calls) + 1
      BY <1>2
  <2>4. Heap!OnPath' \subseteq Heap!OnPath \cup {x}
    <3> SUFFICES ASSUME NEW i \in DOMAIN calls' PROVE calls'[i] \in Heap!OnPath \cup {x}
        BY DEF Heap!OnPath
    <3>1. CASE i = 1
        BY <1>6, <3>1
    <3>2. CASE i # 1
      <4>1. i - 1 \in 1..Len(calls) /\ i = (i - 1) + 1
          BY <1>5, <2>1, <3>2
      <4>2. calls'[i] = calls[i - 1]
          BY <1>7, <4>1
      <4> QED BY <1>2, <4>1, <4>2 DEF Heap!OnPath
    <3> QED BY <3>1, <3>2
  <2>5. Heap!OnPath \cup {x} \subseteq Heap!OnPath'
    <3>1. \A i \in 1..Len(calls) : calls[i] \in Heap!OnPath'
        BY <1>5, <1>7, <2>2 DEF Heap!OnPath
    <3>2. x \in Heap!OnPath'
        BY <1>5, <1>6, <2>3 DEF Heap!OnPath
    <3> QED BY <1>2, <3>1, <3>2 DEF Heap!OnPath
  <2> QED BY <2>4, <2>5
<1> QED BY <1>4, <1>5, <1>6, <1>7, <1>8

\* A return takes it off again.
LEMMA PathShortened ==
    ASSUME calls \in Seq(Heap!Nodes), calls # <<>>, calls' = Tail(calls),
           \A i, j \in DOMAIN calls : calls[i] = calls[j] => i = j
    PROVE  /\ calls' \in Seq(Heap!Nodes) /\ DOMAIN calls' = 1..Len(calls) - 1
           /\ Head(calls) = calls[1] /\ 1 \in DOMAIN calls /\ Head(calls) \in Heap!Nodes
           /\ \A i \in 1..Len(calls) - 1 : calls'[i] = calls[i + 1]
           /\ Heap!OnPath' = Heap!OnPath \ {Head(calls)} /\ Head(calls) \in Heap!OnPath
<1>1. /\ DOMAIN calls = 1..Len(calls) /\ Len(calls) \in Nat
      /\ \A i \in 1..Len(calls) : calls[i] \in Heap!Nodes
    BY CallsFacts
<1>2. Len(calls) > 0
    BY <1>1, EmptySeq
<1>3. /\ calls' \in Seq(Heap!Nodes) /\ Len(calls') = Len(calls) - 1
      /\ \A i \in 1..Len(calls) - 1 : calls'[i] = calls[i + 1]
      /\ Head(calls) = calls[1]
    BY HeadTailProperties
<1>4. DOMAIN calls' = 1..Len(calls) - 1
    BY <1>1, <1>2, <1>3
<1>5. 1 \in DOMAIN calls /\ Head(calls) \in Heap!Nodes /\ Head(calls) \in Heap!OnPath
    BY <1>1, <1>2, <1>3 DEF Heap!OnPath
<1>6. \A i \in 1..Len(calls) - 1 : i + 1 \in 1..Len(calls) /\ i + 1 # 1
    BY <1>1
<1>7. \A i \in 1..Len(calls) : i = 1 \/ (i - 1 \in 1..Len(calls) - 1 /\ (i - 1) + 1 = i)
    BY <1>1
<1>8. Heap!OnPath' \subseteq Heap!OnPath \ {Head(calls)}
  <2> SUFFICES ASSUME NEW i \in DOMAIN calls' PROVE calls'[i] \in Heap!OnPath \ {Head(calls)}
      BY DEF Heap!OnPath
  <2>1. i + 1 \in DOMAIN calls /\ i + 1 # 1 /\ calls'[i] = calls[i + 1]
      BY <1>1, <1>3, <1>4, <1>6
  <2> QED BY <1>3, <1>5, <2>1 DEF Heap!OnPath
<1>9. Heap!OnPath \ {Head(calls)} \subseteq Heap!OnPath'
  <2> SUFFICES ASSUME NEW i \in DOMAIN calls, calls[i] # Head(calls)
               PROVE  calls[i] \in Heap!OnPath'
      BY DEF Heap!OnPath
  <2>1. i - 1 \in 1..Len(calls) - 1 /\ (i - 1) + 1 = i
      BY <1>1, <1>3, <1>7
  <2>2. calls'[i - 1] = calls[i]
      BY <1>3, <2>1
  <2> QED BY <1>4, <2>1, <2>2 DEF Heap!OnPath
<1> QED BY <1>3, <1>4, <1>5, <1>8, <1>9

----------------------------------------------------------------------------
(* One lemma per step                                                      *)

\* What a step has to show that leaves the links among the nodes as they are.
LEMMA SameTrees ==
    ASSUME Trees, Heap!Kept' = Heap!Kept, Heap!Tops' = Heap!Tops, Heap!OnPath' = Heap!OnPath,
           \A x \in Heap!Kept : pool'[x].l = pool[x].l /\ pool'[x].r = pool[x].r
    PROVE  Trees' /\ \A x \in Heap!Kept : Heap!Children(x)' = Heap!Children(x)
<1>1. \A x \in Heap!Kept : Heap!Children(x)' = Heap!Children(x)
    BY DEF Heap!Children
<1>2. /\ (Heap!Tops \subseteq Heap!Kept)'
      /\ (\A x \in Heap!Kept : /\ Heap!Children(x) \subseteq Heap!Kept
                               /\ Heap!Children(x) \cap Heap!Tops = {})'
      /\ (\A x, y \in Heap!Kept : Heap!Children(x) \cap Heap!Children(y) # {} => x = y)'
    BY <1>1 DEF Trees
<1>3. (\A x \in Heap!Kept \ Heap!OnPath : pool[x].l = pool[x].r => pool[x].l = Heap!Null)'
    BY DEF Trees
<1>4. (\A C \in SUBSET Heap!Kept :
          Heap!Tops \subseteq C /\ (\A x \in C : Heap!Children(x) \subseteq C) => C = Heap!Kept)'
  <2> SUFFICES ASSUME NEW C \in SUBSET Heap!Kept,
                      Heap!Tops \subseteq C, \A x \in C : Heap!Children(x)' \subseteq C
               PROVE  C = Heap!Kept
      OBVIOUS
  <2>1. \A x \in C : Heap!Children(x) \subseteq C
      BY <1>1
  <2> QED BY <2>1 DEF Trees
<1> QED BY <1>1, <1>2, <1>3, <1>4 DEF Trees

LEMMA HeapInitInv == Heap!Init => HeapInv
<1> SUFFICES ASSUME Heap!Init PROVE HeapInv
    OBVIOUS
<1>1. /\ pool = [x \in Heap!Nodes |-> Heap!Node(Nothing)]
      /\ heapRoot = Heap!Null /\ heapSize = 0 /\ constructed = {}
      /\ popped = Nothing /\ heapOp = "none" /\ mx = Heap!Null /\ my = Heap!Null
      /\ returned = FALSE /\ calls = <<>>
    BY DEF Heap!Init
<1>2. Heap!Node(Nothing) \in [l : Heap!Links, r : Heap!Links, key : HeapKeys \cup {Nothing}]
    BY DEF Heap!Node, Heap!Links
<1>3. IsFiniteSet(constructed) /\ Cardinality(constructed) = 0 /\ heapSize \in 0..HeapSize
    BY <1>1, FS_EmptySet, HeapNumbers
<1>4. Heap!TypeOK
  <2>1. returned \in BOOLEAN
      BY <1>1
  <2>2. pool \in [Heap!Nodes -> [l : Heap!Links, r : Heap!Links, key : HeapKeys \cup {Nothing}]]
      BY <1>1, <1>2
  <2>3. {mx, my} \subseteq Heap!Links /\ heapRoot \in Heap!Links
      BY <1>1 DEF Heap!Links
  <2>4. calls \in Seq(Heap!Nodes)
    <3>1. <<>> \in Seq(Heap!Nodes)
        OBVIOUS
    <3> QED BY <1>1, <3>1
  <2> QED BY <1>1, <1>3, <2>1, <2>2, <2>3, <2>4, SameCount DEF Heap!TypeOK
<1>5. Heap!Kept = {} /\ Heap!Tops = {} /\ Heap!OnPath = {} /\ DOMAIN calls = {}
    BY <1>1, NoPath DEF Heap!Kept, Heap!Tops
<1>6. Trees
    BY <1>5 DEF Trees
<1> QED BY <1>1, <1>4, <1>5, <1>6 DEF HeapInv, Heap!HeldOnce, Heap!HeapOrdered, Heap!RootIsLeast

LEMMA MeetInv == ASSUME HeapInv, Heap!Meet PROVE HeapInv'
<1>1. /\ UNCHANGED <<pool, heapRoot, heapSize, constructed, popped, heapOp, calls>>
      /\ heapOp # "none" /\ my' = Heap!Null /\ returned' = TRUE
      /\ {mx, my} \ {Heap!Null} = {mx', my'} \ {Heap!Null}
      /\ (mx = Heap!Null \/ my = Heap!Null) /\ mx' \in {mx, my}
    BY DEF Heap!Meet
<1>2. Heap!TypeOK'
    BY <1>1 DEF HeapInv, Heap!TypeOK, Heap!Links, Heap!Meet
<1>3. Heap!Kept' = Heap!Kept /\ Heap!OnPath' = Heap!OnPath
    BY <1>1 DEF Heap!Kept, Heap!OnPath
<1>4. Heap!Tops' = Heap!Tops
    BY <1>1, <1>3 DEF Heap!Tops
<1>5. Trees' /\ \A x \in Heap!Kept : Heap!Children(x)' = Heap!Children(x)
    BY <1>1, <1>3, <1>4, SameTrees DEF HeapInv
<1>6. Heap!HeldOnce'
  <2>1. Heap!Null \notin Heap!OnPath
      BY CallsFacts DEF HeapInv, Heap!TypeOK
  <2> QED BY <1>1, <1>3, <2>1 DEF HeapInv, Heap!HeldOnce
<1>7. Heap!HeapOrdered'
    BY <1>1, <1>3, <1>5 DEF HeapInv, Heap!HeapOrdered
<1>8. Heap!RootIsLeast'
    BY <1>1 DEF HeapInv, Heap!RootIsLeast
<1> QED BY <1>2, <1>5, <1>6, <1>7, <1>8 DEF HeapInv

LEMMA KeysCompare ==
    ASSUME HeapInv, NEW x \in constructed
    PROVE  /\ pool[x].key \in Int /\ x \in Heap!Nodes
           /\ pool[x].l \in Heap!Links /\ pool[x].r \in Heap!Links
BY HeapNumbers DEF HeapInv, Heap!TypeOK

LEMMA DescendInv == ASSUME HeapInv, Heap!Descend PROVE HeapInv'
<1>1. /\ UNCHANGED <<pool, heapRoot, heapSize, constructed, popped, heapOp>> /\ heapOp # "none"
      /\ mx # Heap!Null /\ my # Heap!Null
    BY DEF Heap!Descend
<1>2. PICK x, y :
         /\ x = IF Heap!Precedes(mx, my) THEN mx ELSE my
         /\ y = IF Heap!Precedes(mx, my) THEN my ELSE mx
         /\ calls' = <<x>> \o calls /\ mx' = pool[x].r /\ my' = y /\ returned' = FALSE
    BY DEF Heap!Descend, Heap!Call
<1> DEFINE r == pool[x].r
<1>3. /\ x # y /\ {x, y} = {mx, my} /\ x \notin Heap!OnPath /\ y \notin Heap!OnPath
      /\ {x, y} \subseteq Heap!Tops /\ {x, y} \subseteq Heap!Kept
    BY <1>1, <1>2 DEF HeapInv, Heap!HeldOnce, Heap!Tops, Trees
<1>4. Heap!Kept \subseteq constructed /\ {x, y} \subseteq constructed
    BY <1>3 DEF Heap!Kept
<1>5. pool[x].key <= pool[y].key
  <2>1. pool[mx].key \in Int /\ pool[my].key \in Int
      BY <1>2, <1>3, <1>4, KeysCompare
  <2> QED BY <1>2, <2>1 DEF Heap!Precedes
<1>6. r \in Heap!Links /\ x \in Heap!Nodes
    BY <1>4, KeysCompare
<1>7. r # Heap!Null => r \in Heap!Children(x) /\ r \in Heap!Kept /\ r \notin Heap!Tops
    BY <1>3 DEF Heap!Children, HeapInv, Trees
<1>8. /\ calls \in Seq(Heap!Nodes) /\ Heap!Null \notin Heap!OnPath
      /\ DOMAIN calls = 1..Len(calls) /\ Len(calls) \in Nat
    BY CallsFacts DEF HeapInv, Heap!TypeOK
<1>9. /\ calls' \in Seq(Heap!Nodes) /\ DOMAIN calls' = 1..Len(calls) + 1
      /\ calls'[1] = x /\ \A i \in 1..Len(calls) : calls'[i + 1] = calls[i]
      /\ Heap!OnPath' = Heap!OnPath \cup {x}
    BY <1>2, <1>6, <1>8, PathExtended
<1>10. \A i \in DOMAIN calls' : i = 1 \/ (i - 1 \in 1..Len(calls) /\ calls'[i] = calls[i - 1])
  <2>1. \A i \in 1..Len(calls) + 1 :
           i = 1 \/ (i - 1 \in 1..Len(calls) /\ (i - 1) + 1 = i)
      BY <1>8
  <2> QED BY <1>9, <2>1
<1>11. Heap!TypeOK'
  <2>1. {mx', my'} \subseteq Heap!Links /\ returned' \in BOOLEAN
      BY <1>2, <1>3, <1>6 DEF HeapInv, Heap!TypeOK
  <2> QED BY <1>1, <1>9, <2>1 DEF HeapInv, Heap!TypeOK
<1>12. Heap!Kept' = Heap!Kept
    BY <1>1 DEF Heap!Kept
<1>13. Heap!Tops' = Heap!Tops \cup ({r} \ {Heap!Null})
    BY <1>1, <1>2, <1>3, <1>9 DEF Heap!Tops
<1> HIDE DEF r
<1>14. /\ Heap!Children(x)' = {pool[x].l} \ {Heap!Null}
       /\ Heap!Children(x) = {pool[x].l, r} \ {Heap!Null}
       /\ \A z \in Heap!Kept : z # x => Heap!Children(z)' = Heap!Children(z)
       /\ \A z \in Heap!Kept : Heap!Children(z)' \subseteq Heap!Children(z)
    BY <1>1, <1>3, <1>9 DEF Heap!Children, r
<1>15. r # Heap!Null => \A z \in Heap!Kept : r \notin Heap!Children(z)'
  <2> SUFFICES ASSUME r # Heap!Null, NEW z \in Heap!Kept, r \in Heap!Children(z)' PROVE FALSE
      OBVIOUS
  <2>1. z = x
      BY <1>3, <1>7, <1>14 DEF HeapInv, Trees
  <2>2. r = pool[x].l
      BY <1>14, <2>1
  <2> QED BY <1>3, <2>2 DEF HeapInv, Trees, r
<1>16. Trees'
  <2>1. (Heap!Tops \subseteq Heap!Kept)'
      BY <1>7, <1>12, <1>13 DEF HeapInv, Trees
  <2>2. (\A z \in Heap!Kept : /\ Heap!Children(z) \subseteq Heap!Kept
                              /\ Heap!Children(z) \cap Heap!Tops = {})'
      BY <1>12, <1>13, <1>14, <1>15 DEF HeapInv, Trees
  <2>3. (\A z, w \in Heap!Kept : Heap!Children(z) \cap Heap!Children(w) # {} => z = w)'
      BY <1>12, <1>14 DEF HeapInv, Trees
  <2>4. (\A z \in Heap!Kept \ Heap!OnPath : pool[z].l = pool[z].r => pool[z].l = Heap!Null)'
      BY <1>1, <1>9, <1>12 DEF HeapInv, Trees
  <2>5. ASSUME NEW C \in SUBSET Heap!Kept, Heap!Tops' \subseteq C, \A z \in C : Heap!Children(z)' \subseteq C
        PROVE  C = Heap!Kept
    <3>1. Heap!Tops \subseteq C
        BY <1>13, <2>5
    <3>2. ASSUME NEW z \in C PROVE Heap!Children(z) \subseteq C
      <4>1. r # Heap!Null => r \in C
          BY <1>13, <2>5
      <4> QED BY <1>14, <2>5, <4>1
    <3> QED BY <3>1, <3>2 DEF HeapInv, Trees
  <2> QED BY <1>12, <2>1, <2>2, <2>3, <2>4, <2>5 DEF Trees
<1>17. Heap!HeldOnce'
  <2>1. r = y => r = Heap!Null
      BY <1>3, <1>7
  <2>2. r # x /\ r \notin Heap!OnPath
    <3>1. Heap!OnPath \subseteq Heap!Tops
        BY <1>1, <1>8 DEF Heap!Tops
    <3> QED BY <1>3, <1>6, <1>7, <1>8, <3>1, NullIsNoNode
  <2>3. ASSUME NEW i \in DOMAIN calls', NEW j \in DOMAIN calls', calls'[i] = calls'[j]
        PROVE  i = j
    <3>1. \A k \in 1..Len(calls) : calls[k] # x
        BY <1>3, <1>8 DEF Heap!OnPath
    <3>2. (i = 1 <=> j = 1)
        BY <1>9, <1>10, <2>3, <3>1
    <3>3. i # 1 => i - 1 = j - 1
        BY <1>8, <1>10, <2>3, <3>2 DEF HeapInv, Heap!HeldOnce
    <3>4. i \in Int /\ j \in Int
        BY <1>8, <1>9
    <3> QED BY <3>2, <3>3, <3>4
  <2> QED BY <1>1, <1>2, <1>3, <1>9, <2>1, <2>2, <2>3 DEF Heap!HeldOnce, r
<1>18. Heap!HeapOrdered'
  <2>1. (\A z \in Heap!Kept : \A c \in Heap!Children(z) : pool[z].key <= pool[c].key)'
      BY <1>1, <1>12, <1>14 DEF HeapInv, Heap!HeapOrdered
  <2>2. r # Heap!Null => pool[x].key <= pool[r].key
      BY <1>3, <1>7 DEF HeapInv, Heap!HeapOrdered
  <2>3. /\ pool[x].key \in Int /\ pool[y].key \in Int
        /\ r # Heap!Null => pool[r].key \in Int
      BY <1>4, <1>7, KeysCompare
  <2>4. ASSUME NEW i \in 1..Len(calls)
        PROVE  /\ pool[calls[i]].key \in Int /\ pool[calls[i]].key <= pool[x].key
               /\ pool[calls[i]].key <= pool[y].key
    <3>1. calls[i] \in Heap!Tops /\ calls[i] \in constructed
        BY <1>1, <1>4, <1>8 DEF Heap!OnPath, Heap!Tops, HeapInv, Trees
    <3>2. x \in {mx, my} \ {Heap!Null} /\ y \in {mx, my} \ {Heap!Null}
        BY <1>1, <1>3
    <3> QED BY <1>8, <3>1, <3>2, KeysCompare DEF HeapInv, Heap!HeapOrdered
  <2>5. ASSUME NEW i \in DOMAIN calls', NEW j \in 1..i
        PROVE  pool[calls'[i]].key <= pool[calls'[j]].key
    <3>1. CASE i = 1
      <4>1. j = 1
          BY <3>1
      <4> QED BY <1>9, <2>3, <3>1, <4>1
    <3>2. CASE i # 1 /\ j = 1
        BY <1>9, <1>10, <2>4, <3>2
    <3>3. CASE i # 1 /\ j # 1
      <4>1. j - 1 \in 1..i - 1 /\ j \in DOMAIN calls'
          BY <1>8, <1>9, <3>3
      <4>2. /\ calls'[i] = calls[i - 1] /\ calls'[j] = calls[j - 1] /\ i - 1 \in DOMAIN calls
          BY <1>8, <1>10, <3>3, <4>1
      <4> QED BY <4>1, <4>2 DEF HeapInv, Heap!HeapOrdered
    <3> QED BY <3>1, <3>2, <3>3
  <2>6. ASSUME NEW i \in DOMAIN calls', NEW z \in {r, y} \ {Heap!Null}
        PROVE  pool[calls'[i]].key <= pool[z].key
    <3>1. CASE i = 1
        BY <1>5, <1>9, <2>2, <3>1
    <3>2. CASE i # 1
      <4>1. i - 1 \in 1..Len(calls) /\ calls'[i] = calls[i - 1]
          BY <1>10, <3>2
      <4>2. CASE z = y
          BY <2>4, <4>1, <4>2
      <4>3. CASE z = r
        <5>1. pool[calls[i - 1]].key <= pool[x].key /\ pool[calls[i - 1]].key \in Int
            BY <2>4, <4>1
        <5>2. r # Heap!Null
            BY <4>3
        <5> QED BY <2>2, <2>3, <4>1, <4>3, <5>1, <5>2
      <4> QED BY <4>2, <4>3
    <3> QED BY <3>1, <3>2
  <2> QED BY <1>1, <1>2, <2>1, <2>5, <2>6 DEF Heap!HeapOrdered, r
<1>19. Heap!RootIsLeast'
    BY <1>1 DEF HeapInv, Heap!RootIsLeast
<1> QED BY <1>11, <1>16, <1>17, <1>18, <1>19 DEF HeapInv

LEMMA AscendInv == ASSUME HeapInv, Heap!Ascend PROVE HeapInv'
<1> DEFINE l == pool[Head(calls)].l
<1>1. PICK h :
         /\ h = Head(calls) /\ calls # <<>> /\ returned
         /\ pool' = [pool EXCEPT ![h].l = mx, ![h].r = l]
         /\ mx' = h /\ calls' = Tail(calls)
         /\ UNCHANGED <<heapRoot, heapSize, constructed, popped, heapOp, my, returned>>
    BY DEF Heap!Ascend
<1>2. heapOp # "none" /\ my = Heap!Null
    BY <1>1 DEF HeapInv, Heap!HeldOnce
<1>3. /\ calls \in Seq(Heap!Nodes) /\ Heap!Null \notin Heap!OnPath
      /\ DOMAIN calls = 1..Len(calls) /\ Len(calls) \in Nat
    BY CallsFacts DEF HeapInv, Heap!TypeOK
<1>4. /\ calls' \in Seq(Heap!Nodes) /\ DOMAIN calls' = 1..Len(calls) - 1
      /\ h = calls[1] /\ 1 \in DOMAIN calls /\ h \in Heap!Nodes
      /\ \A i \in 1..Len(calls) - 1 : calls'[i] = calls[i + 1]
      /\ Heap!OnPath' = Heap!OnPath \ {h} /\ h \in Heap!OnPath
    BY <1>1, <1>3, PathShortened DEF HeapInv, Heap!HeldOnce
<1>5. \A i \in DOMAIN calls' : calls'[i] = calls[i + 1] /\ i + 1 \in DOMAIN calls /\ i \in Nat
    BY <1>3, <1>4
<1>6. mx \notin Heap!OnPath /\ (mx # Heap!Null => mx \in Heap!Tops /\ mx \in Heap!Kept)
    BY <1>2 DEF HeapInv, Heap!HeldOnce, Heap!Tops, Trees
<1>7. h \in Heap!Tops /\ h \in Heap!Kept /\ h \in constructed /\ h # Heap!Null
    BY <1>2, <1>3, <1>4 DEF Heap!Tops, HeapInv, Trees, Heap!Kept
<1>8. /\ l \in Heap!Links /\ mx \in Heap!Links
      /\ l # Heap!Null => l \in Heap!Children(h) /\ l \in Heap!Kept /\ l \notin Heap!Tops
  <2>1. l = pool[h].l
      BY <1>1
  <2>2. l # Heap!Null => l \in Heap!Children(h)
      BY <2>1 DEF Heap!Children
  <2>3. l \in Heap!Links /\ mx \in Heap!Links
      BY <1>7, <2>1, KeysCompare DEF HeapInv, Heap!TypeOK
  <2> QED BY <1>7, <2>2, <2>3 DEF HeapInv, Trees
<1>9. l = pool[h].l
    BY <1>1
<1> HIDE DEF l
<1>10. /\ \A x \in Heap!Nodes : pool'[x].key = pool[x].key
       /\ pool'[h].l = mx /\ pool'[h].r = l
       /\ \A x \in Heap!Nodes : x # h => pool'[x] = pool[x]
       /\ pool' \in [Heap!Nodes -> [l : Heap!Links, r : Heap!Links, key : HeapKeys \cup {Nothing}]]
  <2> DEFINE Bytes == [l : Heap!Links, r : Heap!Links, key : HeapKeys \cup {Nothing}]
             turned == [pool[h] EXCEPT !.l = mx, !.r = l]
  <2>1. pool \in [Heap!Nodes -> Bytes] /\ pool[h] \in Bytes
      BY <1>4 DEF HeapInv, Heap!TypeOK
  <2>2. turned \in Bytes /\ turned.l = mx /\ turned.r = l /\ turned.key = pool[h].key
      BY <1>8, <2>1
  <2>3. pool' = [pool EXCEPT ![h] = turned]
      BY <1>1, <1>4, <2>1
  <2> HIDE DEF turned, Bytes
  <2>4. /\ pool' \in [Heap!Nodes -> Bytes] /\ pool'[h] = turned
        /\ \A x \in Heap!Nodes : x # h => pool'[x] = pool[x]
      BY <1>4, <2>1, <2>2, <2>3
  <2> QED BY <2>2, <2>4 DEF Bytes
<1>11. Heap!TypeOK'
  <2>1. {mx', my'} \subseteq Heap!Links /\ returned' \in BOOLEAN
      BY <1>1, <1>4 DEF HeapInv, Heap!TypeOK, Heap!Links
  <2>2. constructed \subseteq Heap!Nodes
      BY DEF HeapInv, Heap!TypeOK
  <2> QED BY <1>1, <1>4, <1>10, <2>1, <2>2 DEF HeapInv, Heap!TypeOK
<1>12. Heap!Kept' = Heap!Kept /\ Heap!Kept \subseteq constructed /\ constructed \subseteq Heap!Nodes
    BY <1>1 DEF Heap!Kept, HeapInv, Heap!TypeOK
<1>13. Heap!Tops' = Heap!Tops \ {mx}
    BY <1>1, <1>2, <1>3, <1>4, <1>6 DEF Heap!Tops
<1>14. Heap!Children(h)' = {mx, l} \ {Heap!Null}
    BY <1>4, <1>10 DEF Heap!Children
<1>15. \A x \in Heap!Kept : x # h => Heap!Children(x)' = Heap!Children(x)
    BY <1>4, <1>10, <1>12 DEF Heap!Children
<1>16. Heap!Children(h) = {l} \ {Heap!Null}
    BY <1>4, <1>9 DEF Heap!Children
<1>17. Trees'
  <2>1. (Heap!Tops \subseteq Heap!Kept)'
      BY <1>12, <1>13 DEF HeapInv, Trees
  <2>2. (\A x \in Heap!Kept : /\ Heap!Children(x) \subseteq Heap!Kept
                              /\ Heap!Children(x) \cap Heap!Tops = {})'
      BY <1>6, <1>8, <1>12, <1>13, <1>14, <1>15 DEF HeapInv, Trees
  <2>3. \A x \in Heap!Kept :
           Heap!Children(x)' \subseteq Heap!Children(x) \cup (IF x = h THEN {mx} \ {Heap!Null} ELSE {})
      BY <1>14, <1>15, <1>16
  <2>4. \A x \in Heap!Kept : mx \notin Heap!Children(x) \/ mx = Heap!Null
      BY <1>6 DEF HeapInv, Trees
  <2>5. (\A x, y \in Heap!Kept : Heap!Children(x) \cap Heap!Children(y) # {} => x = y)'
    <3> SUFFICES ASSUME NEW x \in Heap!Kept, NEW y \in Heap!Kept, x # y
                 PROVE  Heap!Children(x)' \cap Heap!Children(y)' = {}
        BY <1>12
    <3>1. Heap!Children(x) \cap Heap!Children(y) = {}
        BY DEF HeapInv, Trees
    <3> QED BY <2>3, <2>4, <3>1
  <2>6. (\A x \in Heap!Kept \ Heap!OnPath : pool[x].l = pool[x].r => pool[x].l = Heap!Null)'
    <3> SUFFICES ASSUME NEW x \in Heap!Kept, x \notin Heap!OnPath', pool'[x].l = pool'[x].r
                 PROVE  pool'[x].l = Heap!Null
        BY <1>12
    <3>1. CASE x = h
        BY <1>6, <1>8, <1>10, <3>1
    <3>2. CASE x # h
        BY <1>4, <1>10, <1>12, <3>2 DEF HeapInv, Trees
    <3> QED BY <3>1, <3>2
  <2>7. ASSUME NEW C \in SUBSET Heap!Kept, Heap!Tops' \subseteq C, \A x \in C : Heap!Children(x)' \subseteq C
        PROVE  C = Heap!Kept
    <3>1. h \in Heap!Tops'
        BY <1>4, <1>6, <1>7, <1>13
    <3>2. mx # Heap!Null => mx \in C
        BY <1>14, <2>7, <3>1
    <3>3. Heap!Tops \subseteq C
        BY <1>13, <2>7, <3>2 DEF Heap!Tops
    <3>4. \A x \in C : Heap!Children(x) \subseteq C
        BY <1>14, <1>15, <1>16, <2>7
    <3> QED BY <3>3, <3>4 DEF HeapInv, Trees
  <2> QED BY <1>12, <2>1, <2>2, <2>5, <2>6, <2>7 DEF Trees
<1>18. Heap!HeldOnce'
  <2>1. ASSUME NEW i \in DOMAIN calls', NEW j \in DOMAIN calls', calls'[i] = calls'[j]
        PROVE  i = j
    <3>1. calls[i + 1] = calls[j + 1] /\ i + 1 \in DOMAIN calls /\ j + 1 \in DOMAIN calls
        BY <1>5, <2>1
    <3>2. i + 1 = j + 1
        BY <3>1 DEF HeapInv, Heap!HeldOnce
    <3> QED BY <1>5, <3>2
  <2> QED BY <1>1, <1>2, <1>3, <1>4, <1>7, <2>1 DEF Heap!HeldOnce
<1>19. Heap!HeapOrdered'
  <2>1. ASSUME NEW x \in Heap!Kept, NEW y \in Heap!Children(x)'
        PROVE  pool'[x].key <= pool'[y].key
    <3>1. y \in Heap!Nodes /\ x \in Heap!Nodes
        BY <1>8, <1>12, <1>17, <2>1 DEF Trees
    <3>2. CASE y = mx /\ x = h
        <4>1. y # Heap!Null
            BY <3>1, NullIsNoNode
        <4> QED BY <1>4, <1>10, <3>1, <3>2, <4>1 DEF HeapInv, Heap!HeapOrdered
    <3>3. CASE ~(y = mx /\ x = h)
      <4>1. y \in Heap!Children(x)
          BY <1>14, <1>15, <1>16, <2>1, <3>3
      <4> QED BY <1>10, <3>1, <4>1 DEF HeapInv, Heap!HeapOrdered
    <3> QED BY <3>2, <3>3
  <2>2. \A i \in DOMAIN calls : calls[i] \in Heap!Nodes
      BY <1>3, CallsFacts
  <2>3. ASSUME NEW i \in DOMAIN calls'
        PROVE  /\ \A j \in 1..i : pool'[calls'[i]].key <= pool'[calls'[j]].key
               /\ \A y \in {mx', my'} \ {Heap!Null} : pool'[calls'[i]].key <= pool'[y].key
    <3>1. /\ calls'[i] = calls[i + 1] /\ i + 1 \in DOMAIN calls /\ i \in Nat
          /\ 1 \in 1..i + 1
        BY <1>5
    <3>2. ASSUME NEW j \in 1..i PROVE pool'[calls'[i]].key <= pool'[calls'[j]].key
      <4>1. j \in DOMAIN calls' /\ j + 1 \in 1..i + 1
          BY <1>3, <1>4, <2>3, <3>1, <3>2
      <4>2. calls'[j] = calls[j + 1] /\ j + 1 \in DOMAIN calls
          BY <1>5, <4>1
      <4> QED BY <1>10, <2>2, <3>1, <4>1, <4>2 DEF HeapInv, Heap!HeapOrdered
    <3>3. pool[calls[i + 1]].key <= pool[calls[1]].key
        BY <3>1 DEF HeapInv, Heap!HeapOrdered
    <3>4. pool'[calls'[i]].key <= pool'[h].key
        BY <1>4, <1>10, <2>2, <3>1, <3>3
    <3> QED BY <1>1, <1>2, <3>2, <3>4
  <2> QED BY <1>12, <2>1, <2>3 DEF Heap!HeapOrdered
<1>20. Heap!RootIsLeast'
    BY <1>1, <1>10, <1>12 DEF HeapInv, Heap!RootIsLeast
<1> QED BY <1>11, <1>17, <1>18, <1>19, <1>20 DEF HeapInv

LEMMA AtRest ==
    ASSUME HeapInv, heapOp = "none"
    PROVE  /\ calls = <<>> /\ Heap!OnPath = {} /\ DOMAIN calls = {}
           /\ mx = Heap!Null /\ my = Heap!Null /\ ~returned
           /\ Heap!Kept = constructed /\ Heap!Tops = {heapRoot} \ {Heap!Null}
           /\ \A x : Heap!Children(x) = {pool[x].l, pool[x].r} \ {Heap!Null}
BY NoPath DEF HeapInv, Heap!HeldOnce, Heap!Kept, Heap!Tops, Heap!Children

LEMMA PushInv == ASSUME HeapInv, NEW k \in HeapKeys, Heap!PushIntoFree(k) PROVE HeapInv'
<1>1. /\ heapOp = "none" /\ heapSize < HeapSize /\ heapSize \notin constructed
      /\ pool' = [pool EXCEPT ![heapSize] = Heap!Node(k)] /\ heapSize' = heapSize + 1
      /\ constructed' = constructed \cup {heapSize} /\ heapOp' = "push" /\ mx' = heapRoot /\ my' = heapSize
      /\ returned' = FALSE /\ UNCHANGED <<heapRoot, popped, calls>>
  <2>1. heapSize \in Nat /\ ~(heapSize >= HeapSize) /\ HeapSize \in Nat
      BY HeapNumbers DEF HeapInv, Heap!TypeOK, Heap!PushIntoFree, Heap!Push, Heap!Full
  <2> QED BY <2>1 DEF Heap!PushIntoFree, Heap!Push, Heap!Call
<1>2. PICK z : z = heapSize
    OBVIOUS
<1>3. z \in Heap!Nodes /\ heapSize + 1 \in 0..HeapSize /\ z # Heap!Null
    BY <1>1, <1>2, HeapNumbers DEF HeapInv, Heap!TypeOK, Heap!Nodes, Heap!Null
<1>4. /\ Heap!Node(k) \in [l : Heap!Links, r : Heap!Links, key : HeapKeys \cup {Nothing}]
      /\ Heap!Node(k).l = Heap!Null /\ Heap!Node(k).r = Heap!Null /\ Heap!Node(k).key = k
    BY DEF Heap!Node, Heap!Links
<1>5. /\ pool' \in [Heap!Nodes -> [l : Heap!Links, r : Heap!Links, key : HeapKeys \cup {Nothing}]]
      /\ pool'[z] = Heap!Node(k) /\ \A x \in Heap!Nodes : x # z => pool'[x] = pool[x]
    BY <1>1, <1>2, <1>3, <1>4 DEF HeapInv, Heap!TypeOK
<1>6. Heap!TypeOK'
  <2>1. IsFiniteSet(constructed') /\ Cardinality(constructed') = heapSize + 1
      BY <1>1, FS_AddElement, SameCount DEF HeapInv, Heap!TypeOK
  <2>2. \A x \in constructed' : x \in Heap!Nodes /\ pool'[x].key \in HeapKeys
      BY <1>1, <1>2, <1>3, <1>4, <1>5 DEF HeapInv, Heap!TypeOK
  <2>3. {mx', my'} \subseteq Heap!Links /\ returned' \in BOOLEAN
      BY <1>1, <1>2, <1>3 DEF HeapInv, Heap!TypeOK, Heap!Links
  <2> QED BY <1>1, <1>3, <1>5, <2>1, <2>2, <2>3, SameCount DEF HeapInv, Heap!TypeOK
<1>7. /\ calls = <<>> /\ Heap!OnPath = {} /\ DOMAIN calls = {} /\ Heap!Kept = constructed
      /\ Heap!Tops = {heapRoot} \ {Heap!Null} /\ constructed \subseteq Heap!Nodes
      /\ \A x : Heap!Children(x) = {pool[x].l, pool[x].r} \ {Heap!Null}
    BY <1>1, AtRest DEF HeapInv, Heap!TypeOK
<1>8. Heap!OnPath' = {} /\ DOMAIN calls' = {}
    BY <1>1, <1>7 DEF Heap!OnPath
<1>9. Heap!Kept' = Heap!Kept \cup {z} /\ z \notin Heap!Kept
    BY <1>1, <1>2, <1>7 DEF Heap!Kept
<1>10. Heap!Tops' = Heap!Tops \cup {z}
    BY <1>1, <1>2, <1>3, <1>7, <1>8 DEF Heap!Tops
<1>11. Heap!Children(z)' = {} /\ \A x \in Heap!Kept : Heap!Children(x)' = Heap!Children(x)
  <2>1. \A x \in Heap!Kept : pool'[x] = pool[x]
      BY <1>5, <1>7, <1>9
  <2> QED BY <1>4, <1>5, <1>7, <1>8, <2>1 DEF Heap!Children
<1>12. Trees'
  <2>1. (Heap!Tops \subseteq Heap!Kept)'
      BY <1>9, <1>10 DEF HeapInv, Trees
  <2>2. (\A x \in Heap!Kept : /\ Heap!Children(x) \subseteq Heap!Kept
                              /\ Heap!Children(x) \cap Heap!Tops = {})'
      BY <1>9, <1>10, <1>11 DEF HeapInv, Trees
  <2>3. (\A x, y \in Heap!Kept : Heap!Children(x) \cap Heap!Children(y) # {} => x = y)'
      BY <1>9, <1>11 DEF HeapInv, Trees
  <2>4. (\A x \in Heap!Kept \ Heap!OnPath : pool[x].l = pool[x].r => pool[x].l = Heap!Null)'
      BY <1>4, <1>5, <1>7, <1>9 DEF HeapInv, Trees
  <2>5. ASSUME NEW C \in SUBSET Heap!Kept', Heap!Tops' \subseteq C, \A x \in C : Heap!Children(x)' \subseteq C
        PROVE  C = Heap!Kept'
    <3>1. /\ C \ {z} \in SUBSET Heap!Kept /\ Heap!Tops \subseteq C \ {z}
          /\ \A x \in C \ {z} : Heap!Children(x) \subseteq C \ {z}
        BY <1>9, <1>10, <1>11, <2>5 DEF HeapInv, Trees
    <3>2. C \ {z} = Heap!Kept
        BY <3>1 DEF HeapInv, Trees
    <3> QED BY <1>9, <1>10, <2>5, <3>2
  <2> QED BY <2>1, <2>2, <2>3, <2>4, <2>5 DEF Trees
<1>13. Heap!HeldOnce'
    BY <1>1, <1>2, <1>3, <1>7, <1>8, <1>9 DEF Heap!HeldOnce, HeapInv, Trees
<1>14. Heap!HeapOrdered'
  <2>1. \A x \in Heap!Kept : \A y \in Heap!Children(x) : x # z /\ y # z /\ x \in Heap!Nodes /\ y \in Heap!Nodes
      BY <1>7, <1>9 DEF HeapInv, Trees
  <2> QED BY <1>5, <1>8, <1>9, <1>11, <2>1 DEF HeapInv, Heap!HeapOrdered
<1>15. Heap!RootIsLeast'
    BY <1>1 DEF Heap!RootIsLeast
<1> QED BY <1>6, <1>12, <1>13, <1>14, <1>15 DEF HeapInv

LEMMA PushedInv == ASSUME HeapInv, Heap!Pushed PROVE HeapInv'
<1>1. /\ heapOp = "push" /\ returned /\ calls = <<>> /\ heapRoot' = mx /\ heapOp' = "none"
      /\ mx' = Heap!Null /\ my' = Heap!Null /\ returned' = FALSE
      /\ UNCHANGED <<pool, heapSize, constructed, popped, calls>>
    BY DEF Heap!Pushed, Heap!Finish
<1>2. my = Heap!Null
    BY <1>1 DEF HeapInv, Heap!HeldOnce
<1>3. Heap!TypeOK'
    BY <1>1 DEF HeapInv, Heap!TypeOK, Heap!Links
<1>4. /\ Heap!Kept' = Heap!Kept /\ Heap!OnPath' = {} /\ Heap!OnPath = {}
      /\ DOMAIN calls = {} /\ calls' = calls
    BY <1>1, NoPath DEF Heap!Kept, Heap!OnPath
<1>5. Heap!Tops' = Heap!Tops
    BY <1>1, <1>2, <1>4 DEF Heap!Tops
<1>6. Trees' /\ \A x \in Heap!Kept : Heap!Children(x)' = Heap!Children(x)
    BY <1>1, <1>4, <1>5, SameTrees DEF HeapInv
<1>7. Heap!HeldOnce'
    BY <1>1, <1>4 DEF Heap!HeldOnce
<1>8. Heap!HeapOrdered'
    BY <1>1, <1>4, <1>6 DEF HeapInv, Heap!HeapOrdered
<1> QED BY <1>1, <1>3, <1>6, <1>7, <1>8 DEF HeapInv, Heap!RootIsLeast

\* A pop of an empty heap finds no node, and a pop of another one the least key:
\* what is not less than the root holds the root and, with a node, its children.
LEMMA RootFacts ==
    ASSUME HeapInv, heapOp = "none"
    PROVE  /\ heapRoot = Heap!Null => constructed = {}
           /\ heapRoot # Heap!Null => /\ heapRoot \in constructed
                                      /\ \A x \in constructed : pool[heapRoot].key <= pool[x].key
<1>1. /\ Heap!Kept = constructed /\ Heap!Tops = {heapRoot} \ {Heap!Null}
    BY AtRest
<1>2. ASSUME heapRoot = Heap!Null PROVE constructed = {}
  <2>1. {} \in SUBSET Heap!Kept /\ Heap!Tops \subseteq {} /\ \A x \in {} : Heap!Children(x) \subseteq {}
      BY <1>1, <1>2
  <2>2. {} = Heap!Kept
      BY <2>1 DEF HeapInv, Trees
  <2> QED BY <1>1, <2>2
<1>3. ASSUME heapRoot # Heap!Null
      PROVE  heapRoot \in constructed /\ \A x \in constructed : pool[heapRoot].key <= pool[x].key
  <2> DEFINE C == {x \in constructed : pool[heapRoot].key <= pool[x].key}
  <2>1. heapRoot \in constructed
      BY <1>1, <1>3 DEF HeapInv, Trees
  <2>2. \A x \in constructed : pool[x].key \in Int
      BY KeysCompare
  <2>3. Heap!Tops \subseteq C
      BY <1>1, <2>1, <2>2
  <2>4. ASSUME NEW x \in C, NEW y \in Heap!Children(x) PROVE y \in C
    <3>1. y \in constructed /\ pool[x].key <= pool[y].key
        BY <1>1 DEF HeapInv, Trees, Heap!HeapOrdered
    <3> QED BY <2>1, <2>2, <3>1
  <2>5. C \in SUBSET Heap!Kept
      BY <1>1
  <2> HIDE DEF C
  <2>6. C = Heap!Kept
      BY <2>3, <2>4, <2>5 DEF HeapInv, Trees
  <2> QED BY <1>1, <2>1, <2>6 DEF C
<1> QED BY <1>2, <1>3

LEMMA PopEmptyInv == ASSUME HeapInv, Heap!PopEmpty PROVE HeapInv'
<1>1. /\ popped' = Nothing
      /\ UNCHANGED <<pool, heapRoot, heapSize, constructed, heapOp, mx, my, returned, calls>>
    BY DEF Heap!PopEmpty
<1>2. Heap!TypeOK'
    BY <1>1 DEF HeapInv, Heap!TypeOK
<1>3. Heap!Kept' = Heap!Kept /\ Heap!OnPath' = Heap!OnPath
    BY <1>1 DEF Heap!Kept, Heap!OnPath
<1>4. Heap!Tops' = Heap!Tops
    BY <1>1, <1>3 DEF Heap!Tops
<1>5. Trees' /\ \A x \in Heap!Kept : Heap!Children(x)' = Heap!Children(x)
    BY <1>1, <1>3, <1>4, SameTrees DEF HeapInv
<1> QED BY <1>1, <1>2, <1>3, <1>5 DEF HeapInv, Heap!HeldOnce, Heap!HeapOrdered, Heap!RootIsLeast

LEMMA PopInv == ASSUME HeapInv, Heap!Pop PROVE HeapInv'
<1>1. /\ heapOp = "none" /\ heapRoot # Heap!Null /\ heapOp' = "pop"
      /\ mx' = pool[heapRoot].l /\ my' = pool[heapRoot].r /\ returned' = FALSE
      /\ UNCHANGED <<pool, heapRoot, heapSize, constructed, popped, calls>>
    BY DEF Heap!Pop, Heap!Call, Heap!Empty
<1>2. heapRoot \in constructed /\ \A x \in constructed : pool[heapRoot].key <= pool[x].key
    BY <1>1, RootFacts
<1>3. /\ calls = <<>> /\ Heap!OnPath = {} /\ DOMAIN calls = {}
      /\ Heap!Kept = constructed /\ Heap!Tops = {heapRoot}
      /\ \A x : Heap!Children(x) = {pool[x].l, pool[x].r} \ {Heap!Null}
    BY <1>1, AtRest
<1>4. /\ Heap!OnPath' = {} /\ Heap!Kept' = constructed \ {heapRoot}
      /\ Heap!Tops' = Heap!Children(heapRoot)
      /\ \A x : Heap!Children(x)' = Heap!Children(x)
  <2>1. Heap!OnPath' = {}
      BY <1>1, <1>3 DEF Heap!OnPath
  <2> QED BY <1>1, <1>3, <2>1 DEF Heap!Kept, Heap!Tops, Heap!Children
<1>5. Heap!TypeOK'
  <2>1. {mx', my'} \subseteq Heap!Links /\ returned' \in BOOLEAN
      BY <1>1, <1>2, KeysCompare
  <2> QED BY <1>1, <2>1 DEF HeapInv, Heap!TypeOK
<1>6. Trees'
  <2>1. (Heap!Tops \subseteq Heap!Kept)'
      BY <1>2, <1>3, <1>4 DEF HeapInv, Trees
  <2>2. (\A x \in Heap!Kept : /\ Heap!Children(x) \subseteq Heap!Kept
                              /\ Heap!Children(x) \cap Heap!Tops = {})'
      BY <1>2, <1>3, <1>4 DEF HeapInv, Trees
  <2>3. (\A x, y \in Heap!Kept : Heap!Children(x) \cap Heap!Children(y) # {} => x = y)'
      BY <1>3, <1>4 DEF HeapInv, Trees
  <2>4. (\A x \in Heap!Kept \ Heap!OnPath : pool[x].l = pool[x].r => pool[x].l = Heap!Null)'
      BY <1>1, <1>3, <1>4 DEF HeapInv, Trees
  <2>5. ASSUME NEW C \in SUBSET Heap!Kept', Heap!Tops' \subseteq C, \A x \in C : Heap!Children(x)' \subseteq C
        PROVE  C = Heap!Kept'
    <3>1. /\ C \cup {heapRoot} \in SUBSET Heap!Kept /\ Heap!Tops \subseteq C \cup {heapRoot}
          /\ \A x \in C \cup {heapRoot} : Heap!Children(x) \subseteq C \cup {heapRoot}
        BY <1>2, <1>3, <1>4, <2>5
    <3>2. C \cup {heapRoot} = Heap!Kept
        BY <3>1 DEF HeapInv, Trees
    <3> QED BY <1>3, <1>4, <2>5, <3>2
  <2> QED BY <2>1, <2>2, <2>3, <2>4, <2>5 DEF Trees
<1>7. Heap!HeldOnce'
    BY <1>1, <1>2, <1>3, <1>4 DEF Heap!HeldOnce, HeapInv, Trees
<1>8. Heap!HeapOrdered'
    BY <1>1, <1>3, <1>4 DEF HeapInv, Heap!HeapOrdered
<1>9. Heap!RootIsLeast'
    BY <1>1, <1>2 DEF Heap!RootIsLeast
<1> QED BY <1>5, <1>6, <1>7, <1>8, <1>9 DEF HeapInv

LEMMA PoppedInv == ASSUME HeapInv, Heap!Popped PROVE HeapInv'
<1>1. PICK z :
         /\ z = heapRoot
         /\ heapOp = "pop" /\ returned /\ calls = <<>> /\ heapRoot' = mx /\ heapOp' = "none"
         /\ popped' = pool[z].key /\ pool' = [pool EXCEPT ![z] = Heap!Node(Nothing)]
         /\ heapSize' = heapSize - 1 /\ constructed' = constructed \ {z}
         /\ mx' = Heap!Null /\ my' = Heap!Null /\ returned' = FALSE /\ UNCHANGED calls
    BY DEF Heap!Popped, Heap!Finish
<1>2. my = Heap!Null
    BY <1>1 DEF HeapInv, Heap!HeldOnce
<1>3. z \in constructed /\ z \in Heap!Nodes /\ pool[z].key \in HeapKeys
    BY <1>1 DEF HeapInv, Heap!RootIsLeast, Heap!TypeOK
<1>4. /\ Heap!Node(Nothing) \in [l : Heap!Links, r : Heap!Links, key : HeapKeys \cup {Nothing}]
    BY DEF Heap!Node, Heap!Links
<1>5. /\ pool' \in [Heap!Nodes -> [l : Heap!Links, r : Heap!Links, key : HeapKeys \cup {Nothing}]]
      /\ \A x \in Heap!Nodes : x # z => pool'[x] = pool[x]
    BY <1>1, <1>3, <1>4 DEF HeapInv, Heap!TypeOK
<1>6. /\ Heap!Kept' = Heap!Kept /\ Heap!Kept = constructed \ {z}
      /\ Heap!OnPath' = Heap!OnPath /\ Heap!OnPath = {} /\ DOMAIN calls = {}
    BY <1>1, NoPath DEF Heap!Kept, Heap!OnPath
<1>7. Heap!Tops' = Heap!Tops
    BY <1>1, <1>2, <1>6 DEF Heap!Tops
<1>8. \A x \in Heap!Kept : x \in Heap!Nodes /\ pool'[x] = pool[x]
    BY <1>5, <1>6 DEF HeapInv, Heap!TypeOK
<1>9. Heap!TypeOK'
  <2>1. IsFiniteSet(constructed') /\ Cardinality(constructed') = heapSize - 1
      BY <1>1, <1>3, FS_RemoveElement, SameCount DEF HeapInv, Heap!TypeOK
  <2>2. heapSize - 1 \in 0..HeapSize
    <3>1. Cardinality(constructed') \in Nat
        BY <2>1, FS_CardinalityType
    <3> QED BY <2>1, <3>1, HeapNumbers DEF HeapInv, Heap!TypeOK
  <2>3. {mx', my'} \subseteq Heap!Links /\ returned' \in BOOLEAN
      BY <1>1 DEF Heap!Links
  <2>4. \A x \in constructed' : x \in Heap!Nodes /\ pool'[x].key \in HeapKeys
      BY <1>1, <1>6, <1>8 DEF HeapInv, Heap!TypeOK
  <2> QED BY <1>1, <1>3, <1>5, <2>1, <2>2, <2>3, <2>4, SameCount DEF HeapInv, Heap!TypeOK
<1>10. Trees' /\ \A x \in Heap!Kept : Heap!Children(x)' = Heap!Children(x)
    BY <1>6, <1>7, <1>8, SameTrees DEF HeapInv
<1>11. Heap!HeldOnce'
    BY <1>1, <1>6 DEF Heap!HeldOnce
<1>12. Heap!HeapOrdered'
  <2>1. \A x \in Heap!Kept : \A y \in Heap!Children(x) : y \in Heap!Kept
      BY DEF HeapInv, Trees
  <2> QED BY <1>1, <1>6, <1>8, <1>10, <2>1 DEF HeapInv, Heap!HeapOrdered
<1> QED BY <1>1, <1>9, <1>10, <1>11, <1>12 DEF HeapInv, Heap!RootIsLeast

LEMMA HeapNextInv == HeapInv /\ [Heap!NextIntoFree]_Heap!vars => HeapInv'
<1> SUFFICES ASSUME HeapInv, [Heap!NextIntoFree]_Heap!vars PROVE HeapInv'
    OBVIOUS
<1>1. CASE UNCHANGED Heap!vars
  <2>1. UNCHANGED <<pool, heapRoot, heapSize, constructed, popped, heapOp, mx, my, returned, calls>>
      BY <1>1 DEF Heap!vars
  <2>2. Heap!TypeOK'
      BY <2>1 DEF HeapInv, Heap!TypeOK
  <2>3. Heap!Kept' = Heap!Kept /\ Heap!OnPath' = Heap!OnPath
      BY <2>1 DEF Heap!Kept, Heap!OnPath
  <2>4. Heap!Tops' = Heap!Tops
      BY <2>1, <2>3 DEF Heap!Tops
  <2>5. Trees' /\ \A x \in Heap!Kept : Heap!Children(x)' = Heap!Children(x)
      BY <2>1, <2>3, <2>4, SameTrees DEF HeapInv
  <2> QED BY <2>1, <2>2, <2>3, <2>5 DEF HeapInv, Heap!HeldOnce, Heap!HeapOrdered, Heap!RootIsLeast
<1> QED BY <1>1, PushInv, PopEmptyInv, PopInv, MeetInv, DescendInv, AscendInv, PushedInv,
           PoppedInv DEF Heap!NextIntoFree, Heap!Merging

----------------------------------------------------------------------------
(* The theorems                                                            *)

LEMMA HeapInvariance == Heap!SpecIntoFree => []HeapInv
BY HeapInitInv, HeapNextInv, PTL DEF Heap!SpecIntoFree

\* Where pushes find their node free, no merge of a heap of any size loses a node
\* or links it twice, and keys grow away from the root: also between the steps
\* of a merge (skew_heap.hpp, lines 43-59 and 75-88).
THEOREM HeapCorrect == Heap!SpecIntoFree => []HeapWellFormed
<1>1. HeapInv => HeapWellFormed
    BY TreesAreKept DEF HeapInv, HeapWellFormed, Heap!HeapWellFormed
<1> QED BY <1>1, HeapInvariance, PTL

\* A key is in the queue from when its node is constructed until the node is
\* destroyed.
LEMMA HeldFacts ==
    ASSUME HeapInv
    PROVE  LET held == [x \in Heap!Nodes |-> IF x \in constructed THEN pool[x].key ELSE Nothing]
           IN  /\ Heap!Queue!Taken = constructed
               /\ \A x \in constructed : held[x] = pool[x].key
BY HeapNumbers DEF HeapInv, Heap!TypeOK, Heap!Queue!Taken

LEMMA HeapStepMaps ==
    ASSUME HeapInv, HeapInv', [Heap!NextIntoFree]_Heap!vars
    PROVE  [Heap!Queue!Next]_Heap!Queue!vars
<1> DEFINE held == [x \in Heap!Nodes |-> IF x \in constructed THEN pool[x].key ELSE Nothing]
<1>1. ASSUME held' = held, popped' = popped PROVE [Heap!Queue!Next]_Heap!Queue!vars
    BY <1>1 DEF Heap!Queue!vars
<1>2. constructed \subseteq Heap!Nodes
    BY DEF HeapInv, Heap!TypeOK
<1>3. CASE UNCHANGED <<pool, constructed, popped>>
    BY <1>1, <1>3
<1>4. CASE Heap!Ascend
  <2>1. constructed' = constructed /\ popped' = popped
      BY <1>4 DEF Heap!Ascend
  <2>2. Head(calls) \in Heap!Nodes
    BY <1>4, PathShortened DEF Heap!Ascend, HeapInv, Heap!TypeOK, Heap!HeldOnce
  <2>3. \A x \in Heap!Nodes : pool'[x].key = pool[x].key
      BY <1>4, <2>2 DEF Heap!Ascend, HeapInv, Heap!TypeOK
  <2> QED BY <1>1, <2>1, <2>3
<1>5. ASSUME NEW k \in HeapKeys, Heap!PushIntoFree(k) PROVE [Heap!Queue!Next]_Heap!Queue!vars
  <2>1. /\ heapSize \notin constructed /\ pool' = [pool EXCEPT ![heapSize] = Heap!Node(k)]
        /\ constructed' = constructed \cup {heapSize} /\ popped' = popped /\ heapSize \in Heap!Nodes
    <3>1. constructed' \subseteq Heap!Nodes /\ constructed' = constructed \cup {heapSize}
        BY <1>5 DEF Heap!PushIntoFree, Heap!Push, HeapInv, Heap!TypeOK
    <3> QED BY <1>5, <3>1 DEF Heap!PushIntoFree, Heap!Push
  <2>2. pool'[heapSize].key = k /\ \A x \in Heap!Nodes \ {heapSize} : pool'[x] = pool[x]
      BY <2>1 DEF HeapInv, Heap!TypeOK, Heap!Node
  <2>3. held' = [held EXCEPT ![heapSize] = k]
    <3>1. \A x \in Heap!Nodes : (IF x \in constructed' THEN pool'[x].key ELSE Nothing)
                           = IF x = heapSize THEN k ELSE held[x]
        BY <2>1, <2>2
    <3>2. held' = [x \in Heap!Nodes |-> IF x = heapSize THEN k ELSE held[x]]
        BY <3>1, Zenon
    <3> QED BY <3>2
  <2>4. heapSize \in Heap!Nodes \ Heap!Queue!Taken
      BY <2>1, HeldFacts
  <2>5. Heap!Queue!Push(k)
      BY <2>1, <2>3, <2>4 DEF Heap!Queue!Push
  <2> QED BY <2>5 DEF Heap!Queue!Next
<1>6. CASE Heap!PopEmpty
  <2>1. constructed = {} /\ UNCHANGED <<pool, constructed>> /\ popped' = Nothing
      BY <1>6, RootFacts DEF Heap!PopEmpty, Heap!Empty
  <2>2. Heap!Queue!PopEmpty
      BY <2>1, HeldFacts DEF Heap!Queue!PopEmpty
  <2> QED BY <2>2 DEF Heap!Queue!Next
<1>7. CASE Heap!Popped
  <2>1. /\ heapOp = "pop" /\ popped' = pool[heapRoot].key /\ constructed' = constructed \ {heapRoot}
        /\ pool' = [pool EXCEPT ![heapRoot] = Heap!Node(Nothing)]
      BY <1>7 DEF Heap!Popped
  <2>2. heapRoot \in constructed /\ \A x \in constructed : pool[heapRoot].key <= pool[x].key
      BY <2>1 DEF HeapInv, Heap!RootIsLeast
  <2>3. \A x \in Heap!Nodes \ {heapRoot} : pool'[x] = pool[x]
      BY <2>1 DEF HeapInv, Heap!TypeOK
  <2>4. held' = [held EXCEPT ![heapRoot] = Nothing]
    <3>1. \A x \in Heap!Nodes : (IF x \in constructed' THEN pool'[x].key ELSE Nothing)
                           = IF x = heapRoot THEN Nothing ELSE held[x]
        BY <2>1, <2>3
    <3>2. held' = [x \in Heap!Nodes |-> IF x = heapRoot THEN Nothing ELSE held[x]]
        BY <3>1, Zenon
    <3> QED BY <3>2
  <2>5. Heap!Queue!Taken = constructed /\ \A x \in constructed : held[x] = pool[x].key
      BY HeldFacts
  <2>6. Heap!Queue!Pop
      BY <2>1, <2>2, <2>4, <2>5 DEF Heap!Queue!Pop
  <2> QED BY <2>6 DEF Heap!Queue!Next
<1> QED BY <1>3, <1>4, <1>5, <1>6, <1>7
        DEF Heap!NextIntoFree, Heap!Merging, Heap!vars, Heap!Pop, Heap!Meet, Heap!Descend,
            Heap!Pushed

\* The heap is a priority queue for any capacity and any set of integer keys: a
\* pop gives back a least key and leaves all others (lines 43 and 49).
THEOREM HeapIsQueue == Heap!SpecIntoFree => ImplementsPriorityQueue
<1>1. Heap!Init => Heap!Queue!Init
    BY DEF Heap!Init, Heap!Queue!Init
<1>2. HeapInv /\ HeapInv' /\ [Heap!NextIntoFree]_Heap!vars => [Heap!Queue!Next]_Heap!Queue!vars
    BY HeapStepMaps
<1> QED BY <1>1, <1>2, HeapInvariance, PTL
        DEF Heap!SpecIntoFree, ImplementsPriorityQueue, Heap!ImplementsPriorityQueue,
            Heap!Queue!Spec

----------------------------------------------------------------------------
(* Digits                                                                  *)

LEMMA PowerGrows == ASSUME NEW j \in Nat, NEW k \in Nat, j <= k PROVE 2^j <= 2^k
<1> DEFINE T == {n \in Nat : j <= n /\ ~(2^j <= 2^n)}
<1>1. \A n \in Nat : 2^n \in Nat /\ 2^(n + 1) = 2 * 2^n
    BY Doubling
<1>2. ASSUME T # {} PROVE FALSE
  <2>1. PICK n \in T : \A i \in T : n <= i
    <3>1. T \in SUBSET Nat
        OBVIOUS
    <3> HIDE DEF T
    <3> QED BY <1>2, <3>1, LeastNumber
  <2>2. n # j
      BY <1>1, <2>1
  <2>3. PICK m \in Nat : n = m + 1 /\ j <= m
    <3>1. n - 1 \in Nat /\ n = (n - 1) + 1 /\ j <= n - 1
        BY <2>1, <2>2
    <3> QED BY <3>1
  <2>4. m \notin T
    <3> HIDE DEF T
    <3> QED BY <2>1, <2>3
  <2>5. 2^j <= 2^m
      BY <2>3, <2>4
  <2>6. 2^m \in Nat /\ 2^n = 2 * 2^m /\ 2^j \in Nat
      BY <1>1, <2>3
  <2>7. PICK a \in Nat, b \in Nat : a = 2^j /\ b = 2^m
      BY <2>6
  <2>8. 2^j <= 2^n
      BY <2>5, <2>6, <2>7
  <2> QED BY <2>1, <2>8
<1> QED BY <1>2

LEMMA PowerAbove == \A n \in Nat : n < 2^n
<1> DEFINE T == {n \in Nat : ~(n < 2^n)}
<1>1. \A n \in Nat : 2^n \in Nat /\ 2^(n + 1) = 2 * 2^n /\ 2^0 = 1
    BY Doubling
<1>2. ASSUME T # {} PROVE FALSE
  <2>1. PICK n \in T : \A i \in T : n <= i
    <3>1. T \in SUBSET Nat
        OBVIOUS
    <3> HIDE DEF T
    <3> QED BY <1>2, <3>1, LeastNumber
  <2>2. n # 0
    <3>1. 0 < 2^0
        BY Doubling
    <3> QED BY <2>1, <3>1
  <2>3. PICK m \in Nat : n = m + 1
    <3>1. n - 1 \in Nat /\ n = (n - 1) + 1
        BY <2>1, <2>2
    <3> QED BY <3>1
  <2>4. m \notin T
    <3>1. ~(n <= m)
        BY <2>3
    <3> HIDE DEF T
    <3> QED BY <2>1, <3>1
  <2>5. m < 2^m
      BY <2>3, <2>4
  <2>6. PICK a \in Nat : a = 2^m /\ 2^n = 2 * a
      BY <1>1, <2>3
  <2>7. n < 2^n
      BY <2>3, <2>5, <2>6
  <2> QED BY <2>1, <2>7
<1> QED BY <1>2

LEMMA DigitsOf ==
    ASSUME NEW n \in Nat
    PROVE  LET k == Heap!Digits(n)
           IN  k \in Nat /\ n < 2^k /\ (k > 0 => 2^(k - 1) <= n)
<1> DEFINE T == {k \in Nat : n < 2^k}
<1>1. n \in T
    BY PowerAbove
<1>2. PICK k \in T : \A i \in T : k <= i
  <2>1. T \in SUBSET Nat
      OBVIOUS
  <2> HIDE DEF T
  <2> QED BY <1>1, <2>1, LeastNumber
<1>3. k \in 0..n
    BY <1>1, <1>2
<1>4. k > 0 => 2^(k - 1) <= n
  <2> SUFFICES ASSUME k > 0 PROVE 2^(k - 1) <= n
      OBVIOUS
  <2>1. PICK j \in Nat : j = k - 1 /\ ~(k <= j)
    <3>1. k - 1 \in Nat /\ ~(k <= k - 1)
        BY <1>3
    <3> QED BY <3>1
  <2>2. j \notin T
    <3> HIDE DEF T
    <3> QED BY <1>2, <2>1
  <2>3. PICK a \in Nat : a = 2^j
      BY Doubling
  <2> QED BY <2>1, <2>2, <2>3
<1>5. n < 2^k
    BY <1>2
<1>6. \E i \in 0..n : n < 2^i /\ (i > 0 => 2^(i - 1) <= n)
    BY <1>3, <1>4, <1>5
<1>7. PICK i : i = Heap!Digits(n)
    OBVIOUS
<1>8. i \in 0..n /\ n < 2^i /\ (i > 0 => 2^(i - 1) <= n)
    BY <1>6, <1>7, Zenon DEF Heap!Digits
<1> QED BY <1>7, <1>8

LEMMA DigitsGrow ==
    ASSUME NEW m \in Nat, NEW n \in Nat, m <= n
    PROVE  Heap!Digits(m) <= Heap!Digits(n)
<1>1. PICK a \in Nat : a = Heap!Digits(m) /\ (a > 0 => 2^(a - 1) <= m)
    BY DigitsOf
<1>2. PICK b \in Nat : b = Heap!Digits(n) /\ n < 2^b
    BY DigitsOf
<1>3. ASSUME a > b PROVE FALSE
  <2>1. PICK c \in Nat : c = a - 1 /\ b <= c
    <3>1. a - 1 \in Nat /\ b <= a - 1
        BY <1>3
    <3> QED BY <3>1
  <2>2. 2^c <= m
      BY <1>1, <1>3, <2>1
  <2>3. 2^b <= 2^c
      BY <2>1, PowerGrows
  <2>4. PICK p \in Nat, q \in Nat : p = 2^b /\ q = 2^c
      BY Doubling
  <2> QED BY <1>2, <2>2, <2>3, <2>4
<1> QED BY <1>1, <1>2, <1>3

\* What is halved has one less.
LEMMA DigitsHalved ==
    ASSUME NEW m \in Nat, NEW n \in Nat, 2 * m + 1 <= n
    PROVE  Heap!Digits(m) + 1 <= Heap!Digits(n)
<1>1. PICK a \in Nat : a = Heap!Digits(m) /\ (a > 0 => 2^(a - 1) <= m)
    BY DigitsOf
<1>2. PICK b \in Nat : b = Heap!Digits(n) /\ n < 2^b
    BY DigitsOf
<1>3. ASSUME b <= a PROVE FALSE
  <2>1. 2^b <= 2^a
      BY <1>3, PowerGrows
  <2>2. PICK p \in Nat, q \in Nat : p = 2^b /\ q = 2^a
      BY Doubling
  <2>3. n < q
      BY <1>2, <2>1, <2>2
  <2>4. CASE a = 0
    <3>1. q = 1
        BY <2>2, <2>4, Doubling
    <3> QED BY <2>3, <3>1
  <2>5. CASE a > 0
    <3>1. PICK c \in Nat : c = a - 1 /\ a = c + 1
      <4>1. a - 1 \in Nat /\ a = (a - 1) + 1
          BY <2>5
      <4> QED BY <4>1
    <3>2. PICK r \in Nat : r = 2^c
        BY Doubling
    <3>3. q = 2 * r
        BY <2>2, <3>1, <3>2, Doubling
    <3>4. r <= m
        BY <1>1, <2>5, <3>1, <3>2
    <3> QED BY <2>3, <3>3, <3>4
  <2> QED BY <2>4, <2>5
<1> QED BY <1>1, <1>2, <1>3

LEMMA DigitsOne == Heap!Digits(1) = 1
<1>1. PICK a \in Nat : a = Heap!Digits(1) /\ 1 < 2^a /\ (a > 0 => 2^(a - 1) <= 1)
  <2>1. 1 \in Nat
      OBVIOUS
  <2> QED BY <2>1, DigitsOf
<1>2. 2^0 = 1
    BY Doubling
<1>3. a # 0
  <2>1. ASSUME a = 0 PROVE FALSE
    <3>1. 2^a = 1
        BY <1>2, <2>1
    <3> QED BY <1>1, <3>1
  <2> QED BY <2>1
<1>4. ASSUME a > 1 PROVE FALSE
  <2>1. PICK c \in Nat : c = a - 1 /\ 1 <= c
    <3>1. a - 1 \in Nat /\ 1 <= a - 1
        BY <1>4
    <3> QED BY <3>1
  <2>2. 2^1 <= 2^c
      BY <2>1, PowerGrows
  <2>3. 2^1 = 2
    <3>1. 2^(0 + 1) = 2 * 2^0 /\ 0 + 1 = 1
        BY Doubling
    <3> QED BY <1>2, <3>1
  <2>4. PICK p \in Nat : p = 2^c
      BY Doubling
  <2> QED BY <1>1, <1>4, <2>1, <2>2, <2>3, <2>4
<1> QED BY <1>1, <1>3, <1>4

----------------------------------------------------------------------------
(* Weights                                                                 *)

\* One equation for each node; a function that solves them all is the weight.
Sum(x, W) == IF x \in Heap!Kept THEN W[pool[x].l] + Heap!Beside(x, W) + 1 ELSE 0

Fits(F) == F \in [Heap!Links -> Nat] /\ \A x \in Heap!Links : F[x] = Sum(x, F)

\* What will be the weight of the root.
Total(F) ==
    IF calls # <<>> THEN F[calls[Len(calls)]]
    ELSE IF heapOp = "none" THEN F[heapRoot]
    ELSE F[mx] + F[my]

WeightInv == \E F : Fits(F) /\ Total(F) = Cardinality(Heap!Kept)

BesideFacts ==
    \A F : /\ \A z : z \notin Heap!OnPath => Heap!Beside(z, F) = F[pool[z].r]
           /\ calls # <<>> => Heap!Beside(calls[1], F) = F[mx] + F[my]
           /\ \A i \in 1..Len(calls) : i # 1 => Heap!Beside(calls[i], F) = F[calls[i - 1]]

LEMMA BesidePlaces == HeapInv => BesideFacts
<1> SUFFICES ASSUME HeapInv, NEW F
             PROVE  /\ \A z : z \notin Heap!OnPath => Heap!Beside(z, F) = F[pool[z].r]
                    /\ calls # <<>> => Heap!Beside(calls[1], F) = F[mx] + F[my]
                    /\ \A i \in 1..Len(calls) : i # 1 => Heap!Beside(calls[i], F) = F[calls[i - 1]]
    BY DEF BesideFacts
<1>1. /\ calls \in Seq(Heap!Nodes) /\ DOMAIN calls = 1..Len(calls) /\ Len(calls) \in Nat
      /\ \A i, j \in DOMAIN calls : calls[i] = calls[j] => i = j
    BY CallsFacts DEF HeapInv, Heap!TypeOK, Heap!HeldOnce
<1>2. calls # <<>> => Head(calls) = calls[1] /\ 1 \in 1..Len(calls)
    BY <1>1
<1>3. \A i \in 1..Len(calls) : calls[i] \in Heap!OnPath
    BY <1>1 DEF Heap!OnPath
<1>4. \A z : z \notin Heap!OnPath => Heap!Beside(z, F) = F[pool[z].r]
    BY DEF Heap!Beside
<1>5. calls # <<>> => Heap!Beside(calls[1], F) = F[mx] + F[my]
    BY <1>2, <1>3 DEF Heap!Beside
<1>6. ASSUME NEW i \in 1..Len(calls), i # 1 PROVE Heap!Beside(calls[i], F) = F[calls[i - 1]]
  <2>1. calls # <<>>
      BY <1>1, <1>6
  <2>2. calls[i] # Head(calls) /\ calls[i] \in Heap!OnPath
      BY <1>1, <1>2, <1>3, <1>6, <2>1
  <2>3. PICK m : m = CHOOSE j \in DOMAIN calls : calls[j] = calls[i]
      OBVIOUS
  <2>4. m \in DOMAIN calls /\ calls[m] = calls[i]
      BY <1>1, <1>6, <2>3
  <2>5. m = i
      BY <1>1, <1>6, <2>4
  <2>6. Heap!Inner(calls[i]) = calls[i - 1]
      BY <2>3, <2>5 DEF Heap!Inner
  <2> QED BY <2>2, <2>6 DEF Heap!Beside
<1> QED BY <1>4, <1>5, <1>6

\* Where the links of a node lead.
LinksIn ==
    /\ Heap!Null \notin Heap!Kept /\ Heap!Kept \subseteq Heap!Nodes
    /\ {mx, my} \subseteq Heap!Links
    /\ \A x \in Heap!Kept : pool[x].l \in Heap!Links /\ pool[x].r \in Heap!Links
    /\ calls \in Seq(Heap!Nodes) /\ DOMAIN calls = 1..Len(calls) /\ Len(calls) \in Nat
    /\ \A i \in 1..Len(calls) : calls[i] \in Heap!Links
    /\ Heap!OnPath = {calls[i] : i \in 1..Len(calls)}
    /\ Heap!OnPath \subseteq Heap!Kept
    /\ \A i, j \in 1..Len(calls) : calls[i] = calls[j] => i = j

LEMMA LinksThere == HeapInv => LinksIn
<1> SUFFICES ASSUME HeapInv PROVE LinksIn
    OBVIOUS
<1>1. Heap!Kept \subseteq constructed /\ constructed \subseteq Heap!Nodes
    BY DEF Heap!Kept, HeapInv, Heap!TypeOK
<1>2. \A x \in Heap!Kept : pool[x].l \in Heap!Links /\ pool[x].r \in Heap!Links
    BY <1>1, KeysCompare
<1>3. /\ calls \in Seq(Heap!Nodes) /\ DOMAIN calls = 1..Len(calls) /\ Len(calls) \in Nat
      /\ \A i \in 1..Len(calls) : calls[i] \in Heap!Nodes
      /\ Heap!Null \notin Heap!OnPath
    BY CallsFacts DEF HeapInv, Heap!TypeOK
<1>4. Heap!OnPath = {calls[i] : i \in 1..Len(calls)}
    BY <1>3 DEF Heap!OnPath
<1>5. Heap!OnPath \subseteq Heap!Kept
  <2>1. heapOp = "none" => Heap!OnPath = {}
      BY AtRest
  <2>2. heapOp # "none" => Heap!OnPath \subseteq Heap!Tops
      BY <1>3 DEF Heap!Tops
  <2> QED BY <2>1, <2>2 DEF HeapInv, Trees
<1>6. \A i, j \in 1..Len(calls) : calls[i] = calls[j] => i = j
    BY <1>3 DEF HeapInv, Heap!HeldOnce
<1>7. {mx, my} \subseteq Heap!Links
    BY DEF HeapInv, Heap!TypeOK
<1> QED BY <1>1, <1>2, <1>3, <1>4, <1>5, <1>6, <1>7, NullIsNoNode DEF LinksIn, Heap!Links

\* The weight beside a node is a number, and no more than that of the node.
BesideIsLess ==
    \A F : Fits(F) =>
        \A x \in Heap!Kept :
            /\ F[pool[x].l] \in Nat /\ F[pool[x].r] \in Nat /\ F[x] \in Nat
            /\ Heap!Beside(x, F) \in Nat
            /\ F[x] = F[pool[x].l] + Heap!Beside(x, F) + 1

LEMMA WeightsAreLess == HeapInv => BesideIsLess
<1> SUFFICES ASSUME HeapInv, NEW F, Fits(F), NEW x \in Heap!Kept
             PROVE  /\ F[pool[x].l] \in Nat /\ F[pool[x].r] \in Nat /\ F[x] \in Nat
                    /\ Heap!Beside(x, F) \in Nat
                    /\ F[x] = F[pool[x].l] + Heap!Beside(x, F) + 1
    BY DEF BesideIsLess
<1>1. BesideFacts /\ LinksIn
    BY BesidePlaces, LinksThere
<1>2. \A z \in Heap!Links : F[z] \in Nat
    BY DEF Fits
<1>3. F[x] = F[pool[x].l] + Heap!Beside(x, F) + 1 /\ x \in Heap!Links
    BY <1>1 DEF Fits, Sum, LinksIn, Heap!Links
<1>4. Heap!Beside(x, F) \in Nat
  <2>1. CASE x \notin Heap!OnPath
    <3>1. Heap!Beside(x, F) = F[pool[x].r] /\ pool[x].r \in Heap!Links
        BY <1>1, <2>1 DEF BesideFacts, LinksIn
    <3> QED BY <1>2, <3>1
  <2>2. CASE x \in Heap!OnPath
    <3>1. PICK i \in 1..Len(calls) : x = calls[i]
        BY <1>1, <2>2 DEF LinksIn
    <3>2. calls # <<>> /\ Len(calls) \in Nat
        BY <1>1, <3>1 DEF LinksIn
    <3>3. CASE i = 1
      <4>1. Heap!Beside(x, F) = F[mx] + F[my]
          BY <1>1, <3>1, <3>2, <3>3 DEF BesideFacts
      <4> QED BY <1>1, <1>2, <4>1 DEF LinksIn
    <3>4. CASE i # 1
      <4>1. Heap!Beside(x, F) = F[calls[i - 1]]
          BY <1>1, <3>1, <3>4 DEF BesideFacts
      <4>2. i - 1 \in 1..Len(calls)
          BY <3>1, <3>2, <3>4
      <4> QED BY <1>1, <1>2, <4>1, <4>2 DEF LinksIn
    <3> QED BY <3>3, <3>4
  <2> QED BY <2>1, <2>2
<1>5. F[pool[x].l] \in Nat /\ F[pool[x].r] \in Nat /\ F[x] \in Nat
    BY <1>1, <1>2, <1>3 DEF LinksIn
<1> QED BY <1>3, <1>4, <1>5

LEMMA WeightSolves ==
    ASSUME NEW F, F = [x \in Heap!Links |-> Sum(x, F)]
    PROVE  Heap!Weight = [x \in Heap!Links |-> Sum(x, Heap!Weight)]
BY Zenon DEF Heap!Weight, Sum

WeightIs == \A F : Fits(F) => \A x \in Heap!Links : Heap!Weight[x] = F[x]

\* Two solutions of the equations differ at no node: at the one of least weight the
\* nodes of which its weight is the sum would be lighter.
LEMMA OneWeight == HeapInv => WeightIs
<1> SUFFICES ASSUME HeapInv, NEW F, Fits(F)
             PROVE  \A x \in Heap!Links : Heap!Weight[x] = F[x]
    BY DEF WeightIs
<1>1. F = [x \in Heap!Links |-> Sum(x, F)]
    BY DEF Fits
<1>2. PICK W : W = Heap!Weight /\ W = [x \in Heap!Links |-> Sum(x, W)]
    BY <1>1, WeightSolves
<1> DEFINE wrong == {F[x] : x \in {y \in Heap!Links : W[y] # F[y]}}
<1>3. ASSUME wrong # {} PROVE FALSE
  <2>1. PICK n \in wrong : \A m \in wrong : n <= m
    <3>1. wrong \in SUBSET Nat
        BY DEF Fits
    <3> HIDE DEF wrong
    <3> QED BY <1>3, <3>1, LeastNumber
  <2>2. PICK x \in Heap!Links : W[x] # F[x] /\ F[x] = n
      BY <2>1
  <2>3. \A z \in Heap!Links : F[z] < n => W[z] = F[z]
    <3> SUFFICES ASSUME NEW z \in Heap!Links, F[z] < n, W[z] # F[z] PROVE FALSE
        OBVIOUS
    <3>1. F[z] \in wrong
        OBVIOUS
    <3>2. F[z] \in Nat /\ n \in Nat
        BY <2>2 DEF Fits
    <3> HIDE DEF wrong
    <3> QED BY <2>1, <3>1, <3>2
  <2> HIDE DEF wrong
  <2>4. W[x] = Sum(x, W) /\ F[x] = Sum(x, F)
      BY <1>1, <1>2
  <2>5. x \in Heap!Kept
      BY <2>2, <2>4 DEF Sum
  <2>6. /\ F[pool[x].l] \in Nat /\ F[x] \in Nat /\ Heap!Beside(x, F) \in Nat
        /\ F[x] = F[pool[x].l] + Heap!Beside(x, F) + 1
      BY <2>5, WeightsAreLess DEF BesideIsLess
  <2>7. F[pool[x].l] < n /\ Heap!Beside(x, F) < n
      BY <2>2, <2>6
  <2>8. BesideFacts /\ LinksIn
      BY BesidePlaces, LinksThere
  <2>9. W[pool[x].l] = F[pool[x].l]
      BY <2>3, <2>5, <2>7, <2>8 DEF LinksIn
  <2>10. Heap!Beside(x, W) = Heap!Beside(x, F)
    <3>1. CASE x \notin Heap!OnPath
      <4>1. /\ Heap!Beside(x, F) = F[pool[x].r] /\ Heap!Beside(x, W) = W[pool[x].r]
            /\ pool[x].r \in Heap!Links
          BY <2>5, <2>8, <3>1 DEF BesideFacts, LinksIn
      <4> QED BY <2>3, <2>7, <4>1
    <3>2. CASE x \in Heap!OnPath
      <4>1. PICK i \in 1..Len(calls) : x = calls[i]
          BY <2>8, <3>2 DEF LinksIn
      <4>2. calls # <<>> /\ Len(calls) \in Nat
          BY <2>8, <4>1 DEF LinksIn
      <4>3. CASE i = 1
        <5>1. /\ Heap!Beside(x, F) = F[mx] + F[my] /\ Heap!Beside(x, W) = W[mx] + W[my]
              /\ mx \in Heap!Links /\ my \in Heap!Links
            BY <2>8, <4>1, <4>2, <4>3 DEF BesideFacts, LinksIn
        <5>2. F[mx] \in Nat /\ F[my] \in Nat
            BY <5>1 DEF Fits
        <5>3. F[mx] < n /\ F[my] < n
            BY <2>2, <2>6, <2>7, <5>1, <5>2
        <5> QED BY <2>3, <5>1, <5>3
      <4>4. CASE i # 1
        <5>1. Heap!Beside(x, F) = F[calls[i - 1]] /\ Heap!Beside(x, W) = W[calls[i - 1]]
            BY <2>8, <4>1, <4>4 DEF BesideFacts
        <5>2. i - 1 \in 1..Len(calls)
            BY <4>1, <4>2, <4>4
        <5>3. calls[i - 1] \in Heap!Links
            BY <2>8, <5>2 DEF LinksIn
        <5> QED BY <2>3, <2>7, <5>1, <5>3
      <4> QED BY <4>3, <4>4
    <3> QED BY <3>1, <3>2
  <2>11. W[x] = F[x]
      BY <2>4, <2>5, <2>9, <2>10 DEF Sum
  <2> QED BY <2>2, <2>11
<1> QED BY <1>2, <1>3

\* The heavy nodes and the credit, by whatever gives the weights.
HeavyIn(F) ==
    {x \in Heap!Kept : 2 * F[IF x \in Heap!OnPath THEN pool[x].l ELSE pool[x].r] >= F[x]}

CreditIn(F) ==
    2 * Cardinality(HeavyIn(F))
    + (IF heapOp = "none" THEN 0
       ELSE IF returned THEN Len(calls) + 1
       ELSE Len(calls) + 2 + 4 * (Heap!Digits(F[mx]) + Heap!Digits(F[my])))

CreditIs == \A F : Fits(F) => Heap!Credit = CreditIn(F)

LEMMA OneCredit == HeapInv => CreditIs
<1> SUFFICES ASSUME HeapInv, NEW F, Fits(F) PROVE Heap!Credit = CreditIn(F)
    BY DEF CreditIs
<1>1. LinksIn /\ \A x \in Heap!Links : Heap!Weight[x] = F[x]
    BY LinksThere, OneWeight DEF WeightIs
<1>2. \A x \in Heap!Kept : x \in Heap!Links
    BY <1>1 DEF LinksIn, Heap!Links
<1>3. Heap!Heavy = HeavyIn(F)
    BY <1>1, <1>2 DEF LinksIn, Heap!Heavy, HeavyIn
<1>4. Heap!Weight[mx] = F[mx] /\ Heap!Weight[my] = F[my]
    BY <1>1 DEF LinksIn
<1> QED BY <1>3, <1>4, SameCount DEF Heap!Credit, CreditIn

----------------------------------------------------------------------------
(* What each step does to weights and credit                               *)

\* The weights that a step leaves, with the credit for them.
LeavesUpTo(c) ==
    \E G : /\ Fits(G)' /\ Total(G)' = Cardinality(Heap!Kept')
           /\ CreditIn(G)' <= c

\* What holds of the state that a step begins in.
Weighed(F) == HeapInv /\ LinksIn /\ BesideFacts /\ BesideIsLess /\ Fits(F) /\ Total(F) = Cardinality(Heap!Kept)

LEMMA Numeric ==
    ASSUME NEW F, Weighed(F)
    PROVE  /\ \A x \in Heap!Links : F[x] \in Nat
           /\ F[Heap!Null] = 0 /\ Heap!Null \in Heap!Links
           /\ IsFiniteSet(HeavyIn(F)) /\ Cardinality(HeavyIn(F)) \in Nat
           /\ HeavyIn(F) \subseteq Heap!Kept /\ IsFiniteSet(Heap!Kept)
           /\ \A n \in Nat : Heap!Digits(n) \in Nat
<1>1. IsFiniteSet(Heap!Kept)
  <2>1. IsFiniteSet(constructed) /\ Heap!Kept \subseteq constructed
      BY SameCount DEF Weighed, HeapInv, Heap!TypeOK, Heap!Kept
  <2> QED BY <2>1, FS_Subset
<1>2. HeavyIn(F) \subseteq Heap!Kept
    BY DEF HeavyIn
<1>3. IsFiniteSet(HeavyIn(F)) /\ Cardinality(HeavyIn(F)) \in Nat
    BY <1>1, <1>2, FS_Subset, FS_CardinalityType
<1>4. Heap!Null \in Heap!Links /\ Heap!Null \notin Heap!Kept
    BY DEF Weighed, LinksIn, Heap!Links
<1>5. F[Heap!Null] = 0
    BY <1>4 DEF Weighed, Fits, Sum
<1>6. \A n \in Nat : Heap!Digits(n) \in Nat
    BY DigitsOf
<1> QED BY <1>1, <1>2, <1>3, <1>4, <1>5, <1>6 DEF Weighed, Fits

\* Steps that change no sum leave the weights.
LEMMA StillFits ==
    ASSUME NEW F, Weighed(F), Heap!Kept' = Heap!Kept,
           \A z \in Heap!Kept : /\ F[pool'[z].l] + Heap!Beside(z, F)' + 1
                                     = F[pool[z].l] + Heap!Beside(z, F) + 1
    PROVE  Fits(F)'
<1>1. F \in [Heap!Links -> Nat] /\ \A x \in Heap!Links : F[x] = Sum(x, F)
    BY DEF Weighed, Fits
<1>2. \A x \in Heap!Links : Sum(x, F)' = Sum(x, F)
    BY DEF Sum
<1> QED BY <1>1, <1>2 DEF Fits

\* The two subtrees come together: each is as heavy as it was.
LEMMA MeetLeaves ==
    ASSUME NEW F, Weighed(F), BesideFacts', Heap!Meet
    PROVE  heapOp # "none" /\ LeavesUpTo(CreditIn(F) - 1)
<1>1. /\ heapOp # "none" /\ heapOp' = heapOp /\ ~returned /\ returned' = TRUE
      /\ mx = Heap!Null \/ my = Heap!Null
      /\ mx' = (IF mx = Heap!Null THEN my ELSE mx) /\ my' = Heap!Null
      /\ UNCHANGED <<pool, heapRoot, constructed, calls>>
    BY DEF Heap!Meet
<1>2. Heap!Kept' = Heap!Kept /\ Heap!OnPath' = Heap!OnPath
    BY <1>1 DEF Heap!Kept, Heap!OnPath
<1>3. /\ F[Heap!Null] = 0 /\ F[mx] \in Nat /\ F[my] \in Nat
      /\ F[mx'] + F[my'] = F[mx] + F[my]
  <2>1. F[Heap!Null] = 0 /\ F[mx] \in Nat /\ F[my] \in Nat
      BY Numeric DEF Weighed, LinksIn
  <2> QED BY <1>1, <2>1
<1>4. ASSUME NEW z \in Heap!Kept PROVE Heap!Beside(z, F)' = Heap!Beside(z, F)
  <2>1. CASE z \notin Heap!OnPath
      BY <1>1, <1>2, <2>1 DEF Weighed, BesideFacts
  <2>2. CASE z \in Heap!OnPath
    <3>1. PICK i \in 1..Len(calls) : z = calls[i]
        BY <2>2 DEF Weighed, LinksIn
    <3>2. calls # <<>>
        BY <3>1 DEF Weighed, LinksIn
    <3>3. CASE i = 1
        BY <1>1, <1>3, <3>1, <3>2, <3>3 DEF Weighed, BesideFacts
    <3>4. CASE i # 1
        BY <1>1, <3>1, <3>4 DEF Weighed, BesideFacts
    <3> QED BY <3>3, <3>4
  <2> QED BY <2>1, <2>2
<1>5. Fits(F)'
    BY <1>1, <1>2, <1>4, StillFits
<1>6. Total(F)' = Cardinality(Heap!Kept')
    BY <1>1, <1>2, <1>3 DEF Weighed, Total
<1>7. HeavyIn(F)' = HeavyIn(F)
    BY <1>1, <1>2 DEF HeavyIn
<1>8. CreditIn(F)' <= CreditIn(F) - 1
  <2>1. PICK h \in Nat, n \in Nat, a \in Nat, b \in Nat :
           /\ h = Cardinality(HeavyIn(F)) /\ n = Len(calls)
           /\ a = Heap!Digits(F[mx]) /\ b = Heap!Digits(F[my])
      BY <1>3, Numeric DEF Weighed, LinksIn
  <2>2. CreditIn(F) = 2 * h + (n + 2 + 4 * (a + b))
      BY <1>1, <2>1 DEF CreditIn
  <2>3. CreditIn(F)' = 2 * h + (n + 1)
      BY <1>1, <1>7, <2>1 DEF CreditIn
  <2> QED BY <2>2, <2>3
<1> QED BY <1>1, <1>5, <1>6, <1>8 DEF LeavesUpTo

\* A return only exchanges what is below a node, which the weights anticipate.
LEMMA AscendLeaves ==
    ASSUME NEW F, Weighed(F), HeapInv', BesideFacts', LinksIn', Heap!Ascend
    PROVE  heapOp # "none" /\ LeavesUpTo(CreditIn(F) - 1)
<1>1. /\ returned /\ calls # <<>> /\ mx' = Head(calls) /\ calls' = Tail(calls)
      /\ pool' = [pool EXCEPT ![Head(calls)].l = mx, ![Head(calls)].r = pool[Head(calls)].l]
      /\ UNCHANGED <<heapRoot, constructed, heapOp, my, returned>>
    BY DEF Heap!Ascend
<1>2. heapOp # "none" /\ my = Heap!Null
    BY <1>1, AtRest DEF Weighed, HeapInv, Heap!HeldOnce
<1>3. /\ Head(calls) = calls[1] /\ Head(calls) \in Heap!Nodes /\ 1 \in 1..Len(calls)
      /\ \A i \in 1..Len(calls) - 1 : calls'[i] = calls[i + 1]
      /\ Heap!OnPath' = Heap!OnPath \ {Head(calls)} /\ Head(calls) \in Heap!OnPath
      /\ DOMAIN calls' = 1..Len(calls) - 1
    BY <1>1, PathShortened DEF Weighed, LinksIn
<1>4. /\ Len(calls') = Len(calls) - 1 /\ Len(calls) \in Nat
      /\ calls' # <<>> <=> Len(calls) > 1
    BY <1>1, <1>3 DEF Weighed, LinksIn
<1>5. PICK h : h = Head(calls)
    OBVIOUS
<1>6. /\ pool'[h].l = mx /\ pool'[h].r = pool[h].l
      /\ \A z \in Heap!Nodes : z # h => pool'[z] = pool[z]
    BY <1>1, <1>3, <1>5 DEF Weighed, HeapInv, Heap!TypeOK
<1>7. Heap!Kept' = Heap!Kept
    BY <1>1 DEF Heap!Kept
<1>8. /\ h \in Heap!Kept /\ h \in Heap!Links /\ Heap!Kept \subseteq Heap!Nodes
      /\ F[Heap!Null] = 0 /\ F[mx] \in Nat /\ F[h] \in Nat /\ F[pool[h].l] \in Nat
  <2>1. h \in Heap!Kept /\ h \in Heap!Links /\ Heap!Kept \subseteq Heap!Nodes
      BY <1>3, <1>5 DEF Weighed, LinksIn, Heap!Links
  <2> QED BY <2>1, Numeric DEF Weighed, LinksIn
<1>9. Heap!Beside(h, F) = F[mx]
    BY <1>1, <1>2, <1>3, <1>5, <1>8 DEF Weighed, BesideFacts
<1>10. Heap!Beside(h, F)' = F[pool[h].l]
    BY <1>3, <1>5, <1>6 DEF BesideFacts
<1>11. ASSUME NEW z \in Heap!Kept, z # h PROVE Heap!Beside(z, F)' = Heap!Beside(z, F)
  <2>1. CASE z \notin Heap!OnPath
    <3>1. z \notin Heap!OnPath' /\ pool'[z] = pool[z]
        BY <1>3, <1>6, <1>8, <1>11, <2>1
    <3> QED BY <2>1, <3>1 DEF Weighed, BesideFacts
  <2>2. CASE z \in Heap!OnPath
    <3>1. PICK i \in 1..Len(calls) : z = calls[i]
        BY <2>2 DEF Weighed, LinksIn
    <3>2. i # 1 /\ i - 1 \in 1..Len(calls) - 1 /\ (i - 1) + 1 = i
        BY <1>3, <1>4, <1>5, <1>11, <3>1
    <3>3. calls'[i - 1] = z /\ i - 1 \in 1..Len(calls')
        BY <1>3, <1>4, <3>1, <3>2
    <3>4. Heap!Beside(z, F) = F[calls[i - 1]]
        BY <3>1, <3>2 DEF Weighed, BesideFacts
    <3>5. CASE i - 1 = 1
      <4>1. Heap!Beside(z, F)' = F[mx'] + F[my']
          BY <1>4, <3>2, <3>3, <3>5 DEF BesideFacts
      <4>2. mx' = h /\ my' = Heap!Null
          BY <1>1, <1>2, <1>5
      <4> QED BY <1>3, <1>5, <1>8, <3>4, <3>5, <4>1, <4>2
    <3>6. CASE i - 1 # 1
      <4>1. Heap!Beside(z, F)' = F[calls'[(i - 1) - 1]]
          BY <3>3, <3>6 DEF BesideFacts
      <4>2. (i - 1) - 1 \in 1..Len(calls) - 1 /\ ((i - 1) - 1) + 1 = i - 1
          BY <1>4, <3>2, <3>6
      <4> QED BY <1>3, <3>4, <4>1, <4>2
    <3> QED BY <3>5, <3>6
  <2> QED BY <2>1, <2>2
<1>12. Fits(F)'
  <2> SUFFICES ASSUME NEW z \in Heap!Kept
               PROVE  F[pool'[z].l] + Heap!Beside(z, F)' + 1 = F[pool[z].l] + Heap!Beside(z, F) + 1
      BY <1>7, StillFits
  <2>1. CASE z = h
      BY <1>6, <1>8, <1>9, <1>10, <2>1
  <2>2. CASE z # h
      BY <1>6, <1>8, <1>11, <2>2
  <2> QED BY <2>1, <2>2
<1>13. Total(F)' = Cardinality(Heap!Kept')
  <2>1. Total(F) = F[calls[Len(calls)]]
      BY <1>1 DEF Total
  <2>2. CASE calls' = <<>>
    <3>1. Len(calls) = 1
        BY <1>3, <1>4, <2>2
    <3>2. Total(F)' = F[mx'] + F[my']
        BY <1>1, <1>2, <2>2 DEF Total
    <3>3. mx' = calls[1] /\ my' = Heap!Null
        BY <1>1, <1>2, <1>3
    <3> QED BY <1>3, <1>5, <1>7, <1>8, <2>1, <3>1, <3>2, <3>3 DEF Weighed
  <2>3. CASE calls' # <<>>
    <3>1. Total(F)' = F[calls'[Len(calls')]]
        BY <2>3 DEF Total
    <3>2. Len(calls) - 1 \in 1..Len(calls) - 1 /\ (Len(calls) - 1) + 1 = Len(calls)
        BY <1>4, <2>3
    <3>3. calls'[Len(calls')] = calls[Len(calls)]
        BY <1>3, <1>4, <3>2
    <3> QED BY <1>7, <2>1, <3>1, <3>3 DEF Weighed
  <2> QED BY <2>2, <2>3
<1>14. HeavyIn(F)' = HeavyIn(F)
  <2>1. ASSUME NEW z \in Heap!Kept
        PROVE  (IF z \in Heap!OnPath' THEN pool'[z].l ELSE pool'[z].r)
                 = (IF z \in Heap!OnPath THEN pool[z].l ELSE pool[z].r)
    <3>1. CASE z = h
        BY <1>3, <1>5, <1>6, <3>1
    <3>2. CASE z # h
        BY <1>3, <1>5, <1>6, <1>8, <3>2
    <3> QED BY <3>1, <3>2
  <2> QED BY <1>7, <2>1 DEF HeavyIn
<1>15. CreditIn(F)' <= CreditIn(F) - 1
  <2>1. PICK c \in Nat, n \in Nat : c = Cardinality(HeavyIn(F)) /\ n = Len(calls)
      BY <1>4, Numeric
  <2>2. CreditIn(F) = 2 * c + (n + 1)
      BY <1>1, <1>2, <2>1 DEF CreditIn
  <2>3. CreditIn(F)' = 2 * c + ((n - 1) + 1)
      BY <1>1, <1>2, <1>4, <1>14, <2>1 DEF CreditIn
  <2> QED BY <2>2, <2>3
<1> QED BY <1>2, <1>12, <1>13, <1>15 DEF LeavesUpTo

\* The last return, and what push() and pop() do after it.
LEMMA ReturnedLeaves ==
    ASSUME NEW F, Weighed(F), HeapInv', BesideFacts', LinksIn', Heap!Pushed \/ Heap!Popped
    PROVE  heapOp # "none" /\ LeavesUpTo(CreditIn(F) - 1)
<1>1. /\ heapOp # "none" /\ heapOp' = "none" /\ returned /\ calls = <<>> /\ calls' = calls
      /\ heapRoot' = mx /\ mx' = Heap!Null /\ my' = Heap!Null
    BY DEF Heap!Pushed, Heap!Popped, Heap!Finish
<1>2. my = Heap!Null
    BY <1>1 DEF Weighed, HeapInv, Heap!HeldOnce
<1>3. Heap!OnPath = {} /\ Heap!OnPath' = {}
    BY <1>1, NoPath DEF Heap!OnPath
<1>4. Heap!Kept' = Heap!Kept /\ \A z \in Heap!Kept : pool'[z] = pool[z]
  <2>1. CASE Heap!Pushed
      BY <2>1 DEF Heap!Pushed, Heap!Finish, Heap!Kept
  <2>2. CASE Heap!Popped
    <3>1. /\ heapOp = "pop" /\ heapOp' = "none" /\ constructed' = constructed \ {heapRoot}
          /\ pool' = [pool EXCEPT ![heapRoot] = Heap!Node(Nothing)]
        BY <2>2 DEF Heap!Popped, Heap!Finish
    <3>2. Heap!Kept = constructed \ {heapRoot} /\ Heap!Kept' = constructed \ {heapRoot}
        BY <3>1 DEF Heap!Kept
    <3>3. \A z \in Heap!Kept : z \in Heap!Nodes /\ z # heapRoot
        BY <3>2 DEF Weighed, LinksIn
    <3> QED BY <3>1, <3>2, <3>3 DEF Weighed, HeapInv, Heap!TypeOK
  <2> QED BY <2>1, <2>2
<1>5. ASSUME NEW z \in Heap!Kept PROVE Heap!Beside(z, F)' = Heap!Beside(z, F)
  <2>1. z \notin Heap!OnPath /\ z \notin Heap!OnPath' /\ pool'[z] = pool[z]
      BY <1>3, <1>4
  <2>2. Heap!Beside(z, F) = F[pool[z].r]
      BY <2>1 DEF Weighed, BesideFacts
  <2>3. Heap!Beside(z, F)' = F[pool'[z].r]
      BY <2>1 DEF BesideFacts
  <2> QED BY <2>1, <2>2, <2>3
<1>6. Fits(F)'
    BY <1>4, <1>5, StillFits
<1>7. Total(F)' = Cardinality(Heap!Kept')
  <2>1. Total(F) = F[mx] + F[my] /\ Total(F)' = F[mx]
      BY <1>1 DEF Total
  <2>2. F[my] = 0 /\ F[mx] \in Nat
      BY <1>2, Numeric DEF Weighed, LinksIn
  <2> QED BY <1>4, <2>1, <2>2 DEF Weighed
<1>8. HeavyIn(F)' = HeavyIn(F)
    BY <1>3, <1>4 DEF HeavyIn
<1>9. CreditIn(F)' <= CreditIn(F) - 1
  <2>1. PICK c \in Nat : c = Cardinality(HeavyIn(F))
      BY Numeric
  <2>2. Len(calls) = 0
      BY <1>1
  <2>3. CreditIn(F) = 2 * c + (0 + 1)
      BY <1>1, <2>1, <2>2 DEF CreditIn
  <2>4. CreditIn(F)' = 2 * c + 0
      BY <1>1, <1>8, <2>1 DEF CreditIn
  <2> QED BY <2>3, <2>4
<1> QED BY <1>1, <1>6, <1>7, <1>9 DEF LeavesUpTo

\* The smaller of two trees comes above the other.  If it was heavy it is not any
\* more, and otherwise at most half of it is left to be merged.
LEMMA DescendLeaves ==
    ASSUME NEW F, Weighed(F), BesideFacts', LinksIn', Heap!Descend
    PROVE  heapOp # "none" /\ LeavesUpTo(CreditIn(F) - 1)
<1>1. /\ UNCHANGED <<pool, heapRoot, constructed, heapOp>> /\ heapOp # "none" /\ ~returned
      /\ mx # Heap!Null /\ my # Heap!Null
    BY DEF Heap!Descend
<1>2. PICK x, y :
         /\ x = IF Heap!Precedes(mx, my) THEN mx ELSE my
         /\ y = IF Heap!Precedes(mx, my) THEN my ELSE mx
         /\ calls' = <<x>> \o calls /\ mx' = pool[x].r /\ my' = y /\ returned' = FALSE
    BY DEF Heap!Descend, Heap!Call
<1>3. /\ x # y /\ ((x = mx /\ y = my) \/ (x = my /\ y = mx))
      /\ x \notin Heap!OnPath /\ x \in Heap!Tops /\ x \in Heap!Kept /\ x # Heap!Null
    BY <1>1, <1>2 DEF Weighed, HeapInv, Heap!HeldOnce, Heap!Tops, Trees
<1>4. Heap!Kept' = Heap!Kept /\ Heap!Kept \subseteq Heap!Links /\ Heap!Kept \subseteq Heap!Nodes
    BY <1>1 DEF Heap!Kept, Weighed, LinksIn, Heap!Links
<1>5. /\ \A z \in Heap!Kept : pool[z].l # x
      /\ \A z \in Heap!Kept \ Heap!OnPath : pool[z].r # x
  <2>1. \A z \in Heap!Kept : x \notin Heap!Children(z)
      BY <1>3 DEF Weighed, HeapInv, Trees
  <2> QED BY <1>3, <2>1 DEF Heap!Children
<1>6. PICK l, r : l = pool[x].l /\ r = pool[x].r
    OBVIOUS
<1>7. /\ calls \in Seq(Heap!Nodes) /\ DOMAIN calls = 1..Len(calls) /\ Len(calls) \in Nat
      /\ Heap!OnPath = {calls[i] : i \in 1..Len(calls)}
    BY DEF Weighed, LinksIn
<1>8. /\ DOMAIN calls' = 1..Len(calls) + 1
      /\ calls'[1] = x /\ \A i \in 1..Len(calls) : calls'[i + 1] = calls[i]
      /\ Heap!OnPath' = Heap!OnPath \cup {x}
    BY <1>2, <1>3, <1>4, <1>7, PathExtended
<1>9. Len(calls') = Len(calls) + 1 /\ calls' # <<>> /\ 1 \in 1..Len(calls')
  <2>1. Len(calls') = Len(calls) + 1
      BY <1>2, <1>3, <1>4, <1>7, PathExtended
  <2>2. Len(calls') # 0 /\ 1 \in 1..Len(calls')
      BY <1>7, <2>1
  <2>3. calls' # <<>>
      BY <2>2
  <2> QED BY <2>1, <2>2, <2>3
<1>10. /\ F[x] \in Nat /\ F[y] \in Nat /\ F[l] \in Nat /\ F[r] \in Nat
       /\ F[x] = F[l] + F[r] + 1 /\ l \in Heap!Links /\ r \in Heap!Links /\ y \in Heap!Links
  <2>1. /\ F[l] \in Nat /\ F[r] \in Nat /\ F[x] \in Nat
        /\ F[x] = F[l] + Heap!Beside(x, F) + 1
      BY <1>3, <1>6 DEF Weighed, BesideIsLess
  <2>2. Heap!Beside(x, F) = F[r]
      BY <1>3, <1>6 DEF Weighed, BesideFacts
  <2>3. y \in Heap!Links /\ l \in Heap!Links /\ r \in Heap!Links
      BY <1>3, <1>6 DEF Weighed, LinksIn
  <2>4. F[y] \in Nat
      BY <2>3 DEF Weighed, Fits
  <2> QED BY <2>1, <2>2, <2>3, <2>4
<1>11. PICK G : G = [F EXCEPT ![x] = F[x] + F[y]]
    OBVIOUS
<1>12. /\ G \in [Heap!Links -> Nat] /\ G[x] = F[x] + F[y]
       /\ \A z \in Heap!Links : z # x => G[z] = F[z]
    BY <1>3, <1>4, <1>10, <1>11 DEF Weighed, Fits
<1>13. G[l] = F[l] /\ G[r] = F[r] /\ G[y] = F[y]
  <2>1. l # x /\ r # x
      BY <1>3, <1>5, <1>6
  <2> QED BY <1>3, <1>10, <1>12, <2>1
<1>14. ASSUME NEW z \in Heap!Kept, z # x PROVE Heap!Beside(z, G)' = Heap!Beside(z, F)
  <2>1. CASE z \notin Heap!OnPath
    <3>1. z \notin Heap!OnPath'
        BY <1>8, <1>14, <2>1
    <3>2. Heap!Beside(z, G)' = G[pool[z].r] /\ Heap!Beside(z, F) = F[pool[z].r]
        BY <1>1, <2>1, <3>1 DEF Weighed, BesideFacts
    <3>3. pool[z].r \in Heap!Links /\ pool[z].r # x
        BY <1>5, <2>1 DEF Weighed, LinksIn
    <3> QED BY <1>12, <3>2, <3>3
  <2>2. CASE z \in Heap!OnPath
    <3>1. PICK i \in 1..Len(calls) : z = calls[i]
        BY <1>7, <2>2
    <3>2. calls'[i + 1] = z /\ i + 1 \in 1..Len(calls') /\ i + 1 # 1 /\ (i + 1) - 1 = i
        BY <1>7, <1>8, <1>9, <3>1
    <3>3. Heap!Beside(z, G)' = G[calls'[i]]
        BY <3>2 DEF BesideFacts
    <3>4. CASE i = 1
      <4>1. Heap!Beside(z, F) = F[mx] + F[my]
        <5>1. calls # <<>>
            BY <1>7, <3>1
        <5> QED BY <3>1, <3>4, <5>1 DEF Weighed, BesideFacts
      <4> QED BY <1>3, <1>8, <1>10, <1>12, <3>3, <3>4, <4>1
    <3>5. CASE i # 1
      <4>1. Heap!Beside(z, F) = F[calls[i - 1]]
          BY <3>1, <3>5 DEF Weighed, BesideFacts
      <4>2. i - 1 \in 1..Len(calls) /\ (i - 1) + 1 = i
          BY <1>7, <3>1, <3>5
      <4>3. calls'[i] = calls[i - 1] /\ calls[i - 1] \in Heap!OnPath
          BY <1>7, <1>8, <4>2
      <4>4. calls[i - 1] # x /\ calls[i - 1] \in Heap!Links
          BY <1>3, <4>2, <4>3 DEF Weighed, LinksIn
      <4> QED BY <1>12, <3>3, <4>1, <4>3, <4>4
    <3> QED BY <3>4, <3>5
  <2> QED BY <2>1, <2>2
<1>15. Fits(G)'
  <2> SUFFICES ASSUME NEW z \in Heap!Links PROVE G[z] = Sum(z, G)'
      BY <1>12 DEF Fits
  <2>1. CASE z \notin Heap!Kept
    <3>1. G[z] = F[z] /\ F[z] = 0
        BY <1>3, <1>12, <2>1 DEF Weighed, Fits, Sum
    <3> QED BY <1>4, <2>1, <3>1 DEF Sum
  <2>2. CASE z \in Heap!Kept
    <3>1. Sum(z, G)' = G[pool[z].l] + Heap!Beside(z, G)' + 1
        BY <1>1, <1>4, <2>2 DEF Sum
    <3>2. G[pool[z].l] = F[pool[z].l]
        BY <1>5, <1>12, <2>2 DEF Weighed, LinksIn
    <3>3. CASE z = x
      <4>1. Heap!Beside(z, G)' = G[mx'] + G[my']
          BY <1>8, <1>9, <3>3 DEF BesideFacts
      <4>2. Heap!Beside(z, G)' = F[r] + F[y]
          BY <1>2, <1>6, <1>13, <4>1
      <4> QED BY <1>6, <1>10, <1>12, <3>1, <3>2, <3>3, <4>2
    <3>4. CASE z # x
      <4>1. G[z] = F[z] /\ F[z] = Sum(z, F)
          BY <1>12, <3>4 DEF Weighed, Fits
      <4> QED BY <1>14, <2>2, <3>1, <3>2, <3>4, <4>1 DEF Sum
    <3> QED BY <3>3, <3>4
  <2> QED BY <2>1, <2>2
<1>16. Total(G)' = Cardinality(Heap!Kept')
  <2>1. Total(G)' = G[calls'[Len(calls')]]
      BY <1>9 DEF Total
  <2>2. CASE calls = <<>>
    <3>1. Total(F) = F[mx] + F[my]
        BY <1>1, <2>2 DEF Total
    <3>2. Len(calls') = 1
        BY <1>9, <2>2
    <3> QED BY <1>3, <1>4, <1>8, <1>10, <1>12, <2>1, <3>1, <3>2 DEF Weighed
  <2>3. CASE calls # <<>>
    <3>1. Total(F) = F[calls[Len(calls)]]
        BY <2>3 DEF Total
    <3>2. Len(calls) \in 1..Len(calls)
        BY <1>7, <2>3, EmptySeq DEF Weighed, LinksIn
    <3>3. calls'[Len(calls')] = calls[Len(calls)] /\ calls[Len(calls)] \in Heap!OnPath
        BY <1>7, <1>8, <1>9, <3>2
    <3>4. calls[Len(calls)] # x /\ calls[Len(calls)] \in Heap!Links
        BY <1>3, <3>2, <3>3 DEF Weighed, LinksIn
    <3> QED BY <1>4, <1>12, <2>1, <3>1, <3>3, <3>4 DEF Weighed
  <2> QED BY <2>2, <2>3
<1>17. /\ x \in HeavyIn(F) <=> 2 * F[r] >= F[x]
       /\ x \in HeavyIn(G)' <=> 2 * F[l] >= F[x] + F[y]
    BY <1>1, <1>3, <1>4, <1>6, <1>8, <1>12, <1>13 DEF HeavyIn
<1>18. HeavyIn(G)' \ {x} = HeavyIn(F) \ {x}
  <2>1. ASSUME NEW z \in Heap!Kept, z # x PROVE z \in HeavyIn(G)' <=> z \in HeavyIn(F)
    <3>1. G[z] = F[z] /\ (z \in Heap!OnPath' <=> z \in Heap!OnPath)
        BY <1>4, <1>8, <1>12, <2>1
    <3>2. CASE z \in Heap!OnPath
      <4>1. G[pool[z].l] = F[pool[z].l]
          BY <1>5, <1>12 DEF Weighed, LinksIn
      <4> QED BY <1>1, <1>4, <3>1, <3>2, <4>1 DEF HeavyIn
    <3>3. CASE z \notin Heap!OnPath
      <4>1. G[pool[z].r] = F[pool[z].r]
          BY <1>5, <1>12, <3>3 DEF Weighed, LinksIn
      <4> QED BY <1>1, <1>4, <3>1, <3>3, <4>1 DEF HeavyIn
    <3> QED BY <3>2, <3>3
  <2>2. HeavyIn(G)' \subseteq Heap!Kept /\ HeavyIn(F) \subseteq Heap!Kept
      BY <1>4 DEF HeavyIn
  <2> QED BY <2>1, <2>2
<1>19. PICK h \in Nat, n \in Nat, a \in Nat, b \in Nat, c \in Nat :
          /\ h = Cardinality(HeavyIn(F)) /\ n = Len(calls) /\ a = Heap!Digits(F[x])
          /\ b = Heap!Digits(F[y]) /\ c = Heap!Digits(F[r])
    BY <1>7, <1>10, Numeric
<1>20. CreditIn(F) = 2 * h + (n + 2 + 4 * (a + b))
  <2>1. Heap!Digits(F[mx]) + Heap!Digits(F[my]) = a + b
      BY <1>3, <1>19
  <2> QED BY <1>1, <1>19, <2>1 DEF CreditIn
<1>21. CreditIn(G)' = 2 * Cardinality(HeavyIn(G)') + (n + 1 + 2 + 4 * (c + b))
    BY <1>1, <1>2, <1>6, <1>9, <1>13, <1>19 DEF CreditIn
<1>22. CASE x \in HeavyIn(F)
  <2>1. HeavyIn(G)' = HeavyIn(F) \ {x}
      BY <1>10, <1>17, <1>18, <1>22
  <2>2. Cardinality(HeavyIn(G)') = h - 1
      BY <1>19, <1>22, <2>1, FS_RemoveElement, Numeric
  <2>3. c <= a
      BY <1>10, <1>19, DigitsGrow
  <2>4. CreditIn(G)' <= CreditIn(F) - 1
      BY <1>20, <1>21, <2>2, <2>3
  <2> QED BY <1>1, <1>15, <1>16, <2>4 DEF LeavesUpTo
<1>23. CASE x \notin HeavyIn(F)
  <2>1. HeavyIn(G)' \subseteq HeavyIn(F) \cup {x}
      BY <1>18
  <2>2. PICK k \in Nat : k = Cardinality(HeavyIn(G)') /\ k <= h + 1
    <3>1. IsFiniteSet(HeavyIn(F) \cup {x}) /\ Cardinality(HeavyIn(F) \cup {x}) = h + 1
        BY <1>19, <1>23, FS_AddElement, Numeric
    <3> QED BY <2>1, <3>1, FS_Subset, FS_CardinalityType
  <2>3. c + 1 <= a
    <3>1. 2 * F[r] + 1 <= F[x]
        BY <1>10, <1>17, <1>23
    <3> QED BY <1>10, <1>19, <3>1, DigitsHalved
  <2>4. CreditIn(G)' <= CreditIn(F) - 1
      BY <1>20, <1>21, <2>2, <2>3
  <2> QED BY <1>1, <1>15, <1>16, <2>4 DEF LeavesUpTo
<1> QED BY <1>22, <1>23

\* Between operations the root weighs as much as there are nodes.
LEMMA Rested ==
    ASSUME NEW F, Weighed(F), heapOp = "none"
    PROVE  /\ Heap!OnPath = {} /\ Heap!Kept = constructed /\ Len(calls) = 0 /\ calls = <<>>
           /\ heapRoot \in Heap!Links /\ F[heapRoot] = heapSize
           /\ heapSize \in Nat /\ Cardinality(constructed) = heapSize
           /\ \A x \in Heap!Kept : Heap!Children(x) = {pool[x].l, pool[x].r} \ {Heap!Null}
           /\ \A x \in Heap!Kept : Heap!Beside(x, F) = F[pool[x].r]
           /\ CreditIn(F) = 2 * Cardinality(HeavyIn(F))
<1>1. /\ Heap!OnPath = {} /\ Heap!Kept = constructed /\ calls = <<>>
      /\ \A x \in Heap!Kept : Heap!Children(x) = {pool[x].l, pool[x].r} \ {Heap!Null}
    BY AtRest DEF Weighed
<1>2. /\ heapRoot \in Heap!Links /\ heapSize \in Nat /\ Cardinality(constructed) = heapSize
    BY HeapNumbers, SameCount DEF Weighed, HeapInv, Heap!TypeOK
<1>3. F[heapRoot] = heapSize
    BY <1>1, <1>2 DEF Weighed, Total
<1>4. \A x \in Heap!Kept : Heap!Beside(x, F) = F[pool[x].r]
    BY <1>1 DEF Weighed, BesideFacts
<1>5. CreditIn(F) = 2 * Cardinality(HeavyIn(F))
  <2>1. PICK c \in Nat : c = Cardinality(HeavyIn(F))
      BY Numeric
  <2>2. CreditIn(F) = 2 * c + 0
      BY <2>1 DEF CreditIn
  <2> QED BY <2>1, <2>2
<1> QED BY <1>1, <1>2, <1>3, <1>4, <1>5

\* A pop takes the root from the weights, and no node becomes heavy.
LEMMA PopLeaves ==
    ASSUME NEW F, Weighed(F), BesideFacts', Heap!Pop
    PROVE  heapOp = "none" /\ LeavesUpTo(CreditIn(F) + 8 * Heap!Digits(heapSize) + 6)
<1>1. /\ heapOp = "none" /\ heapRoot # Heap!Null /\ heapOp' = "pop"
      /\ mx' = pool[heapRoot].l /\ my' = pool[heapRoot].r /\ returned' = FALSE
      /\ UNCHANGED <<pool, heapRoot, constructed, calls>>
    BY DEF Heap!Pop, Heap!Call, Heap!Empty
<1>2. PICK x, l, r : x = heapRoot /\ l = pool[x].l /\ r = pool[x].r
    OBVIOUS
<1>3. /\ Heap!OnPath = {} /\ Heap!Kept = constructed /\ Len(calls) = 0 /\ calls = <<>>
      /\ x \in Heap!Links /\ F[x] = heapSize
      /\ heapSize \in Nat /\ Cardinality(constructed) = heapSize
      /\ \A z \in Heap!Kept : Heap!Children(z) = {pool[z].l, pool[z].r} \ {Heap!Null}
      /\ \A z \in Heap!Kept : Heap!Beside(z, F) = F[pool[z].r]
      /\ CreditIn(F) = 2 * Cardinality(HeavyIn(F))
    BY <1>1, <1>2, Rested
<1>4. x \in Heap!Kept /\ x \in Heap!Tops /\ x # Heap!Null
    BY <1>1, <1>2, <1>3, AtRest, RootFacts DEF Weighed
<1>5. /\ Heap!Kept' = Heap!Kept \ {x} /\ Heap!OnPath' = {} /\ Heap!Kept \subseteq Heap!Links
    BY <1>1, <1>2, <1>3 DEF Heap!Kept, Heap!OnPath, Weighed, LinksIn, Heap!Links
<1>6. \A z \in Heap!Kept : pool[z].l # x /\ pool[z].r # x
  <2>1. \A z \in Heap!Kept : x \notin Heap!Children(z)
      BY <1>4 DEF Weighed, HeapInv, Trees
  <2> QED BY <1>3, <1>4, <2>1
<1>7. /\ F[x] \in Nat /\ F[l] \in Nat /\ F[r] \in Nat /\ F[x] = F[l] + F[r] + 1
      /\ l \in Heap!Links /\ r \in Heap!Links /\ l # x /\ r # x
  <2>1. /\ F[l] \in Nat /\ F[r] \in Nat /\ F[x] \in Nat
        /\ F[x] = F[l] + Heap!Beside(x, F) + 1
      BY <1>2, <1>4 DEF Weighed, BesideIsLess
  <2>2. Heap!Beside(x, F) = F[r]
      BY <1>2, <1>3, <1>4
  <2>3. l \in Heap!Links /\ r \in Heap!Links
      BY <1>2, <1>4 DEF Weighed, LinksIn
  <2>4. l # x /\ r # x
      BY <1>2, <1>4, <1>6
  <2> QED BY <2>1, <2>2, <2>3, <2>4
<1>8. PICK G : G = [F EXCEPT ![x] = 0]
    OBVIOUS
<1>9. /\ G \in [Heap!Links -> Nat] /\ G[x] = 0
      /\ \A z \in Heap!Links : z # x => G[z] = F[z]
    BY <1>3, <1>8 DEF Weighed, Fits
<1>10. \A z \in Heap!Kept : /\ G[pool[z].l] = F[pool[z].l]
                            /\ G[pool[z].r] = F[pool[z].r]
  <2> SUFFICES ASSUME NEW z \in Heap!Kept
               PROVE  G[pool[z].l] = F[pool[z].l] /\ G[pool[z].r] = F[pool[z].r]
      OBVIOUS
  <2>1. pool[z].l \in Heap!Links /\ pool[z].r \in Heap!Links
      BY DEF Weighed, LinksIn
  <2>2. pool[z].l # x /\ pool[z].r # x
      BY <1>6
  <2> QED BY <1>9, <2>1, <2>2
<1>11. Fits(G)'
  <2> SUFFICES ASSUME NEW z \in Heap!Links PROVE G[z] = Sum(z, G)'
      BY <1>9 DEF Fits
  <2>1. CASE z = x
      BY <1>5, <1>9, <2>1 DEF Sum
  <2>2. CASE z # x /\ z \notin Heap!Kept
    <3>1. G[z] = F[z] /\ F[z] = 0
        BY <1>9, <2>2 DEF Weighed, Fits, Sum
    <3> QED BY <1>5, <2>2, <3>1 DEF Sum
  <2>3. CASE z # x /\ z \in Heap!Kept
    <3>1. Sum(z, G)' = G[pool[z].l] + Heap!Beside(z, G)' + 1
        BY <1>1, <1>5, <2>3 DEF Sum
    <3>2. Heap!Beside(z, G)' = G[pool[z].r]
        BY <1>1, <1>5 DEF BesideFacts
    <3>3. G[z] = F[z] /\ F[z] = F[pool[z].l] + F[pool[z].r] + 1
        BY <1>3, <1>9, <2>3 DEF Weighed, Fits, Sum
    <3> QED BY <1>10, <2>3, <3>1, <3>2, <3>3
  <2> QED BY <2>1, <2>2, <2>3
<1>12. IsFiniteSet(Heap!Kept) /\ Cardinality(Heap!Kept \ {x}) = heapSize - 1
  <2>1. IsFiniteSet(Heap!Kept)
      BY Numeric
  <2>2. Cardinality(Heap!Kept \ {x}) = Cardinality(Heap!Kept) - 1
      BY <1>4, <2>1, FS_RemoveElement
  <2> QED BY <1>3, <2>1, <2>2
<1>13. G[l] = F[l] /\ G[r] = F[r]
    BY <1>7, <1>9
<1>14. Total(G)' = Cardinality(Heap!Kept')
  <2>1. Total(G)' = G[l] + G[r]
      BY <1>1, <1>2, <1>3 DEF Total
  <2> QED BY <1>3, <1>5, <1>7, <1>12, <1>13, <2>1
<1>15. HeavyIn(G)' \subseteq HeavyIn(F)
  <2> SUFFICES ASSUME NEW z \in Heap!Kept, z # x, z \in HeavyIn(G)' PROVE z \in HeavyIn(F)
      BY <1>5 DEF HeavyIn
  <2>1. 2 * G[pool[z].r] >= G[z]
      BY <1>1, <1>5 DEF HeavyIn
  <2>2. G[z] = F[z]
      BY <1>5, <1>9
  <2> QED BY <1>3, <1>10, <2>1, <2>2 DEF HeavyIn
<1>16. PICK h \in Nat, g \in Nat, d \in Nat, a \in Nat, b \in Nat :
          /\ h = Cardinality(HeavyIn(F)) /\ g = Cardinality(HeavyIn(G)') /\ g <= h
          /\ d = Heap!Digits(heapSize) /\ a = Heap!Digits(F[l]) /\ b = Heap!Digits(F[r])
  <2>1. /\ Cardinality(HeavyIn(G)') \in Nat /\ Cardinality(HeavyIn(F)) \in Nat
        /\ Cardinality(HeavyIn(G)') <= Cardinality(HeavyIn(F))
      BY <1>15, FS_Subset, FS_CardinalityType, Numeric
  <2>2. Heap!Digits(heapSize) \in Nat /\ Heap!Digits(F[l]) \in Nat /\ Heap!Digits(F[r]) \in Nat
      BY <1>3, <1>7, Numeric
  <2> QED BY <2>1, <2>2
<1>17. a <= d /\ b <= d
  <2>1. F[l] <= heapSize /\ F[r] <= heapSize
      BY <1>3, <1>7
  <2>2. Heap!Digits(F[l]) <= Heap!Digits(heapSize)
      BY <1>3, <1>7, <2>1, DigitsGrow
  <2>3. Heap!Digits(F[r]) <= Heap!Digits(heapSize)
      BY <1>3, <1>7, <2>1, DigitsGrow
  <2> QED BY <1>16, <2>2, <2>3
<1>18. CreditIn(G)' = 2 * g + (0 + 2 + 4 * (a + b))
    BY <1>1, <1>2, <1>3, <1>13, <1>16 DEF CreditIn
<1>19. CreditIn(G)' <= CreditIn(F) + 8 * Heap!Digits(heapSize) + 6
  <2>1. CreditIn(F) = 2 * h /\ heapSize \in Nat
      BY <1>3, <1>16
  <2>2. 2 * g + (0 + 2 + 4 * (a + b)) <= 2 * h + 8 * d + 6
      BY <1>16, <1>17
  <2> QED BY <1>16, <1>18, <2>1, <2>2
<1> QED BY <1>1, <1>11, <1>14, <1>19 DEF LeavesUpTo

\* A push adds a node of weight 1, which is not heavy.
LEMMA PushLeaves ==
    ASSUME NEW F, Weighed(F), BesideFacts', NEW k \in HeapKeys, Heap!PushIntoFree(k)
    PROVE  heapOp = "none" /\ LeavesUpTo(CreditIn(F) + 8 * Heap!Digits(heapSize) + 6)
<1>1. PICK x : x = heapSize
    OBVIOUS
<1>2. /\ heapOp = "none" /\ heapSize < HeapSize /\ x \notin constructed
      /\ pool' = [pool EXCEPT ![x] = Heap!Node(k)]
      /\ constructed' = constructed \cup {x} /\ heapOp' = "push" /\ mx' = heapRoot /\ my' = x
      /\ returned' = FALSE /\ UNCHANGED <<heapRoot, calls>>
  <2>1. heapSize \in Nat /\ ~(heapSize >= HeapSize) /\ HeapSize \in Nat
      BY HeapNumbers DEF Weighed, HeapInv, Heap!TypeOK, Heap!PushIntoFree, Heap!Push, Heap!Full
  <2> QED BY <1>1, <2>1 DEF Heap!PushIntoFree, Heap!Push, Heap!Call
<1>3. /\ Heap!OnPath = {} /\ Heap!Kept = constructed /\ Len(calls) = 0 /\ calls = <<>>
      /\ heapRoot \in Heap!Links /\ F[heapRoot] = heapSize
      /\ heapSize \in Nat /\ Cardinality(constructed) = heapSize
      /\ \A z \in Heap!Kept : Heap!Children(z) = {pool[z].l, pool[z].r} \ {Heap!Null}
      /\ \A z \in Heap!Kept : Heap!Beside(z, F) = F[pool[z].r]
      /\ CreditIn(F) = 2 * Cardinality(HeavyIn(F))
    BY <1>2, Rested
<1>4. /\ Heap!Kept' = Heap!Kept \cup {x} /\ x \notin Heap!Kept /\ Heap!OnPath' = {}
      /\ Heap!Kept \subseteq Heap!Nodes
    BY <1>2, <1>3 DEF Heap!Kept, Heap!OnPath, Weighed, LinksIn
<1>5. /\ x \in Heap!Nodes /\ x \in Heap!Links /\ x # Heap!Null
    BY <1>1, <1>2, <1>3, HeapNumbers, NullIsNoNode DEF Heap!Nodes, Heap!Links
<1>6. /\ pool'[x].l = Heap!Null /\ pool'[x].r = Heap!Null
      /\ \A z \in Heap!Kept : pool'[z] = pool[z]
    BY <1>2, <1>4, <1>5 DEF Heap!Node, Weighed, HeapInv, Heap!TypeOK
<1>7. heapRoot # x /\ \A z \in Heap!Kept : pool[z].l # x /\ pool[z].r # x
  <2>1. \A z \in Heap!Kept : x \notin Heap!Children(z)
      BY <1>4 DEF Weighed, HeapInv, Trees
  <2>2. x \notin Heap!Tops
      BY <1>4 DEF Weighed, HeapInv, Trees
  <2> QED BY <1>2, <1>3, <1>5, <2>1, <2>2 DEF Heap!Tops
<1>8. F[x] = 0 /\ F[Heap!Null] = 0 /\ Heap!Null \in Heap!Links
    BY <1>4, <1>5, Numeric DEF Weighed, Fits, Sum
<1>9. PICK G : G = [F EXCEPT ![x] = 1]
    OBVIOUS
<1>10. /\ G \in [Heap!Links -> Nat] /\ G[x] = 1
       /\ \A z \in Heap!Links : z # x => G[z] = F[z]
    BY <1>5, <1>9 DEF Weighed, Fits
<1>11. /\ G[Heap!Null] = 0 /\ G[heapRoot] = heapSize
       /\ \A z \in Heap!Kept : /\ G[pool[z].l] = F[pool[z].l]
                               /\ G[pool[z].r] = F[pool[z].r] /\ G[z] = F[z]
  <2>1. G[Heap!Null] = 0 /\ G[heapRoot] = heapSize
      BY <1>3, <1>5, <1>7, <1>8, <1>10
  <2>2. ASSUME NEW z \in Heap!Kept
        PROVE  /\ G[pool[z].l] = F[pool[z].l]
               /\ G[pool[z].r] = F[pool[z].r] /\ G[z] = F[z]
    <3>1. pool[z].l \in Heap!Links /\ pool[z].r \in Heap!Links /\ z \in Heap!Links /\ z # x
        BY <1>4, <2>2 DEF Weighed, LinksIn, Heap!Links
    <3>2. pool[z].l # x /\ pool[z].r # x
        BY <1>7, <2>2
    <3> QED BY <1>10, <3>1, <3>2
  <2> QED BY <2>1, <2>2
<1>12. Fits(G)'
  <2> SUFFICES ASSUME NEW z \in Heap!Links PROVE G[z] = Sum(z, G)'
      BY <1>10 DEF Fits
  <2>1. CASE z = x
    <3>1. Sum(z, G)' = G[Heap!Null] + Heap!Beside(z, G)' + 1
        BY <1>4, <1>6, <2>1 DEF Sum
    <3>2. Heap!Beside(z, G)' = G[Heap!Null]
        BY <1>4, <1>6, <2>1 DEF BesideFacts
    <3> QED BY <1>10, <1>11, <2>1, <3>1, <3>2
  <2>2. CASE z # x /\ z \notin Heap!Kept
    <3>1. G[z] = F[z] /\ F[z] = 0
        BY <1>10, <2>2 DEF Weighed, Fits, Sum
    <3> QED BY <1>4, <2>2, <3>1 DEF Sum
  <2>3. CASE z \in Heap!Kept
    <3>1. Sum(z, G)' = G[pool[z].l] + Heap!Beside(z, G)' + 1
        BY <1>4, <1>6, <2>3 DEF Sum
    <3>2. Heap!Beside(z, G)' = G[pool[z].r]
        BY <1>4, <1>6, <2>3 DEF BesideFacts
    <3>3. F[z] = F[pool[z].l] + F[pool[z].r] + 1
        BY <1>3, <2>3 DEF Weighed, Fits, Sum
    <3> QED BY <1>11, <2>3, <3>1, <3>2, <3>3
  <2> QED BY <2>1, <2>2, <2>3
<1>13. Total(G)' = Cardinality(Heap!Kept')
  <2>1. Total(G)' = G[heapRoot] + G[x]
      BY <1>2, <1>3 DEF Total
  <2>2. Cardinality(Heap!Kept \cup {x}) = heapSize + 1
      BY <1>3, <1>4, FS_AddElement, Numeric
  <2> QED BY <1>4, <1>10, <1>11, <2>1, <2>2
<1>14. HeavyIn(G)' = HeavyIn(F)
  <2>1. x \notin HeavyIn(G)'
    <3>1. ~(2 * G[pool'[x].r] >= G[x])
        BY <1>6, <1>10, <1>11
    <3> QED BY <1>4, <3>1 DEF HeavyIn
  <2>2. ASSUME NEW z \in Heap!Kept PROVE z \in HeavyIn(G)' <=> z \in HeavyIn(F)
      BY <1>3, <1>4, <1>6, <1>11, <2>2 DEF HeavyIn
  <2>3. HeavyIn(G)' \subseteq Heap!Kept \cup {x} /\ HeavyIn(F) \subseteq Heap!Kept
      BY <1>4 DEF HeavyIn
  <2> QED BY <2>1, <2>2, <2>3
<1>15. PICK h \in Nat, d \in Nat : h = Cardinality(HeavyIn(F)) /\ d = Heap!Digits(heapSize)
    BY <1>3, Numeric
<1>16. CreditIn(G)' = 2 * h + (0 + 2 + 4 * (d + 1))
    BY <1>2, <1>3, <1>10, <1>11, <1>14, <1>15, DigitsOne DEF CreditIn
<1>17. CreditIn(G)' <= CreditIn(F) + 8 * Heap!Digits(heapSize) + 6
    BY <1>3, <1>15, <1>16
<1> QED BY <1>2, <1>12, <1>13, <1>17 DEF LeavesUpTo

\* The credit is a number.
NumbersIn == \A F : Weighed(F) => CreditIn(F) \in Nat

LEMMA CreditsAreNumbers == NumbersIn
<1> SUFFICES ASSUME NEW F, Weighed(F) PROVE CreditIn(F) \in Nat
    BY DEF NumbersIn
<1>1. PICK h \in Nat, n \in Nat, a \in Nat, b \in Nat :
         /\ h = Cardinality(HeavyIn(F)) /\ n = Len(calls)
         /\ a = Heap!Digits(F[mx]) /\ b = Heap!Digits(F[my])
    BY Numeric DEF Weighed, LinksIn
<1>2. \/ CreditIn(F) = 2 * h + 0
      \/ CreditIn(F) = 2 * h + (n + 1)
      \/ CreditIn(F) = 2 * h + (n + 2 + 4 * (a + b))
    BY <1>1 DEF CreditIn
<1> QED BY <1>2

\* A pop of an empty heap, and a step that changes nothing.
LEMMA StillLeaves ==
    ASSUME NEW F, Weighed(F),
           UNCHANGED <<pool, heapRoot, constructed, heapOp, mx, my, returned, calls>>
    PROVE  /\ LeavesUpTo(CreditIn(F))
           /\ LeavesUpTo(CreditIn(F) + 8 * Heap!Digits(heapSize) + 6)
<1>1. Heap!Kept' = Heap!Kept /\ Heap!OnPath' = Heap!OnPath
    BY DEF Heap!Kept, Heap!OnPath
<1>2. ASSUME NEW z \in Heap!Kept PROVE Heap!Beside(z, F)' = Heap!Beside(z, F)
    BY <1>1 DEF Heap!Beside, Heap!Inner
<1>3. Fits(F)'
    BY <1>1, <1>2, StillFits
<1>4. Total(F)' = Cardinality(Heap!Kept')
    BY <1>1 DEF Weighed, Total
<1>5. HeavyIn(F)' = HeavyIn(F)
    BY <1>1 DEF HeavyIn
<1>6. CreditIn(F)' = CreditIn(F)
    BY <1>5 DEF CreditIn
<1>7. PICK c \in Nat, d \in Nat : c = CreditIn(F) /\ d = Heap!Digits(heapSize)
  <2>1. heapSize \in Nat
      BY HeapNumbers DEF Weighed, HeapInv, Heap!TypeOK
  <2> QED BY <2>1, CreditsAreNumbers, Numeric DEF NumbersIn
<1>8. CreditIn(F)' <= CreditIn(F) /\ CreditIn(F)' <= CreditIn(F) + 8 * Heap!Digits(heapSize) + 6
    BY <1>6, <1>7
<1> QED BY <1>3, <1>4, <1>8 DEF LeavesUpTo

LEMMA WeightInit == Heap!Init => WeightInv /\ Heap!Credit = 0
<1> SUFFICES ASSUME Heap!Init PROVE WeightInv /\ Heap!Credit = 0
    OBVIOUS
<1>1. /\ heapRoot = Heap!Null /\ constructed = {} /\ heapOp = "none" /\ calls = <<>>
    BY DEF Heap!Init
<1>2. Heap!Kept = {} /\ Cardinality({}) = 0
    BY <1>1, FS_EmptySet DEF Heap!Kept
<1>3. PICK F : F = [x \in Heap!Links |-> 0]
    OBVIOUS
<1>4. Fits(F)
    BY <1>2, <1>3 DEF Fits, Sum
<1>5. Total(F) = 0
    BY <1>1, <1>3 DEF Total, Heap!Links
<1>6. CreditIn(F) = 0
  <2>1. HeavyIn(F) = {}
      BY <1>2 DEF HeavyIn
  <2> QED BY <1>1, <1>2, <2>1 DEF CreditIn
<1>7. Heap!Credit = CreditIn(F)
    BY <1>4, HeapInitInv, OneCredit DEF CreditIs
<1> QED BY <1>2, <1>4, <1>5, <1>6, <1>7 DEF WeightInv

\* Every step leaves weights, and less credit than before if it is one of an
\* operation that is under way.
LEMMA StepLeaves ==
    ASSUME NEW F, Weighed(F), HeapInv', BesideFacts', LinksIn', [Heap!NextIntoFree]_Heap!vars
    PROVE  \/ UNCHANGED Heap!vars /\ LeavesUpTo(CreditIn(F))
           \/ heapOp # "none" /\ LeavesUpTo(CreditIn(F) - 1)
           \/ heapOp = "none" /\ LeavesUpTo(CreditIn(F) + 8 * Heap!Digits(heapSize) + 6)
<1>1. CASE UNCHANGED Heap!vars
    BY <1>1, StillLeaves DEF Heap!vars
<1>2. CASE Heap!PopEmpty
    BY <1>2, StillLeaves DEF Heap!PopEmpty
<1>3. CASE \E k \in HeapKeys : Heap!PushIntoFree(k)
    BY <1>3, PushLeaves
<1>4. CASE Heap!Pop
    BY <1>4, PopLeaves
<1>5. CASE Heap!Merging
    BY <1>5, MeetLeaves, DescendLeaves, AscendLeaves, ReturnedLeaves DEF Heap!Merging
<1> QED BY <1>1, <1>2, <1>3, <1>4, <1>5 DEF Heap!NextIntoFree

\* What holds in every state, and so in the one after a step.
LEMMA InvFacts == HeapInv => BesideFacts /\ LinksIn /\ BesideIsLess /\ CreditIs
BY BesidePlaces, LinksThere, WeightsAreLess, OneCredit

LEMMA NextFacts == (HeapInv => BesideFacts /\ LinksIn /\ BesideIsLess /\ CreditIs)' /\ NumbersIn'
BY InvFacts, CreditsAreNumbers, PTL

LEMMA WeightStep ==
    ASSUME HeapInv, WeightInv, [Heap!NextIntoFree]_Heap!vars
    PROVE  /\ WeightInv'
           /\ [/\ 0 <= Heap!Credit'
               /\ IF heapOp = "none" THEN Heap!Credit' <= Heap!Credit + 8 * Heap!Digits(heapSize) + 6
                  ELSE Heap!Credit' < Heap!Credit]_Heap!vars
<1>1. HeapInv' /\ BesideFacts' /\ LinksIn' /\ BesideIsLess' /\ CreditIs' /\ NumbersIn'
    BY HeapNextInv, NextFacts
<1>2. PICK F : Weighed(F)
    BY InvFacts DEF WeightInv, Weighed
<1>3. PICK c \in Nat : c = CreditIn(F) /\ Heap!Credit = c
    BY <1>2, InvFacts, CreditsAreNumbers DEF NumbersIn, CreditIs, Weighed
<1>4. ASSUME NEW b, LeavesUpTo(b)
      PROVE  WeightInv' /\ Heap!Credit' \in Nat /\ Heap!Credit' <= b
  <2>1. PICK G : /\ Fits(G)' /\ Total(G)' = Cardinality(Heap!Kept')
                 /\ CreditIn(G)' <= b
      BY <1>4 DEF LeavesUpTo
  <2>2. Weighed(G)'
      BY <1>1, <2>1 DEF Weighed
  <2>3. Heap!Credit' = CreditIn(G)' /\ CreditIn(G)' \in Nat
      BY <1>1, <2>1, <2>2 DEF CreditIs, NumbersIn
  <2> QED BY <2>1, <2>3 DEF WeightInv
<1>5. CASE UNCHANGED Heap!vars /\ LeavesUpTo(CreditIn(F))
    BY <1>4, <1>5
<1>6. CASE heapOp # "none" /\ LeavesUpTo(CreditIn(F) - 1)
    BY <1>3, <1>4, <1>6
<1>7. CASE heapOp = "none" /\ LeavesUpTo(CreditIn(F) + 8 * Heap!Digits(heapSize) + 6)
    BY <1>3, <1>4, <1>7
<1> QED BY <1>1, <1>2, <1>5, <1>6, <1>7, StepLeaves

\* push and pop take O(lg n) amortized time, as the note on merge says, where
\* pushes find their node free: in a heap of any size an operation adds O(lg n) to
\* the credit, which is 0 at first and never negative, and each of its steps takes
\* one from it.
THEOREM HeapIsFast == Heap!SpecIntoFree => MergesInLogarithmicTime
<1>1. Heap!Init => HeapInv /\ WeightInv /\ Heap!Credit = 0
    BY HeapInitInv, WeightInit
<1>2. HeapInv /\ WeightInv /\ [Heap!NextIntoFree]_Heap!vars
      => /\ HeapInv' /\ WeightInv'
         /\ [/\ 0 <= Heap!Credit'
             /\ IF heapOp = "none" THEN Heap!Credit' <= Heap!Credit + 8 * Heap!Digits(heapSize) + 6
                ELSE Heap!Credit' < Heap!Credit]_Heap!vars
    BY HeapNextInv, WeightStep
<1> QED BY <1>1, <1>2, PTL DEF Heap!SpecIntoFree, MergesInLogarithmicTime, Heap!AmortizedLogarithmicTime

=============================================================================
