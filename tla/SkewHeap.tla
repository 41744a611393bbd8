------------------------------ MODULE SkewHeap ------------------------------
(***************************************************************************)
(* container::skew_heap (include/container/skew_heap.hpp): a heap of nodes *)
(* in a pool of N.  A node is taken from the pool at index size_ and given *)
(* back by counting size_ down, whichever node it was: after a pop the     *)
(* node at index size_ may still be in the heap.                           *)
(*                                                                         *)
(* merge() calls itself, so a step is one call of it or one return; push() *)
(* and pop() are what comes before the outermost call and after its        *)
(* return.                                                                 *)
(*                                                                         *)
(* Keys are integers, whose destructor leaves them in place (lines 54-58   *)
(* read the key of a destroyed node).                                      *)
(***************************************************************************)
EXTENDS Integers, Sequences, FiniteSets

CONSTANTS Keys,       \* the keys a user pushes
          Nothing,    \* std::nullopt, not a key
          N           \* the constructor's argument n

HeapAssumption == Keys \subseteq Int /\ Nothing \in Int \ Keys /\ N \in Nat \ {0}

VARIABLES pool,       \* pool_: the bytes of every node
          root,       \* root_
          size,       \* size_
          live,       \* the nodes that are constructed
          popped,     \* the result of the last pop()
          op,         \* the operation under way: "push", "pop" or "none"
          mx, my,     \* the arguments x and y of the innermost merge()
          returned,   \* it has returned mx
          path        \* the x of the calls around it, the innermost first

vars == <<pool, root, size, live, popped, op, mx, my, returned, path>>

Null == -1
Nodes == 0..N - 1
Links == Nodes \cup {Null}
Node(k) == [l |-> Null, r |-> Null, key |-> k]

Init ==
    /\ pool = [x \in Nodes |-> Node(Nothing)]
    /\ root = Null
    /\ size = 0
    /\ live = {}
    /\ popped = Nothing
    /\ op = "none" /\ mx = Null /\ my = Null /\ returned = FALSE /\ path = <<>>

Empty == root = Null

Full == size >= N

\* Mutation: the node with the larger key comes first.
Precedes_Swapped(x, y) == pool[y].key < pool[x].key

\* cmp_(x->key, y->key)
Precedes(x, y) == pool[x].key < pool[y].key

\* merge(x, y) is called.
Call(x, y) == mx' = x /\ my' = y /\ returned' = FALSE

\* Nothing is called any more.
Finish == /\ op' = "none"
          /\ mx' = Null /\ my' = Null /\ returned' = FALSE /\ UNCHANGED path

----------------------------------------------------------------------------
(* The steps of merge() *)

\* Lines 76-81: one of the two is NIL, the other is returned.
Meet ==
    /\ op # "none" /\ ~returned
    /\ mx = Null \/ my = Null
    /\ mx' = (IF mx = Null THEN my ELSE mx) /\ my' = Null
    /\ returned' = TRUE
    /\ UNCHANGED <<pool, root, size, live, popped, op, path>>

\* Lines 82-85: the right child of the smaller one is merged with the other.
Descend ==
    /\ op # "none" /\ ~returned
    /\ mx # Null /\ my # Null
    /\ LET x == IF Precedes(mx, my) THEN mx ELSE my
           y == IF Precedes(mx, my) THEN my ELSE mx
       IN  path' = <<x>> \o path /\ Call(pool[x].r, y)
    /\ UNCHANGED <<pool, root, size, live, popped, op>>

\* Mutation: the right child is not moved to the left but lost.
Ascend_DropsChild ==
    /\ returned /\ path # <<>>
    /\ pool' = [pool EXCEPT ![Head(path)].l = mx]
    /\ mx' = Head(path)
    /\ path' = Tail(path)
    /\ UNCHANGED <<root, size, live, popped, op, my, returned>>

\* Mutation: the children are not exchanged.
Ascend_Unswapped ==
    /\ returned /\ path # <<>>
    /\ pool' = [pool EXCEPT ![Head(path)].r = mx]
    /\ mx' = Head(path)
    /\ path' = Tail(path)
    /\ UNCHANGED <<root, size, live, popped, op, my, returned>>

\* Lines 85-87: what was merged becomes the left child, the left the right one.
Ascend ==
    /\ returned /\ path # <<>>
    /\ pool' = [pool EXCEPT ![Head(path)].l = mx, ![Head(path)].r = pool[Head(path)].l]
    /\ mx' = Head(path)
    /\ path' = Tail(path)
    /\ UNCHANGED <<root, size, live, popped, op, my, returned>>

----------------------------------------------------------------------------
(* The operations *)

\* create_node, whose BOOST_ASSERT_MSG(!full(), ...) says that a user pushes
\* onto a heap that is not full, takes pool_ + size_.
Push(k) ==
    /\ op = "none" /\ ~Full
    /\ pool' = [pool EXCEPT ![size] = Node(k)]
    /\ size' = size + 1
    /\ live' = live \cup {size}
    /\ op' = "push" /\ Call(root, size)
    /\ UNCHANGED <<root, popped, path>>

Pushed ==
    /\ op = "push" /\ returned /\ path = <<>>
    /\ root' = mx
    /\ Finish
    /\ UNCHANGED <<pool, size, live, popped>>

PopEmpty ==
    /\ op = "none" /\ Empty
    /\ popped' = Nothing
    /\ UNCHANGED <<pool, root, size, live, op, mx, my, returned, path>>

Pop ==
    /\ op = "none" /\ ~Empty
    /\ op' = "pop" /\ Call(pool[root].l, pool[root].r)
    /\ UNCHANGED <<pool, root, size, live, popped, path>>

\* The old root is destroyed and its key read through k, a reference to it.
\* Nothing else reads a destroyed node, and a push constructs it whole: of its
\* bytes nothing is kept.
Popped ==
    /\ op = "pop" /\ returned /\ path = <<>>
    /\ root' = mx
    /\ popped' = pool[root].key
    /\ pool' = [pool EXCEPT ![root] = Node(Nothing)]
    /\ size' = size - 1
    /\ live' = live \ {root}
    /\ Finish

Merging == Meet \/ Descend \/ Ascend \/ Pushed \/ Popped

\* Every use of the heap.
Next == (\E k \in Keys : Push(k)) \/ PopEmpty \/ Pop \/ Merging

Spec == Init /\ [][Next]_vars

\* The uses in which a push finds the node at index size_ free, as it is when
\* everything is pushed before anything is popped (test/skew_heap/main.cpp).
PushIntoFree(k) == size \notin live /\ Push(k)

NextIntoFree == (\E k \in Keys : PushIntoFree(k)) \/ PopEmpty \/ Pop \/ Merging

SpecIntoFree == Init /\ [][NextIntoFree]_vars

----------------------------------------------------------------------------
(* Properties *)

\* Every variable holds a value of its type, and size_ counts the nodes.
TypeOK ==
    /\ pool \in [Nodes -> [l : Links, r : Links, key : Keys \cup {Nothing}]]
    /\ root \in Links
    /\ size \in 0..N
    /\ live \in SUBSET Nodes
    /\ popped \in Keys \cup {Nothing}
    /\ op \in {"none", "push", "pop"}
    /\ {mx, my} \subseteq Links
    /\ returned \in BOOLEAN
    /\ path \in Seq(Nodes)
    /\ \A x \in live : pool[x].key \in Keys
    /\ IsFiniteSet(live) /\ size = Cardinality(live)

\* The nodes that are in the heap, or will be when the operation is done.
Kept == IF op = "pop" THEN live \ {root} ELSE live

OnPath == {path[i] : i \in DOMAIN path}

\* The nodes that the operation holds itself, as nothing links to them.
Tops == (IF op = "none" THEN {root} ELSE {mx, my} \cup OnPath) \ {Null}

\* The children of a node: its right link is out of date while what it linked
\* to is being merged.
Children(x) == (IF x \in OnPath THEN {pool[x].l} ELSE {pool[x].l, pool[x].r}) \ {Null}

\* The constructed nodes are kept in trees: each is held or the child of exactly
\* one of them, on one side, and all are reached.  Between operations that is one
\* tree, so that merge() loses no node and postorder_destroy_nodes (lines
\* 106-113) destroys each once.
KeptInTrees ==
    /\ Tops \cup UNION {Children(x) : x \in Kept} = Kept
    /\ \A x \in Kept : Children(x) \cap Tops = {}
    /\ \A x, y \in Kept : Children(x) \cap Children(y) # {} => x = y
    /\ \A x \in Kept \ OnPath : pool[x].l = pool[x].r => pool[x].l = Null
    /\ \A C \in SUBSET Kept :
          Tops \subseteq C /\ UNION {Children(x) : x \in C} \subseteq C => C = Kept

\* The calls of merge() hold different nodes, and there are none between
\* operations.
HeldOnce ==
    /\ op = "none" => path = <<>> /\ mx = Null /\ my = Null /\ ~returned
    /\ returned => my = Null
    /\ mx = my => mx = Null
    /\ {mx, my} \cap OnPath = {}
    /\ \A i, j \in DOMAIN path : path[i] = path[j] => i = j

\* No key is less than its parent's, nor than those of the calls around it.
HeapOrdered ==
    /\ \A x \in Kept : \A y \in Children(x) : pool[x].key <= pool[y].key
    /\ \A i \in DOMAIN path :
          /\ \A j \in 1..i : pool[path[i]].key <= pool[path[j]].key
          /\ \A y \in {mx, my} \ {Null} : pool[path[i]].key <= pool[y].key

\* The key that pop() returns is the least.
RootIsLeast == op = "pop" => root \in live /\ \A x \in live : pool[root].key <= pool[x].key

HeapWellFormed == TypeOK /\ KeptInTrees /\ HeldOnce /\ HeapOrdered /\ RootIsLeast

\* The nodes that will be below a node once the operation is done, and the node:
\* what is being merged comes below every x of the calls around, on its left.
Inner(x) == path[(CHOOSE i \in DOMAIN path : path[i] = x) - 1]

Beside(x, W) ==
    IF x \notin OnPath THEN W[pool[x].r]
    ELSE IF x = Head(path) THEN W[mx] + W[my]
    ELSE W[Inner(x)]

Weight[x \in Links] ==
    IF x \in Kept THEN Weight[pool[x].l] + Beside(x, Weight) + 1 ELSE 0

\* The nodes that have, or will have, more below them on the right than on the left.
Heavy == {x \in Kept : 2 * Weight[IF x \in OnPath THEN pool[x].l ELSE pool[x].r] >= Weight[x]}

\* The number of binary digits.
Digits(n) == CHOOSE k \in 0..n : n < 2^k /\ (k > 0 => 2^(k - 1) <= n)

\* What the steps still to be taken, and those of later operations, are paid from: two
\* for every heavy node, and while an operation goes on, one for each return and four
\* for every time that what is left to be merged can be halved.
Credit ==
    2 * Cardinality(Heavy)
    + (IF op = "none" THEN 0
       ELSE IF returned THEN Len(path) + 1
       ELSE Len(path) + 2 + 4 * (Digits(Weight[mx]) + Digits(Weight[my])))

\* Line 70: merge takes O(lg n) amortized time.  There is no credit at first and
\* never less than none, an operation adds O(lg n) to it, and every step takes one:
\* the steps of all operations together are no more than what these have added.
AmortizedLogarithmicTime ==
    /\ Credit = 0
    /\ [][/\ 0 <= Credit'
          /\ IF op = "none" THEN Credit' <= Credit + 8 * Digits(size) + 6
             ELSE Credit' < Credit]_vars

Queue == INSTANCE PriorityQueue
         WITH Places <- Nodes,
              held <- [x \in Nodes |-> IF x \in live THEN pool[x].key ELSE Nothing]

\* push() and pop() are those of a priority queue (lines 43 and 49).
ImplementsPriorityQueue == Queue!Spec

\* Line 43: push inserts the element ("ねじれヒープHに要素xを挿入する"): the
\* elements that are in the heap stay in it.
PushKeepsTheOthers ==
    [][size' = size + 1 =>
          \A x \in live : pool'[x].key = pool[x].key]_vars

=============================================================================
