----------------------------- MODULE Containers -----------------------------
(***************************************************************************)
(* The tree and the heap, each on its own: a behaviour is a use of one of  *)
(* them.                                                                   *)
(***************************************************************************)
EXTENDS AvlTree

CONSTANTS HeapKeys, HeapSize

VARIABLES container, pool, heapRoot, heapSize, constructed, popped, heapOp, mx, my,
          returned, calls

heapVars == <<pool, heapRoot, heapSize, constructed, popped, heapOp, mx, my, returned, calls>>

Heap == INSTANCE SkewHeap
        WITH Keys <- HeapKeys, N <- HeapSize, root <- heapRoot, size <- heapSize,
             live <- constructed, op <- heapOp, path <- calls

ASSUME ContainersAssumption == Heap!HeapAssumption

UseInit == container \in {"heap", "tree"} /\ Init /\ Heap!Init

UseNext ==
    /\ UNCHANGED container
    /\ \/ container = "tree" /\ Next /\ UNCHANGED heapVars
       \/ container = "heap" /\ Heap!NextIntoFree /\ UNCHANGED vars

UseSpec == UseInit /\ [][UseNext]_<<container, vars, heapVars>>

----------------------------------------------------------------------------
(* The properties of the heap; those of the tree are in AvlTree *)

\* The heap's nodes are kept in trees, ordered, and none is lost: see SkewHeap.
HeapWellFormed == Heap!HeapWellFormed

\* The heap is a priority queue, of those who push into a free node: see
\* SkewHeap.
ImplementsPriorityQueue == Heap!ImplementsPriorityQueue

\* The heap's merges take O(lg n) steps each, one with another: see SkewHeap.
MergesInLogarithmicTime == Heap!AmortizedLogarithmicTime

=============================================================================
