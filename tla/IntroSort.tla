----------------------------- MODULE IntroSort -----------------------------
(***************************************************************************)
(* intro_sort (include/sort/intro_sort.hpp): median-of-3 quicksort that    *)
(* leaves ranges of fewer than k_ elements alone and turns to heap sort    *)
(* when it is too deep, then one insertion sort over the whole array.      *)
(* The array holds the elements' names, and cmp compares their keys: any   *)
(* strict weak order is the order of some keys.  The recursion is the      *)
(* sequence of ranges that sort__ has still to visit, the current first.   *)
(***************************************************************************)
EXTENDS Integers, Sequences, FiniteSets

CONSTANTS N,        \* the number of elements
          Keys,     \* what the elements are compared by
          k_,       \* 16 in the code
          Depth     \* floor(lg n) is multiplied by this: 2 in the code

\* On an empty range final_insertion_sort__ steps past the end at once.
ASSUME LengthAssumption == N \in Nat \ {0}
ASSUME KeysAssumption == Keys # {} /\ Keys \subseteq Int
ASSUME CutoffAssumption == k_ \in Nat \ {0}
ASSUME DepthAssumption == Depth \in Nat

VARIABLES key,      \* what cmp sees of every element
          A,        \* the array
          work,     \* the ranges [lo, hi) sort__ has still to visit
          at,       \* where in the code the sort is
          i, j,     \* the iterators and loop counters of that name
          pivot,
          p, size   \* heapify's arguments

vars == <<key, A, work, at, i, j, pivot, p, size>>

Positions == 0..N - 1

cmp(x, y) == key[x] < key[y]

Init ==
    /\ key = [x \in Positions |-> CHOOSE k \in Keys : TRUE]
    /\ A = [x \in Positions |-> x]
    /\ work = <<>>
    /\ at = "idle"
    /\ i = 0 /\ j = 0 /\ pivot = 0 /\ p = 0 /\ size = 0

\* The exponent of v + 0.5 as a double says how many powers of two are above
\* v; a length is below 2^31.
nlz(v) == Cardinality({e \in 0..31 : e = 31 \/ v < 2^e})

\* intro_sort__: the whole array, with a limit on the depth.
Call ==
    /\ at = "idle"
    /\ key' \in [Positions -> Keys]
    /\ work' = <<[lo |-> 0, hi |-> N, limit |-> (31 - nlz(N)) * Depth]>>
    /\ at' = "sort"
    /\ UNCHANGED <<A, i, j, pivot, p, size>>

lo == Head(work).lo
hi == Head(work).hi
limit == Head(work).limit

Swapped(x, y) == [A EXCEPT ![x] = A[y], ![y] = A[x]]

LeaveShort ==
    /\ at = "sort" /\ work # <<>>
    /\ hi - lo < k_
    /\ work' = Tail(work)
    /\ UNCHANGED <<key, A, at, i, j, pivot, p, size>>

----------------------------------------------------------------------------
(* partition__ *)

median_of_3(x, y, z) ==
    IF cmp(x, y) THEN IF cmp(y, z) THEN y ELSE IF cmp(z, x) THEN x ELSE z
    ELSE IF cmp(z, y) THEN y ELSE IF cmp(x, z) THEN x ELSE z

StartPartition ==
    /\ at = "sort" /\ work # <<>>
    /\ hi - lo >= k_
    /\ limit >= 1
    /\ pivot' = median_of_3(A[lo], A[lo + (hi - 1 - lo) \div 2], A[hi - 1])
    /\ i' = lo /\ j' = hi - 1
    /\ at' = "scan up"
    /\ UNCHANGED <<key, A, work, p, size>>

\* Mutation: elements equal to the pivot are passed over.
ScanUp_PastEqual ==
    /\ at = "scan up"
    /\ IF ~cmp(pivot, A[i]) THEN i' = i + 1 /\ UNCHANGED at
       ELSE at' = "scan down" /\ UNCHANGED i
    /\ UNCHANGED <<key, A, work, j, pivot, p, size>>

ScanUp ==
    /\ at = "scan up"
    /\ IF cmp(A[i], pivot) THEN i' = i + 1 /\ UNCHANGED at
       ELSE at' = "scan down" /\ UNCHANGED i
    /\ UNCHANGED <<key, A, work, j, pivot, p, size>>

ScanDown ==
    /\ at = "scan down"
    /\ cmp(pivot, A[j])
    /\ j' = j - 1
    /\ UNCHANGED <<key, A, work, at, i, pivot, p, size>>

\* Mutation: the iterators stay where they are.
Exchange_InPlace ==
    /\ at = "scan down"
    /\ ~cmp(pivot, A[j])
    /\ i < j
    /\ A' = Swapped(i, j)
    /\ at' = "scan up"
    /\ UNCHANGED <<key, work, i, j, pivot, p, size>>

Exchange ==
    /\ at = "scan down"
    /\ ~cmp(pivot, A[j])
    /\ i < j
    /\ A' = Swapped(i, j)
    /\ i' = i + 1 /\ j' = j - 1
    /\ at' = "scan up"
    /\ UNCHANGED <<key, work, pivot, p, size>>

\* Mutation: the second range begins at the position that was returned.
EndPartition_Again ==
    /\ at = "scan down"
    /\ ~cmp(pivot, A[j])
    /\ i >= j
    /\ work' = <<[lo |-> lo, hi |-> j, limit |-> limit - 1],
                 [lo |-> j, hi |-> hi, limit |-> limit - 1]>> \o Tail(work)
    /\ at' = "sort"
    /\ UNCHANGED <<key, A, i, j, pivot, p, size>>

\* j is returned: sort__ goes on with what is left of it, then right of it.
EndPartition ==
    /\ at = "scan down"
    /\ ~cmp(pivot, A[j])
    /\ i >= j
    /\ work' = <<[lo |-> lo, hi |-> j, limit |-> limit - 1],
                 [lo |-> j + 1, hi |-> hi, limit |-> limit - 1]>> \o Tail(work)
    /\ at' = "sort"
    /\ UNCHANGED <<key, A, i, j, pivot, p, size>>

----------------------------------------------------------------------------
(* heap_sort__, of the elements lo..hi-1: position q of the heap is lo + q *)

StartHeap ==
    /\ at = "sort" /\ work # <<>>
    /\ hi - lo >= k_
    /\ limit < 1
    /\ i' = (hi - lo) \div 2 /\ p' = i'
    /\ size' = hi - lo
    /\ at' = "build"
    /\ UNCHANGED <<key, A, work, j, pivot>>

\* The larger child of p, if it has two.
Child ==
    LET c == 2 * p + 1
    IN  IF c + 1 < size /\ cmp(A[lo + c], A[lo + c + 1]) THEN c + 1 ELSE c

Sinks == 2 * p + 1 < size /\ cmp(A[lo + p], A[lo + Child])

\* One turn of heapify's loop.
Sift ==
    /\ at \in {"build", "extract"}
    /\ Sinks
    /\ A' = Swapped(lo + p, lo + Child)
    /\ p' = Child
    /\ UNCHANGED <<key, work, at, i, j, pivot, size>>

\* heapify is back: the next parent, or the second loop.
Build ==
    /\ at = "build"
    /\ ~Sinks
    /\ IF i > 0 THEN i' = i - 1 /\ p' = i - 1 /\ UNCHANGED <<at, size>>
       ELSE i' = hi - lo /\ p' = 0 /\ size' = 0 /\ at' = "extract"
    /\ UNCHANGED <<key, A, work, j, pivot>>

\* Mutation: the element taken out stays in the heap.
Extract_Kept ==
    /\ at = "extract"
    /\ ~Sinks
    /\ i > 1
    /\ A' = Swapped(lo, lo + i - 1)
    /\ i' = i - 1 /\ p' = 0 /\ size' = i
    /\ UNCHANGED <<key, work, at, j, pivot>>

Extract ==
    /\ at = "extract"
    /\ ~Sinks
    /\ i > 1
    /\ A' = Swapped(lo, lo + i - 1)
    /\ i' = i - 1 /\ p' = 0 /\ size' = i - 1
    /\ UNCHANGED <<key, work, at, j, pivot>>

EndHeap ==
    /\ at = "extract"
    /\ ~Sinks
    /\ i <= 1
    /\ work' = Tail(work)
    /\ at' = "sort"
    /\ UNCHANGED <<key, A, i, j, pivot, p, size>>

----------------------------------------------------------------------------
(* final_insertion_sort__ *)

StartInsertion ==
    /\ at = "sort" /\ work = <<>>
    /\ at' = "insert"
    /\ j' = 1
    /\ UNCHANGED <<key, A, work, i, pivot, p, size>>

\* A[j] goes to position k, and what was at k..j-1 one up.
MovedDown(k) ==
    [x \in Positions |-> IF x < k \/ x > j THEN A[x]
                         ELSE IF x = k THEN A[j] ELSE A[x - 1]]

\* Mutation: the loop ends one position before the front.
Insert_NotInFront ==
    /\ at = "insert" /\ j < N
    /\ \E k \in 1..j :
          /\ \A x \in k..j - 1 : cmp(A[j], A[x])
          /\ k > 1 => ~cmp(A[j], A[k - 1])
          /\ A' = MovedDown(k)
    /\ j' = j + 1
    /\ UNCHANGED <<key, work, at, i, pivot, p, size>>

\* The inner loop stops at the first position k where it may stop.
Insert ==
    /\ at = "insert" /\ j < N
    /\ \E k \in 0..j :
          /\ \A x \in k..j - 1 : cmp(A[j], A[x])
          /\ k > 0 => ~cmp(A[j], A[k - 1])
          /\ A' = MovedDown(k)
    /\ j' = j + 1
    /\ UNCHANGED <<key, work, at, i, pivot, p, size>>

Return ==
    /\ at = "insert" /\ j >= N
    /\ at' = "done"
    /\ UNCHANGED <<key, A, work, i, j, pivot, p, size>>

Run == \/ LeaveShort \/ StartPartition \/ ScanUp \/ ScanDown \/ Exchange
       \/ EndPartition \/ StartHeap \/ Sift \/ Build \/ Extract \/ EndHeap
       \/ StartInsertion \/ Insert \/ Return

Next == Call \/ Run

\* A sort that was called runs until it returns.
Spec == Init /\ [][Next]_vars /\ WF_vars(Run)

----------------------------------------------------------------------------
(* Properties *)

Ranges == [lo : 0..N, hi : 0..N, limit : Int]

Places == {"idle", "sort", "scan up", "scan down", "build", "extract",
           "insert", "done"}

Partitioning == at \in {"scan up", "scan down"}
Heaping == at \in {"build", "extract"}

\* Every variable holds a value of its type.
TypeOK ==
    /\ key \in [Positions -> Keys]
    /\ A \in [Positions -> Positions]
    /\ work \in Seq(Ranges)
    /\ at \in Places
    /\ i \in Int /\ j \in Int
    /\ pivot \in Positions
    /\ p \in Nat /\ size \in Nat

\* What intro_sort is for: the array still holds every element once, whatever
\* happened on the way, and is in order when the call returns (the comment at
\* lines 130-134).
SortsTheInput ==
    /\ \A x, y \in Positions : A[x] = A[y] => x = y
    /\ at = "done" => \A x, y \in Positions : x < y => ~cmp(A[y], A[x])

\* The loop of partition__ checks no bound; its comment (line 239) says that i
\* and j never refer outside the range it is given.
StaysInside == Partitioning => {i, j} \subseteq lo..hi - 1

\* partition__ leaves out an element (its position j) that need not be in its
\* place, and yet nothing sort__ visits later belongs before what it visits
\* now: no range has to be visited twice.
VisitsInOrder ==
    \A m, n \in DOMAIN work : m < n =>
       \A x \in work[m].lo..work[m].hi - 1, y \in work[n].lo..work[n].hi - 1 :
          ~cmp(A[y], A[x])

\* What heap sort has taken out of the heap is in order, behind all that is
\* still in it.
TakesTheLargest ==
    at = "extract" =>
       \A y \in lo + i..hi - 1 : \A x \in lo..y - 1 : ~cmp(A[y], A[x])

\* Every sort ends: the scans make progress even when all keys are equal.
EverySortEnds == at # "idle" ~> at = "done"

=============================================================================
