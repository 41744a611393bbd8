------------------------------ MODULE AvlTree ------------------------------
(***************************************************************************)
(* container::avl_tree (include/container/avl_tree.hpp): a map kept in a   *)
(* height-balanced search tree whose nodes live in a pool of N.  As in     *)
(* SkewHeap a node is taken at index size_, which may still be in the tree *)
(* when another node was erased: only insertions that find the node at     *)
(* index size_ free are among the steps.                                   *)
(*                                                                         *)
(* find(), insert(), erase() and erase__() call themselves, and every      *)
(* return of the last three goes through balance(): a step is one call,    *)
(* one return up to the call of balance(), or one rotation.                *)
(***************************************************************************)
EXTENDS Integers, Sequences, FiniteSets

CONSTANTS Keys,       \* integers
          Values,     \* the values a user stores
          Nothing,    \* std::nullopt, which is neither a key nor a value
          N           \* the constructor's argument n

ASSUME TreeAssumption ==
    /\ Keys \subseteq Int /\ Nothing \in Int \ Keys
    /\ Nothing \notin Values
    /\ N \in Nat \ {0}

VARIABLES child,      \* the members of the nodes of pool_: c[0] and c[1], which
                      \* are l and r,
          height,     \* h,
          key,        \* key,
          value,      \* and v
          root,       \* root_
          size,       \* size_
          live,       \* the nodes that are constructed
          result,     \* opt: what the operation returns, once that is known
          op,         \* the operation under way: "find", "insert", "erase" or "none"
          wanted,     \* its argument k
          given,      \* its argument v
          at,         \* x: the argument of the innermost call, then its result
          place,      \* where that call is
          path,       \* the x of the calls around it, the innermost first
          gone,       \* the x that erase() has destroyed, while a node is sought
                      \* that takes its place
          low,        \* y: its left subtree
          next        \* w: the node that takes its place, once it is found

nodeVars == <<child, height, key, value>>
callVars == <<op, wanted, given>>
goneVars == <<gone, low, next>>
vars == <<nodeVars, root, size, live, result, callVars, at, place, path, goneVars>>

Null == -1
Nodes == 0..N - 1
Links == Nodes \cup {Null}
Sides == {0, 1}       \* of the children, 0 is the left and 1 the right one

Init ==
    /\ child = [x \in Nodes |-> [s \in Sides |-> Null]]
    /\ height = [x \in Nodes |-> 1]
    /\ key = [x \in Nodes |-> Nothing] /\ value = key
    /\ root = Null
    /\ size = 0
    /\ live = {}
    /\ result = Nothing
    /\ op = "none" /\ wanted = Nothing /\ given = Nothing
    /\ at = Null /\ place = "call" /\ path = <<>>
    /\ gone = Null /\ low = Null /\ next = Null

----------------------------------------------------------------------------
(* Searching *)

\* The side of x on which k is, if it is not the key of x.
Side(x) == IF wanted < key[x] THEN 0 ELSE 1

Calling(name) == op = name /\ place = "call" /\ gone = Null

Begin(name, a, b) ==
    /\ op = "none"
    /\ op' = name /\ wanted' = a /\ given' = b
    /\ at' = root
    /\ UNCHANGED <<nodeVars, root, size, live, result, place, path, goneVars>>

Finish == op' = "none" /\ wanted' = Nothing /\ given' = Nothing /\ at' = Null /\ place' = "call"

Find(a) == Begin("find", a, Nothing)

\* BOOST_ASSERT_MSG(size_ < cap_, ...): a user inserts what is there or what
\* there is room for; and the node at index size_ is free.
Insert(a, b) ==
    /\ (\E x \in live : key[x] = a) \/ (size < N /\ size \notin live)
    /\ Begin("insert", a, b)

Erase(a) == Begin("erase", a, Nothing)

\* Mutation: the comparison has its arguments swapped.
Seek_Swapped ==
    /\ Calling("find")
    /\ at # Null /\ key[at] # wanted
    /\ at' = child[at][1 - Side(at)]
    /\ UNCHANGED <<nodeVars, root, size, live, result, callVars, place, path, goneVars>>

\* Lines 134-140.
Seek ==
    /\ Calling("find")
    /\ at # Null /\ key[at] # wanted
    /\ at' = child[at][Side(at)]
    /\ UNCHANGED <<nodeVars, root, size, live, result, callVars, place, path, goneVars>>

Found ==
    /\ Calling("find")
    /\ at # Null /\ key[at] = wanted
    /\ result' = value[at]
    /\ Finish
    /\ UNCHANGED <<nodeVars, root, size, live, path, goneVars>>

NotFound ==
    /\ Calling("find") /\ at = Null
    /\ result' = Nothing
    /\ Finish
    /\ UNCHANGED <<nodeVars, root, size, live, path, goneVars>>

\* Lines 151-154 and 172-177: insert() and erase() go on in the child.
Descend ==
    /\ Calling("insert") \/ Calling("erase")
    /\ at # Null /\ key[at] # wanted
    /\ path' = <<at>> \o path
    /\ at' = child[at][Side(at)]
    /\ UNCHANGED <<nodeVars, root, size, live, result, callVars, place, goneVars>>

----------------------------------------------------------------------------
(* Where the search ends *)

\* Node x is as it is when it is not constructed.  Nothing reads it.
Blank(x) ==
    /\ child' = [child EXCEPT ![x] = [s \in Sides |-> Null]]
    /\ height' = [height EXCEPT ![x] = 1]
    /\ key' = [key EXCEPT ![x] = Nothing]
    /\ value' = [value EXCEPT ![x] = Nothing]

Return(x) == at' = x /\ place' = "return"

\* create_node
Create ==
    /\ Calling("insert") /\ at = Null
    /\ child' = [child EXCEPT ![size] = [s \in Sides |-> Null]]
    /\ height' = [height EXCEPT ![size] = 1]
    /\ key' = [key EXCEPT ![size] = wanted]
    /\ value' = [value EXCEPT ![size] = given]
    /\ size' = size + 1
    /\ live' = live \cup {size}
    /\ result' = Nothing
    /\ Return(size)
    /\ UNCHANGED <<root, callVars, path, goneVars>>

\* Lines 156-158: the key is there, its value is replaced.
Overwrite ==
    /\ Calling("insert") /\ at # Null /\ key[at] = wanted
    /\ value' = [value EXCEPT ![at] = given]
    /\ result' = value[at]
    /\ Return(at)
    /\ UNCHANGED <<child, height, key, root, size, live, callVars, path, goneVars>>

\* Lines 169-171.
Missing ==
    /\ Calling("erase") /\ at = Null
    /\ result' = Nothing
    /\ Return(Null)
    /\ UNCHANGED <<nodeVars, root, size, live, callVars, path, goneVars>>

Destroy(x) ==
    /\ result' = value[x]
    /\ live' = live \ {x}
    /\ size' = size - 1

\* Lines 180-186: without a right child, the left one takes the place of x.
EraseLast ==
    /\ Calling("erase") /\ at # Null /\ key[at] = wanted
    /\ child[at][1] = Null
    /\ Destroy(at)
    /\ Return(child[at][0])
    /\ Blank(at)
    /\ UNCHANGED <<root, callVars, path, goneVars>>

\* Lines 180-190: otherwise erase__() is called for the right subtree.
EraseInner ==
    /\ Calling("erase") /\ at # Null /\ key[at] = wanted
    /\ child[at][1] # Null
    /\ Destroy(at)
    /\ gone' = at /\ low' = child[at][0]
    /\ path' = <<at>> \o path
    /\ at' = child[at][1]
    /\ UNCHANGED <<nodeVars, root, callVars, place, next>>

\* Line 258: erase__() goes on in the left child.
GoLeft ==
    /\ gone # Null /\ place = "call"
    /\ child[at][0] # Null
    /\ path' = <<at>> \o path
    /\ at' = child[at][0]
    /\ UNCHANGED <<nodeVars, root, size, live, result, callVars, place, goneVars>>

\* Lines 255-257.  leftmost() (line 248) has gone down the same links, before
\* anything was changed, so that the node is w.
Unlink ==
    /\ gone # Null /\ place = "call"
    /\ child[at][0] = Null
    /\ next' = at
    /\ Return(child[at][1])
    /\ UNCHANGED <<nodeVars, root, size, live, result, callVars, path, gone, low>>

----------------------------------------------------------------------------
(* Heights, and the returns *)

Larger(a, b) == IF a > b THEN a ELSE b

HeightOf(x) == IF x = Null THEN 0 ELSE height[x]

\* The height that x gets from children d.
Reheight(d) == Larger(HeightOf(d[0]), HeightOf(d[1])) + 1

\* The call of which x is the argument gets the children d, and balances them.
BalanceWith(x, d) ==
    /\ child' = [child EXCEPT ![x] = d]
    /\ height' = [height EXCEPT ![x] = Reheight(d)]
    /\ at' = x
    /\ path' = Tail(path)
    /\ place' = "balance"

\* What was returned becomes a child of the x of the call around: of erase__()
\* the left one (line 258), of insert() and erase() the one that was searched.
Ascend ==
    /\ place = "return" /\ path # <<>> /\ Head(path) # gone
    /\ LET x == Head(path)
           s == IF gone # Null THEN 0 ELSE Side(x)
       IN  BalanceWith(x, [child[x] EXCEPT ![s] = at])
    /\ UNCHANGED <<key, value, root, size, live, result, callVars, goneVars>>

\* Lines 189-192: w gets what erase__() has returned, and y.  Nothing is kept
\* of x, which is destroyed.
Replace ==
    /\ place = "return" /\ path # <<>> /\ Head(path) = gone
    /\ LET d == [child[next] EXCEPT ![1] = at, ![0] = low]
       IN  /\ child' = [child EXCEPT ![next] = d, ![gone] = [s \in Sides |-> Null]]
           /\ height' = [height EXCEPT ![next] = Reheight(d), ![gone] = 1]
    /\ key' = [key EXCEPT ![gone] = Nothing]
    /\ value' = [value EXCEPT ![gone] = Nothing]
    /\ at' = next /\ path' = Tail(path) /\ place' = "balance"
    /\ gone' = Null /\ low' = Null /\ next' = Null
    /\ UNCHANGED <<root, size, live, result, callVars>>

Returned ==
    /\ place = "return" /\ path = <<>>
    /\ root' = at
    /\ Finish
    /\ UNCHANGED <<nodeVars, size, live, result, path, goneVars>>

----------------------------------------------------------------------------
(* balance() *)

Bias(x) == HeightOf(child[x][0]) - HeightOf(child[x][1])

\* Side j of at is too high.
Leans(j) == IF j = 0 THEN Bias(at) > 1 ELSE Bias(at) < -1

\* Mutation: a child that leans the other way is not turned first.
LeansBack_Never(j) == FALSE

\* Its child on side j leans to the other side (l-r case, r-l case).
LeansBack(j) == IF j = 0 THEN Bias(child[at][0]) < 0 ELSE Bias(child[at][1]) > 0

\* rotate(x, i, j): the links, and the heights.
Turned(x, i, j) ==
    LET y == child[x][j]
    IN  [child EXCEPT ![x][j] = child[y][i], ![y][i] = x]

Reheighted(x, i, j) ==
    LET y == child[x][j]
        low_x == Larger(HeightOf(child[x][i]), HeightOf(child[y][i])) + 1
    IN  [height EXCEPT ![x] = low_x, ![y] = Larger(low_x, HeightOf(child[y][j])) + 1]

Rotation(j) == IF j = 0 THEN "right_rotate" ELSE "left_rotate"

\* Line 222.
Settle ==
    /\ place = "balance"
    /\ ~Leans(0) /\ ~Leans(1)
    /\ place' = "return"
    /\ UNCHANGED <<nodeVars, root, size, live, result, callVars, at, path, goneVars>>

\* Lines 207-209 and 215-218.
TurnChild(i, j) ==
    /\ place = "balance"
    /\ Leans(j) /\ LeansBack(j)
    /\ LET y == child[at][j]
       IN  /\ child' = [Turned(y, j, i) EXCEPT ![at][j] = child[y][i]]
           /\ height' = Reheighted(y, j, i)
    /\ place' = Rotation(j)
    /\ UNCHANGED <<key, value, root, size, live, result, callVars, at, path, goneVars>>

\* Mutation: the node that comes up is balanced again.
Turn_Again(i, j) ==
    /\ \/ place = Rotation(j)
       \/ place = "balance" /\ Leans(j) /\ ~LeansBack(j)
    /\ child' = Turned(at, i, j)
    /\ height' = Reheighted(at, i, j)
    /\ at' = child[at][j] /\ place' = "balance"
    /\ UNCHANGED <<key, value, root, size, live, result, callVars, path, goneVars>>

\* Lines 210 and 219.
Turn(i, j) ==
    /\ \/ place = Rotation(j)
       \/ place = "balance" /\ Leans(j) /\ ~LeansBack(j)
    /\ child' = Turned(at, i, j)
    /\ height' = Reheighted(at, i, j)
    /\ Return(child[at][j])
    /\ UNCHANGED <<key, value, root, size, live, result, callVars, path, goneVars>>

----------------------------------------------------------------------------

Searching == Seek \/ Found \/ NotFound \/ Descend \/ GoLeft

Changing == Create \/ Overwrite \/ Missing \/ EraseLast \/ EraseInner \/ Unlink

Returning ==
    \/ Ascend \/ Replace \/ Returned \/ Settle
    \/ \E j \in Sides : TurnChild(1 - j, j) \/ Turn(1 - j, j)

Next ==
    \/ \E a \in Keys : Find(a) \/ Erase(a) \/ \E b \in Values : Insert(a, b)
    \/ Searching \/ Changing \/ Returning

Spec == Init /\ [][Next]_vars

----------------------------------------------------------------------------
(* Properties *)

\* Every variable holds a value of its type, and size_ counts the nodes.
TypeOK ==
    /\ child \in [Nodes -> [Sides -> Links]]
    /\ height \in [Nodes -> Nat]
    /\ key \in [Nodes -> Keys \cup {Nothing}]
    /\ value \in [Nodes -> Values \cup {Nothing}]
    /\ root \in Links
    /\ size \in 0..N
    /\ live \in SUBSET Nodes
    /\ result \in Values \cup {Nothing}
    /\ op \in {"none", "find", "insert", "erase"}
    /\ wanted \in Keys \cup {Nothing}
    /\ given \in Values \cup {Nothing}
    /\ at \in Links
    /\ place \in {"call", "balance", "right_rotate", "left_rotate", "return"}
    /\ path \in Seq(Nodes)
    /\ {gone, low, next} \subseteq Links
    /\ \A x \in live : key[x] \in Keys /\ value[x] \in Values
    /\ IsFiniteSet(live) /\ size = Cardinality(live)

\* The tree in the middle of an operation: the node that takes the place of
\* another is not in it until it does, which keeps its place until then; and
\* what the innermost call works on is the child of the call around.
Kept == (live \ {next}) \cup ({gone} \ {Null})

Root == IF op \in {"insert", "erase"} /\ path = <<>> THEN at ELSE root

Link(x) == IF path # <<>> /\ x = Head(path) THEN [child[x] EXCEPT ![Side(x)] = at]
           ELSE child[x]

\* Each node is the root or the child of one node, on one side.
LinkedOnce ==
    /\ Root \in Kept \cup {Null}
    /\ \A x \in Kept, s \in Sides : Link(x)[s] \in (Kept \cup {Null}) \ ({Root} \ {Null})
    /\ \A x, y \in Kept, s, u \in Sides :
          Link(x)[s] = Link(y)[u] /\ Link(x)[s] # Null => x = y /\ s = u

KeysDiffer == \A x, y \in Kept : key[x] = key[y] => x = y

\* S contains, with a node, what a search for a goes on to from there.
Searched(a, S) ==
    \A x \in S : key[x] # a => Link(x)[IF a < key[x] THEN 0 ELSE 1] \in S \cup {Null}

\* A search that begins at x meets t.
Meets(x, t) ==
    \A S \in SUBSET Kept : (x = Null \/ x \in S) /\ Searched(key[t], S) => t \in S

SearchesMeet == \A t \in Kept : Meets(Root, t)

\* Lines 3-5: the subtrees of x differ in height by one at most, and x.h is the
\* height of x.
Steady(x) == height[x] = Reheight(child[x]) /\ Bias(x) \in {-1, 0, 1}

\* The nodes that are being balanced.
Unsteady ==
    (IF place # "call" /\ path # <<>> THEN {Head(path)} ELSE {})
    \cup (IF place \in {"call", "return"} THEN {} ELSE {at})
    \cup {child[at][j] : j \in {i \in Sides : place = Rotation(i)}}

Balanced == \A x \in Kept \ Unsteady : Steady(x)

TreeWellFormed == TypeOK /\ LinkedOnce /\ KeysDiffer /\ SearchesMeet /\ Balanced

\* The height is at most 2 lg(n + 1) (lines 8-10: it is O(lg n)).
Shallow == op = "none" => 2^HeightOf(root) <= (size + 1) * (size + 1)

\* The steps that an operation has still to take are no more than this: going
\* down, four for every level, and three for every call around on the way back.
StepsLeft ==
    IF op = "none" THEN 0
    ELSE 3 * Len(path) + (CASE place = "call" -> 4 * HeightOf(at) + 2
                            [] place = "return" -> 1
                            [] place = "balance" -> 3
                            [] OTHER -> 2)

\* find, insert and erase take O(lg n) steps (lines 68, 79 and 92): a step leaves
\* fewer than before, and a call begins with at most four for every level.  What
\* leftmost() does is not among them: it goes down once, as GoLeft does.
LogarithmicTime ==
    [][IF op = "none" THEN Shallow /\ StepsLeft' <= 4 * HeightOf(root) + 2
       ELSE StepsLeft' < StepsLeft]_vars

\* The map that the nodes hold.
Contents == [a \in Keys |-> IF \E x \in live : key[x] = a
                            THEN value[CHOOSE x \in live : key[x] = a]
                            ELSE Nothing]

\* insert() or erase() has done what it does to the map, and goes back to the
\* root.
Done == place # "call" \/ gone # Null

Map == INSTANCE FiniteMap WITH map <- Contents, argument <- wanted, done <- Done

\* insert, erase and find are those of a map (lines 66-100): each finds the key
\* it was called with, if a node holds it, whatever rotations have moved; it
\* returns the value that this key had, and changes that of no other.
ImplementsMap == Map!Spec

=============================================================================
