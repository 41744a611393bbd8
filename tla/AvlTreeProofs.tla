--------------------------- MODULE AvlTreeProofs ---------------------------
(***************************************************************************)
(* Proofs about AvlTree, for any keys and values and a pool of any size:   *)
(* the links form one balanced search tree after every call, return and    *)
(* rotation, the operations are those of a map, and each takes a number of *)
(* steps that is logarithmic in the number of nodes.                       *)
(*                                                                         *)
(* Search trees as such come first, with what an insertion, a splice and a *)
(* rotation does to one; then the invariant, the steps, and the theorems.  *)
(***************************************************************************)
EXTENDS AvlTree, FiniteSetTheorems, TLAPS

----------------------------------------------------------------------------
(* Search trees as such: nodes M with root R, the children c and keys K     *)

\* The side of a node with key b on which key a is.
Toward(a, b) == IF a < b THEN 0 ELSE 1

\* S contains, with a node, what a search for a goes on to from there.
Follows(c, K, a, S) == \A x \in S : K[x] # a => c[x][Toward(a, K[x])] \in S \cup {Null}

\* Every node but the root is linked once.
Shape(M, R, c, K) ==
    /\ Null \notin M
    /\ R \in M \cup {Null}
    /\ \A x \in M : K[x] \in Int
    /\ \A x, y \in M : K[x] = K[y] => x = y
    /\ \A x \in M, s \in Sides : c[x][s] \in M \cup {Null}
    /\ \A x \in M, s \in Sides : c[x][s] = R => R = Null
    /\ \A x, y \in M, s, u \in Sides :
          c[x][s] = c[y][u] /\ c[x][s] # Null => x = y /\ s = u

\* A search for the key of a node meets the node.
Searchable(M, R, c, K) ==
    \A t \in M : \A S \in SUBSET M :
       (R = Null \/ R \in S) /\ Follows(c, K, K[t], S) => t \in S

SearchTree(M, R, c, K) == Shape(M, R, c, K) /\ Searchable(M, R, c, K)

LEMMA SideFacts == \A s \in Sides : 1 - s \in Sides /\ 1 - s # s /\ 1 - (1 - s) = s
BY DEF Sides

LEMMA TowardSide == ASSUME NEW a, NEW b PROVE Toward(a, b) \in Sides
BY DEF Toward, Sides

LEMMA TowardBack ==
    ASSUME NEW a \in Int, NEW b \in Int, a # b PROVE Toward(a, b) = 1 - Toward(b, a)
BY DEF Toward

\* A set without a node that contains the root is left by the search for it.
LEMMA Leaves ==
    ASSUME NEW M, NEW R, NEW c, NEW K, SearchTree(M, R, c, K), NEW t \in M,
           NEW S, S \subseteq M, R \in S, t \notin S
    PROVE  \E z \in S, u \in Sides :
              K[z] # K[t] /\ u = Toward(K[t], K[z]) /\ c[z][u] \in M \ S
<1>1. ~Follows(c, K, K[t], S)
    BY DEF SearchTree, Searchable
<1>2. PICK z \in S : K[z] # K[t] /\ c[z][Toward(K[t], K[z])] \notin S \cup {Null}
    BY <1>1 DEF Follows
<1>3. K[t] \in Int /\ K[z] \in Int /\ z \in M
    BY DEF SearchTree, Shape
<1>4. Toward(K[t], K[z]) \in Sides
    BY TowardSide
<1>5. \A s \in Sides : c[z][s] \in M \cup {Null}
    BY <1>3 DEF SearchTree, Shape
<1> QED BY <1>2, <1>4, <1>5

LEMMA RootThere ==
    ASSUME NEW M, NEW R, NEW c, NEW K, SearchTree(M, R, c, K), M # {}
    PROVE  R \in M /\ R # Null
<1>1. \A t \in M : Follows(c, K, K[t], {})
    BY DEF Follows
<1>2. R # Null
    BY <1>1 DEF SearchTree, Searchable
<1> QED BY <1>2 DEF SearchTree, Shape

\* Only the children and keys of the nodes matter.
LEMMA SameTree ==
    ASSUME NEW M, NEW R, NEW c, NEW K, SearchTree(M, R, c, K),
           NEW d, NEW J, \A x \in M : J[x] = K[x],
           \A x \in M, s \in Sides : d[x][s] = c[x][s]
    PROVE  SearchTree(M, R, d, J)
<1>1. Shape(M, R, d, J)
    BY DEF SearchTree, Shape
<1>2. ASSUME NEW S \in SUBSET M, NEW a \in Int, Follows(d, J, a, S) PROVE Follows(c, K, a, S)
  <2>1. ASSUME NEW x \in S, K[x] # a PROVE c[x][Toward(a, K[x])] \in S \cup {Null}
    <3>1. x \in M /\ J[x] = K[x] /\ K[x] \in Int
        BY DEF SearchTree, Shape
    <3>2. Toward(a, K[x]) \in Sides
        BY TowardSide
    <3>3. d[x][Toward(a, K[x])] \in S \cup {Null}
        BY <1>2, <2>1, <3>1 DEF Follows
    <3> QED BY <3>1, <3>2, <3>3
  <2> QED BY <2>1 DEF Follows
<1>3. \A t \in M : K[t] \in Int
    BY DEF SearchTree, Shape
<1>4. Searchable(M, R, d, J)
    BY <1>2, <1>3 DEF SearchTree, Searchable
<1> QED BY <1>1, <1>4 DEF SearchTree

\* A child is on its side of its parent.
LEMMA ChildSide ==
    ASSUME NEW M, NEW R, NEW c, NEW K, SearchTree(M, R, c, K),
           NEW x \in M, NEW s \in Sides, c[x][s] # Null
    PROVE  /\ c[x][s] \in M /\ c[x][s] # x
           /\ K[c[x][s]] # K[x] /\ Toward(K[c[x][s]], K[x]) = s
<1>1. PICK y : y = c[x][s]
    OBVIOUS
<1>2. y \in M /\ y # R /\ R \in M
    BY <1>1, RootThere DEF SearchTree, Shape
<1>3. PICK z \in M \ {y}, u \in Sides :
          K[z] # K[y] /\ u = Toward(K[y], K[z]) /\ c[z][u] = y
  <2>1. PICK S : S = M \ {y}
      OBVIOUS
  <2>2. S \subseteq M /\ R \in S /\ y \notin S /\ M \ S = {y}
      BY <1>2, <2>1
  <2>3. \E z \in S, u \in Sides : K[z] # K[y] /\ u = Toward(K[y], K[z]) /\ c[z][u] \in M \ S
      BY <1>2, <2>2, Leaves
  <2> QED BY <2>1, <2>2, <2>3
<1>4. z = x /\ u = s
    BY <1>1, <1>2, <1>3 DEF SearchTree, Shape
<1> QED BY <1>1, <1>2, <1>3, <1>4

\* So is a grandchild, whatever its side of the child.
LEMMA GrandchildSide ==
    ASSUME NEW M, NEW R, NEW c, NEW K, SearchTree(M, R, c, K),
           NEW x \in M, NEW s \in Sides, c[x][s] # Null,
           NEW u \in Sides, c[c[x][s]][u] # Null
    PROVE  /\ c[c[x][s]][u] # x
           /\ K[c[c[x][s]][u]] # K[x] /\ Toward(K[c[c[x][s]][u]], K[x]) = s
<1>1. PICK y, t : y = c[x][s] /\ t = c[y][u]
    OBVIOUS
<1>2. y \in M /\ y # R /\ t \in M /\ t # R /\ R \in M
  <2>1. y \in M /\ y # R /\ R \in M
      BY <1>1, RootThere DEF SearchTree, Shape
  <2> QED BY <1>1, <2>1 DEF SearchTree, Shape
<1>3. PICK z \in M \ {y, t}, w \in Sides :
          K[z] # K[t] /\ w = Toward(K[t], K[z]) /\ c[z][w] \in {y, t}
  <2>1. PICK S : S = M \ {y, t}
      OBVIOUS
  <2>2. S \subseteq M /\ R \in S /\ t \notin S /\ M \ S = {y, t}
      BY <1>2, <2>1
  <2>3. \E z \in S, w \in Sides : K[z] # K[t] /\ w = Toward(K[t], K[z]) /\ c[z][w] \in M \ S
      BY <1>2, <2>2, Leaves
  <2> QED BY <2>1, <2>2, <2>3
<1>4. c[z][w] # t
    BY <1>1, <1>2, <1>3 DEF SearchTree, Shape
<1>5. z = x /\ w = s
    BY <1>1, <1>2, <1>3, <1>4 DEF SearchTree, Shape
<1> QED BY <1>1, <1>2, <1>3, <1>5

\* What was linked to x is linked to y.
Relinked(M, c, d, x, y) ==
    \A z \in M, s \in Sides : d[z][s] = IF c[z][s] = x THEN y ELSE c[z][s]

\* y, the child of x on side j, has taken the place of x, which is its child on
\* the other side.
Rotated(M, R, c, x, y, j, T, d) ==
    /\ x \in M /\ j \in Sides /\ y = c[x][j] /\ y # Null
    /\ T = IF R = x THEN y ELSE R
    /\ d[x][1 - j] = c[x][1 - j] /\ d[x][j] = c[y][1 - j]
    /\ d[y][1 - j] = x /\ d[y][j] = c[y][j]
    /\ Relinked(M \ {x, y}, c, d, x, y)

\* Where a link of the rotated tree comes from.
LEMMA RotatedLinks ==
    ASSUME NEW M, NEW R, NEW c, NEW K, SearchTree(M, R, c, K),
           NEW x, NEW y, NEW j, NEW T, NEW d, Rotated(M, R, c, x, y, j, T, d),
           NEW z \in M, NEW s \in Sides, d[z][s] # Null
    PROVE  /\ d[z][s] \in M
           /\ d[z][s] = x => z = y /\ s = 1 - j
           /\ d[z][s] = y => z \notin {x, y} /\ c[z][s] = x
           /\ d[z][s] = c[y][1 - j] => z = x /\ s = j
           /\ d[z][s] \notin {x, y, c[y][1 - j]} => c[z][s] = d[z][s]
<1>1. PICK i, b : i = 1 - j /\ b = c[y][i]
    OBVIOUS
<1>2. /\ x \in M /\ i \in Sides /\ j \in Sides /\ i # j /\ \A u \in Sides : u \in {i, j}
      /\ y = c[x][j] /\ y \in M /\ x # y
    BY <1>1, ChildSide DEF Rotated, Sides
<1>3. /\ b # x /\ b # y /\ c[y][j] # x /\ c[y][j] # y /\ c[x][i] # x /\ c[x][i] # y
      /\ b = Null \/ b # c[y][j]
      /\ b = Null \/ b # c[x][i]
  <2>1. Null \notin M
      BY DEF SearchTree, Shape
  <2>2. b # x /\ c[y][j] # x
      BY <1>1, <1>2, <2>1, GrandchildSide DEF Rotated
  <2>3. b # y /\ c[y][j] # y /\ c[x][i] # x
      BY <1>1, <1>2, <2>1, ChildSide
  <2>4. c[x][i] # y
      BY <1>2, <2>1 DEF SearchTree, Shape
  <2> QED BY <1>1, <1>2, <2>2, <2>3, <2>4 DEF SearchTree, Shape
<1>4. /\ d[x][i] = c[x][i] /\ d[x][j] = b /\ d[y][i] = x /\ d[y][j] = c[y][j]
      /\ z \notin {x, y} => d[z][s] = IF c[z][s] = x THEN y ELSE c[z][s]
    BY <1>1 DEF Rotated, Relinked
<1>5. \A u \in M, w \in Sides : c[u][w] \in M \cup {Null}
    BY DEF SearchTree, Shape
<1>6. CASE z = x
    BY <1>1, <1>2, <1>3, <1>4, <1>5, <1>6
<1>7. CASE z = y
    BY <1>1, <1>2, <1>3, <1>4, <1>5, <1>7
<1>8. CASE z \notin {x, y}
  <2>1. c[z][s] # y /\ (b # Null => c[z][s] # b)
      BY <1>1, <1>2, <1>8 DEF SearchTree, Shape
  <2> QED BY <1>1, <1>2, <1>3, <1>4, <1>5, <1>8, <2>1
<1> QED BY <1>6, <1>7, <1>8

LEMMA RotationShape ==
    ASSUME NEW M, NEW R, NEW c, NEW K, SearchTree(M, R, c, K),
           NEW x, NEW y, NEW j, NEW T, NEW d, Rotated(M, R, c, x, y, j, T, d)
    PROVE  Shape(M, T, d, K)
<1>1. PICK b : b = c[y][1 - j]
    OBVIOUS
<1>2. x \in M /\ y \in M /\ x # y /\ y # R /\ j \in Sides
    BY ChildSide DEF Rotated, SearchTree, Shape
<1>3. Null \notin M /\ \A u \in M, w \in Sides : c[u][w] = R => R = Null
    BY DEF SearchTree, Shape
<1>4. T \in M \cup {Null} /\ (T = Null => R = Null)
    BY <1>2, <1>3 DEF Rotated, SearchTree, Shape
<1>5. ASSUME NEW z \in M, NEW s \in Sides, d[z][s] # Null PROVE d[z][s] \in M /\ d[z][s] # T
  <2>1. /\ d[z][s] \in M
        /\ d[z][s] = x => z = y /\ s = 1 - j
        /\ d[z][s] = y => z \notin {x, y} /\ c[z][s] = x
        /\ d[z][s] = b => z = x /\ s = j
        /\ d[z][s] \notin {x, y, b} => c[z][s] = d[z][s]
      BY <1>1, <1>5, RotatedLinks
  <2>2. T = IF R = x THEN y ELSE R
      BY DEF Rotated
  <2>3. b = R => R = Null
      BY <1>1, <1>2, <1>3, SideFacts
  <2>4. d[z][s] \notin {x, y, b} => d[z][s] # R
      BY <1>3, <1>5, <2>1
  <2>5. x # R => d[z][s] # R
      BY <1>2, <1>3, <1>5, <2>1, <2>3, <2>4
  <2>6. x = R => d[z][s] # y
      BY <1>2, <1>3, <2>1
  <2> QED BY <2>1, <2>2, <2>5, <2>6
<1>6. ASSUME NEW z \in M, NEW w \in M, NEW s \in Sides, NEW u \in Sides,
             d[z][s] = d[w][u], d[z][s] # Null
      PROVE  z = w /\ s = u
  <2>1. PICK t : t = d[z][s] /\ t = d[w][u] /\ t # Null
      BY <1>6
  <2>2. /\ t = x => z = y /\ s = 1 - j
        /\ t = y => c[z][s] = x
        /\ t = b => z = x /\ s = j
        /\ t \notin {x, y, b} => c[z][s] = t
    <3>1. d[z][s] # Null
        BY <2>1
    <3>2. /\ d[z][s] = x => z = y /\ s = 1 - j
          /\ d[z][s] = y => c[z][s] = x
          /\ d[z][s] = b => z = x /\ s = j
          /\ d[z][s] \notin {x, y, b} => c[z][s] = d[z][s]
        BY <1>1, <3>1, RotatedLinks
    <3> QED BY <2>1, <3>2
  <2>3. /\ t = x => w = y /\ u = 1 - j
        /\ t = y => c[w][u] = x
        /\ t = b => w = x /\ u = j
        /\ t \notin {x, y, b} => c[w][u] = t
    <3>1. d[w][u] # Null
        BY <2>1
    <3>2. /\ d[w][u] = x => w = y /\ u = 1 - j
          /\ d[w][u] = y => c[w][u] = x
          /\ d[w][u] = b => w = x /\ u = j
          /\ d[w][u] \notin {x, y, b} => c[w][u] = d[w][u]
        BY <1>1, <3>1, RotatedLinks
    <3> QED BY <2>1, <3>2
  <2>4. c[z][s] = c[w][u] /\ c[z][s] # Null => z = w /\ s = u
      BY DEF SearchTree, Shape
  <2>5. x # Null
      BY <1>2, <1>3
  <2> QED BY <2>1, <2>2, <2>3, <2>4, <2>5
<1> QED BY <1>3, <1>4, <1>5, <1>6 DEF SearchTree, Shape

\* Where a search that meets the child of a node on side j goes, and one that
\* does not.
LEMMA Between ==
    ASSUME NEW a \in Int, NEW kx \in Int, NEW ky \in Int, NEW j \in Sides, kx # ky,
           Toward(ky, kx) = j, a = kx \/ Toward(a, kx) = 1 - j
    PROVE  a # ky /\ Toward(a, ky) = 1 - j
BY DEF Toward, Sides

LEMMA RotationSearchable ==
    ASSUME NEW M, NEW R, NEW c, NEW K, SearchTree(M, R, c, K),
           NEW x, NEW y, NEW j, NEW T, NEW d, Rotated(M, R, c, x, y, j, T, d)
    PROVE  Searchable(M, T, d, K)
<1> SUFFICES ASSUME NEW t \in M, NEW S \in SUBSET M, T = Null \/ T \in S, Follows(d, K, K[t], S)
             PROVE  t \in S
    BY DEF Searchable
<1>1. PICK i, b, a : i = 1 - j /\ b = c[y][i] /\ a = K[t]
    OBVIOUS
<1>2. /\ x \in M /\ i \in Sides /\ j \in Sides /\ i # j /\ \A u \in Sides : u \in {i, j}
      /\ y = c[x][j] /\ y \in M /\ x # y /\ K[y] # K[x] /\ Toward(K[y], K[x]) = j
      /\ {a, K[x], K[y]} \subseteq Int
    BY <1>1, ChildSide DEF Rotated, Sides, SearchTree, Shape
<1>3. /\ d[x][i] = c[x][i] /\ d[x][j] = b /\ d[y][i] = x /\ d[y][j] = c[y][j]
      /\ \A z \in M \ {x, y}, s \in Sides : d[z][s] = IF c[z][s] = x THEN y ELSE c[z][s]
    BY <1>1 DEF Rotated, Relinked
<1>4. \A z \in S : K[z] # a =>
          \E s \in Sides : s = Toward(a, K[z]) /\ d[z][s] \in S \cup {Null}
    BY <1>1, TowardSide DEF Follows
<1>5. R \in M /\ R # Null /\ R # y /\ Null \notin M
    BY <1>2, RootThere DEF SearchTree, Shape
<1>6. \A z \in M, s \in Sides : c[z][s] = y => z = x /\ s = j
    BY <1>2, <1>5 DEF SearchTree, Shape
<1>7. T = IF R = x THEN y ELSE R
    BY DEF Rotated
<1>8. T \in S
    BY <1>2, <1>5, <1>7
<1>9. PICK passes \in BOOLEAN : passes <=> (a # K[x] /\ Toward(a, K[x]) = j)
    OBVIOUS
<1>10. PICK Q : Q = IF y \in S THEN IF passes THEN S \cup {x} ELSE (S \ {y}) \cup {x}
                    ELSE S \ {x}
    OBVIOUS
<1>11. Q \subseteq M /\ R \in Q
    BY <1>2, <1>5, <1>7, <1>8, <1>10
<1>12. ~passes /\ y \in S => a # K[y] /\ Toward(a, K[y]) = i /\ x \in S
  <2>1. ~passes => a = K[x] \/ Toward(a, K[x]) = i
      BY <1>2, <1>9, TowardSide
  <2>2. ~passes => a # K[y] /\ Toward(a, K[y]) = i
      BY <1>1, <1>2, <2>1, Between
  <2> QED BY <1>2, <1>3, <1>4, <1>5, <2>2
<1>13. ASSUME NEW z \in Q, NEW s \in Sides, K[z] # a, s = Toward(a, K[z])
       PROVE  c[z][s] \in Q \cup {Null}
  <2>1. c[z][s] \in M \cup {Null}
      BY <1>11 DEF SearchTree, Shape
  <2>2. CASE z \notin {x, y}
    <3>1. z \in S /\ d[z][s] \in S \cup {Null} /\ d[z][s] = IF c[z][s] = x THEN y ELSE c[z][s]
        BY <1>3, <1>4, <1>10, <1>11, <1>13, <2>2
    <3> QED BY <1>2, <1>5, <1>6, <1>10, <2>1, <2>2, <3>1
  <2>3. CASE z = x /\ passes
      BY <1>2, <1>9, <1>10, <1>13, <2>3
  <2>4. CASE z = x /\ ~passes
    <3>1. y \in S /\ x \in S /\ s = i
        BY <1>2, <1>9, <1>10, <1>12, <1>13, <2>4
    <3>2. c[x][i] \in S \cup {Null}
        BY <1>3, <1>4, <1>13, <2>4, <3>1
    <3> QED BY <1>2, <1>6, <1>10, <2>1, <2>4, <3>1, <3>2
  <2>5. CASE z = y
    <3>1. y \in S /\ passes
        BY <1>2, <1>10, <2>5
    <3>2. CASE s = j
        BY <1>3, <1>4, <1>10, <1>13, <2>5, <3>1, <3>2
    <3>3. CASE s = i
      <4>1. x \in S
          BY <1>2, <1>3, <1>4, <1>5, <1>13, <2>5, <3>1, <3>3
      <4>2. b \in S \cup {Null}
          BY <1>3, <1>4, <1>9, <3>1, <4>1
      <4> QED BY <1>1, <1>10, <2>5, <3>1, <3>3, <4>2
    <3> QED BY <1>2, <3>2, <3>3
  <2> QED BY <2>2, <2>3, <2>4, <2>5
<1>14. t \in Q
  <2>1. Follows(c, K, a, Q)
      BY <1>13, TowardSide DEF Follows
  <2> QED BY <1>1, <1>11, <2>1 DEF SearchTree, Searchable
<1>15. t = x /\ x \in Q => ~passes /\ y \in S
    BY <1>1, <1>9, <1>10
<1>16. \A z \in Q : z # x => z \in S
    BY <1>10
<1>17. CASE t = x
  <2>1. ~passes /\ y \in S
      BY <1>14, <1>15, <1>17
  <2> QED BY <1>12, <1>17, <2>1
<1> QED BY <1>14, <1>16, <1>17

LEMMA RotationTree ==
    ASSUME NEW M, NEW R, NEW c, NEW K, SearchTree(M, R, c, K),
           NEW x, NEW y, NEW j, NEW T, NEW d, Rotated(M, R, c, x, y, j, T, d)
    PROVE  SearchTree(M, T, d, K)
<1>1. Shape(M, T, d, K)
    BY RotationShape
<1>2. Searchable(M, T, d, K)
    BY RotationSearchable
<1> QED BY <1>1, <1>2 DEF SearchTree

----------------------------------------------------------------------------
(* A node leaves the tree, is put in, takes the place of another            *)

\* x, which has a child on side s only, is replaced by that child.
Spliced(M, R, c, x, s, T, d) ==
    /\ x \in M /\ s \in Sides /\ c[x][1 - s] = Null
    /\ T = IF R = x THEN c[x][s] ELSE R
    /\ Relinked(M \ {x}, c, d, x, c[x][s])

LEMMA SpliceShape ==
    ASSUME NEW M, NEW R, NEW c, NEW K, SearchTree(M, R, c, K),
           NEW x, NEW s, NEW T, NEW d, Spliced(M, R, c, x, s, T, d)
    PROVE  Shape(M \ {x}, T, d, K)
<1>1. PICK y : y = c[x][s]
    OBVIOUS
<1>2. /\ x \in M /\ s \in Sides /\ y \in M \cup {Null} /\ y # x /\ Null \notin M
      /\ y = R => R = Null
  <2>1. x \in M /\ s \in Sides /\ Null \notin M
      BY DEF Spliced, SearchTree, Shape
  <2>2. y # Null => y \in M /\ y # x
      BY <1>1, <2>1, ChildSide
  <2> QED BY <1>1, <2>1, <2>2 DEF SearchTree, Shape
<1>3. \A z \in M \ {x}, u \in Sides : d[z][u] = IF c[z][u] = x THEN y ELSE c[z][u]
    BY <1>1 DEF Spliced, Relinked
<1>4. T = (IF R = x THEN y ELSE R) /\ R \in M
    BY <1>1, <1>2, RootThere DEF Spliced
<1>5. ASSUME NEW z \in M \ {x}, NEW u \in Sides
      PROVE  d[z][u] \in (M \ {x}) \cup {Null} /\ (d[z][u] = T => T = Null)
  <2>1. c[z][u] \in M \cup {Null} /\ (c[z][u] = R => R = Null)
      BY DEF SearchTree, Shape
  <2>2. c[z][u] = y => y = Null
      BY <1>1, <1>2 DEF SearchTree, Shape
  <2> QED BY <1>2, <1>3, <1>4, <2>1, <2>2
<1>6. ASSUME NEW z \in M \ {x}, NEW w \in M \ {x}, NEW u \in Sides, NEW v \in Sides,
             d[z][u] = d[w][v], d[z][u] # Null
      PROVE  z = w /\ u = v
  <2>1. c[z][u] = c[w][v] /\ c[z][u] # Null => z = w /\ u = v
      BY DEF SearchTree, Shape
  <2>2. /\ c[z][u] = y => y = Null
        /\ c[w][v] = y => y = Null
      BY <1>1, <1>2 DEF SearchTree, Shape
  <2> QED BY <1>2, <1>3, <1>6, <2>1, <2>2
<1>7. T \in (M \ {x}) \cup {Null}
    BY <1>2, <1>4
<1> QED BY <1>2, <1>5, <1>6, <1>7 DEF SearchTree, Shape

LEMMA SpliceSearchable ==
    ASSUME NEW M, NEW R, NEW c, NEW K, SearchTree(M, R, c, K),
           NEW x, NEW s, NEW T, NEW d, Spliced(M, R, c, x, s, T, d)
    PROVE  Searchable(M \ {x}, T, d, K)
<1> SUFFICES ASSUME NEW t \in M \ {x}, NEW S \in SUBSET (M \ {x}), T = Null \/ T \in S,
                    Follows(d, K, K[t], S)
             PROVE  t \in S
    BY DEF Searchable
<1>1. PICK y, a : y = c[x][s] /\ a = K[t]
    OBVIOUS
<1>2. x \in M /\ s \in Sides /\ c[x][1 - s] = Null /\ Null \notin M /\ R \in M
    BY RootThere DEF Spliced, SearchTree, Shape
<1>3. \A z \in M \ {x}, u \in Sides : d[z][u] = IF c[z][u] = x THEN y ELSE c[z][u]
    BY <1>1 DEF Spliced, Relinked
<1>4. T = (IF R = x THEN y ELSE R)
    BY <1>1 DEF Spliced
<1>5. PICK Q : Q = IF y \in S \cup {Null} THEN S \cup {x} ELSE S
    OBVIOUS
<1>6. Q \subseteq M /\ R \in Q
    BY <1>2, <1>4, <1>5
<1>7. ASSUME NEW z \in Q, NEW u \in Sides, K[z] # a, u = Toward(a, K[z])
      PROVE  c[z][u] \in Q \cup {Null}
  <2>1. CASE z = x
    <3>1. u = s \/ u = 1 - s
        BY <1>2 DEF Sides
    <3> QED BY <1>1, <1>2, <1>5, <2>1, <3>1
  <2>2. CASE z # x
    <3>1. z \in S /\ z \in M \ {x}
        BY <1>5, <2>2
    <3>2. d[z][u] \in S \cup {Null}
        BY <1>1, <1>7, <3>1 DEF Follows
    <3> QED BY <1>3, <1>5, <3>1, <3>2
  <2> QED BY <2>1, <2>2
<1>8. t \in Q
  <2>1. Follows(c, K, a, Q)
      BY <1>7, TowardSide DEF Follows
  <2> QED BY <1>1, <1>6, <2>1 DEF SearchTree, Searchable
<1> QED BY <1>5, <1>8

LEMMA SpliceTree ==
    ASSUME NEW M, NEW R, NEW c, NEW K, SearchTree(M, R, c, K),
           NEW x, NEW s, NEW T, NEW d, Spliced(M, R, c, x, s, T, d)
    PROVE  SearchTree(M \ {x}, T, d, K)
<1>1. Shape(M \ {x}, T, d, K)
    BY SpliceShape
<1>2. Searchable(M \ {x}, T, d, K)
    BY SpliceSearchable
<1> QED BY <1>1, <1>2 DEF SearchTree

\* Every search for a meets p and goes on from there on side s.
Leads(M, R, c, K, a, p, s) ==
    /\ p \in M /\ K[p] # a /\ Toward(a, K[p]) = s
    /\ \A S \in SUBSET M : R \in S /\ Follows(c, K, a, S) => p \in S

\* The new node n, with key a, is the root or the child of p on side s, where a
\* search for its key ends.
Grafted(M, R, c, K, n, a, p, s, T, d, J) ==
    /\ n \notin M /\ n # Null /\ a \in Int
    /\ s \in Sides
    /\ J[n] = a /\ \A z \in M : J[z] = K[z] /\ K[z] # a
    /\ IF M = {} THEN T = n
       ELSE T = R /\ Leads(M, R, c, K, a, p, s) /\ c[p][s] = Null /\ d[p][s] = n
    /\ \A u \in Sides : d[n][u] = Null
    /\ \A z \in M, u \in Sides : z # p \/ u # s => d[z][u] = c[z][u]

LEMMA GraftShape ==
    ASSUME NEW M, NEW R, NEW c, NEW K, SearchTree(M, R, c, K),
           NEW n, NEW a, NEW p, NEW s, NEW T, NEW d, NEW J,
           Grafted(M, R, c, K, n, a, p, s, T, d, J)
    PROVE  Shape(M \cup {n}, T, d, J)
<1>1. /\ n \notin M /\ n # Null /\ J[n] \in Int /\ s \in Sides /\ Null \notin M
      /\ \A z \in M : J[z] = K[z] /\ J[z] # J[n] /\ J[z] \in Int
      /\ \A u \in Sides : d[n][u] = Null
    BY DEF Grafted, SearchTree, Shape
<1>2. \A z, w \in M \cup {n} : J[z] = J[w] => z = w
    BY <1>1 DEF SearchTree, Shape
<1>3. CASE M = {}
  <2>1. T = n
      BY <1>3 DEF Grafted
  <2> QED BY <1>1, <1>3, <2>1 DEF Shape
<1>4. CASE M # {}
  <2>1. T = R /\ R \in M /\ p \in M /\ c[p][s] = Null /\ d[p][s] = n
      BY <1>4, RootThere DEF Grafted, Leads
  <2>2. \A z \in M, u \in Sides : d[z][u] = IF z = p /\ u = s THEN n ELSE c[z][u]
      BY <2>1 DEF Grafted
  <2>3. \A z \in M, u \in Sides : c[z][u] \in M \cup {Null} /\ c[z][u] # R
      BY <1>1, <2>1 DEF SearchTree, Shape
  <2>4. \A z, w \in M, u, v \in Sides :
            c[z][u] = c[w][v] /\ c[z][u] # Null => z = w /\ u = v
      BY DEF SearchTree, Shape
  <2>5. \A z \in M \cup {n}, u \in Sides :
            d[z][u] \in M \cup {n} \cup {Null} /\ d[z][u] # T
      BY <1>1, <2>1, <2>2, <2>3
  <2>6. \A z, w \in M \cup {n}, u, v \in Sides :
            d[z][u] = d[w][v] /\ d[z][u] # Null => z = w /\ u = v
      BY <1>1, <2>1, <2>2, <2>3, <2>4
  <2> QED BY <1>1, <1>2, <2>1, <2>5, <2>6 DEF Shape
<1> QED BY <1>3, <1>4

LEMMA GraftSearchable ==
    ASSUME NEW M, NEW R, NEW c, NEW K, SearchTree(M, R, c, K),
           NEW n, NEW a, NEW p, NEW s, NEW T, NEW d, NEW J,
           Grafted(M, R, c, K, n, a, p, s, T, d, J)
    PROVE  Searchable(M \cup {n}, T, d, J)
<1> SUFFICES ASSUME NEW t \in M \cup {n}, NEW S \in SUBSET (M \cup {n}), T = Null \/ T \in S,
                    Follows(d, J, J[t], S)
             PROVE  t \in S
    BY DEF Searchable
<1>1. n \notin M /\ n # Null /\ J[n] = a /\ s \in Sides /\ \A z \in M : J[z] = K[z]
    BY DEF Grafted
<1>2. CASE M = {}
    BY <1>1, <1>2 DEF Grafted
<1>3. CASE M # {}
  <2>1. /\ T = R /\ R \in M /\ R # Null /\ Leads(M, R, c, K, a, p, s)
        /\ c[p][s] = Null /\ d[p][s] = n
      BY <1>3, RootThere DEF Grafted
  <2>2. PICK Q : Q = S \ {n}
      OBVIOUS
  <2>3. Q \subseteq M /\ R \in Q
      BY <1>1, <2>1, <2>2
  <2>4. ASSUME NEW z \in Q, K[z] # J[t] PROVE c[z][Toward(J[t], K[z])] \in Q \cup {Null}
    <3>1. PICK u \in Sides : u = Toward(J[t], K[z])
        BY TowardSide
    <3>2. z \in M /\ z \in S /\ J[z] = K[z]
        BY <1>1, <2>2, <2>3
    <3>3. d[z][u] \in S \cup {Null}
        BY <2>4, <3>1, <3>2 DEF Follows
    <3>4. CASE z = p /\ u = s
        BY <2>1, <3>1, <3>4
    <3>5. CASE ~(z = p /\ u = s)
      <4>1. d[z][u] = c[z][u] /\ c[z][u] \in M \cup {Null}
          BY <3>2, <3>5 DEF Grafted, SearchTree, Shape
      <4> QED BY <1>1, <2>2, <3>1, <3>3, <4>1
    <3> QED BY <3>4, <3>5
  <2>5. Follows(c, K, J[t], Q)
      BY <2>4 DEF Follows
  <2>6. CASE t \in M
    <3>1. J[t] = K[t]
        BY <1>1, <2>6
    <3> QED BY <2>2, <2>3, <2>5, <2>6, <3>1 DEF SearchTree, Searchable
  <2>7. CASE t = n
    <3>1. p \in Q /\ J[p] = K[p] /\ K[p] # a /\ Toward(a, K[p]) = s
        BY <1>1, <2>1, <2>3, <2>5, <2>7 DEF Leads
    <3>2. d[p][s] \in S \cup {Null}
        BY <1>1, <2>2, <2>7, <3>1 DEF Follows
    <3> QED BY <1>1, <2>1, <2>7, <3>2
  <2> QED BY <2>6, <2>7
<1> QED BY <1>2, <1>3

LEMMA GraftTree ==
    ASSUME NEW M, NEW R, NEW c, NEW K, SearchTree(M, R, c, K),
           NEW n, NEW a, NEW p, NEW s, NEW T, NEW d, NEW J,
           Grafted(M, R, c, K, n, a, p, s, T, d, J)
    PROVE  SearchTree(M \cup {n}, T, d, J)
<1>1. Shape(M \cup {n}, T, d, J)
    BY GraftShape
<1>2. Searchable(M \cup {n}, T, d, J)
    BY GraftSearchable
<1> QED BY <1>1, <1>2 DEF SearchTree

\* w takes the place of x; no key is between theirs.
Renamed(M, R, c, K, x, w, T, d, J) ==
    /\ x \in M /\ w \notin M /\ w # Null /\ J[w] \in Int
    /\ \A z \in M \ {x} : /\ J[z] = K[z] /\ J[w] # K[z]
                          /\ Toward(K[z], J[w]) = Toward(K[z], K[x])
    /\ T = IF R = x THEN w ELSE R
    /\ \A s \in Sides : d[w][s] = c[x][s]
    /\ Relinked(M \ {x}, c, d, x, w)

LEMMA RenameShape ==
    ASSUME NEW M, NEW R, NEW c, NEW K, SearchTree(M, R, c, K),
           NEW x, NEW w, NEW T, NEW d, NEW J, Renamed(M, R, c, K, x, w, T, d, J)
    PROVE  Shape((M \ {x}) \cup {w}, T, d, J)
<1>1. PICK L : L = M \ {x}
    OBVIOUS
<1>2. /\ x \in M /\ w \notin M /\ w # Null /\ Null \notin M /\ J[w] \in Int
      /\ R \in M /\ T = IF R = x THEN w ELSE R
    BY RootThere DEF Renamed, SearchTree, Shape
<1>3. \A z \in L : J[z] \in Int /\ J[z] # J[w]
    BY <1>1 DEF Renamed, SearchTree, Shape
<1>4. \A z, u \in L \cup {w} : J[z] = J[u] => z = u
    BY <1>1, <1>3 DEF Renamed, SearchTree, Shape
<1>5. \A s \in Sides : c[x][s] # x /\ c[x][s] \in L \cup {Null}
    BY <1>1, <1>2, ChildSide DEF SearchTree, Shape
<1>6. \A z \in L, s \in Sides : d[z][s] = IF c[z][s] = x THEN w ELSE c[z][s]
    BY <1>1 DEF Renamed, Relinked
<1>7. \A s \in Sides : d[w][s] = c[x][s]
    BY DEF Renamed
<1>8. \A z \in M, s \in Sides : c[z][s] \in M \cup {Null} /\ c[z][s] # R
    BY <1>2 DEF SearchTree, Shape
<1>9. \A y, z \in M, s, u \in Sides :
          c[y][s] = c[z][u] /\ c[y][s] # Null => y = z /\ s = u
    BY DEF SearchTree, Shape
<1>10. \A z \in L \cup {w}, s \in Sides :
          d[z][s] \in (L \cup {w}) \cup {Null} /\ d[z][s] # T
    BY <1>1, <1>2, <1>5, <1>6, <1>7, <1>8
<1>11. ASSUME NEW y \in L \cup {w}, NEW z \in L \cup {w}, NEW s \in Sides, NEW u \in Sides,
              d[y][s] = d[z][u], d[y][s] # Null
       PROVE  y = z /\ s = u
  <2>1. PICK f, g : f = (IF y = w THEN x ELSE y) /\ g = (IF z = w THEN x ELSE z)
      OBVIOUS
  <2>2. /\ f \in M /\ g \in M /\ (f = g => y = z)
        /\ d[y][s] = IF c[f][s] = x THEN w ELSE c[f][s]
        /\ d[z][u] = IF c[g][u] = x THEN w ELSE c[g][u]
      BY <1>1, <1>2, <1>5, <1>6, <1>7, <2>1
  <2>3. c[f][s] = c[g][u] /\ c[f][s] # Null
      BY <1>2, <1>8, <1>11, <2>2
  <2> QED BY <1>9, <2>2, <2>3
<1>12. T \in (L \cup {w}) \cup {Null}
    BY <1>1, <1>2
<1>13. Shape(L \cup {w}, T, d, J)
    BY <1>1, <1>2, <1>3, <1>4, <1>10, <1>11, <1>12 DEF Shape
<1> QED BY <1>1, <1>13

LEMMA RenameSearchable ==
    ASSUME NEW M, NEW R, NEW c, NEW K, SearchTree(M, R, c, K),
           NEW x, NEW w, NEW T, NEW d, NEW J, Renamed(M, R, c, K, x, w, T, d, J)
    PROVE  Searchable((M \ {x}) \cup {w}, T, d, J)
<1>1. PICK L : L = M \ {x}
    OBVIOUS
<1> SUFFICES ASSUME NEW t \in L \cup {w}, NEW S \in SUBSET (L \cup {w}), T = Null \/ T \in S,
                    Follows(d, J, J[t], S)
             PROVE  t \in S
    BY <1>1 DEF Searchable
<1>2. /\ x \in M /\ w \notin M /\ w # Null /\ Null \notin M
      /\ R \in M /\ T = IF R = x THEN w ELSE R
    BY RootThere DEF Renamed, SearchTree, Shape
<1>3. PICK o : o = IF t = w THEN x ELSE t
    OBVIOUS
<1>4. PICK Q : Q = IF w \in S THEN (S \ {w}) \cup {x} ELSE S
    OBVIOUS
<1>5. Q \subseteq M /\ R \in Q
    BY <1>1, <1>2, <1>4
<1>6. \A z \in L : J[z] = K[z] /\ Toward(K[z], J[w]) = Toward(K[z], K[x]) /\ J[w] # K[z]
    BY <1>1 DEF Renamed
<1>7. ASSUME NEW z \in Q, NEW s \in Sides, K[z] # K[o], s = Toward(K[o], K[z])
      PROVE  c[z][s] \in Q \cup {Null}
  <2>1. PICK y : y = IF z = x THEN w ELSE z
      OBVIOUS
  <2>2. y \in S /\ (y = w <=> z = x) /\ y \in L \cup {w} /\ z # o
      BY <1>1, <1>2, <1>4, <1>5, <1>7, <2>1
  <2>3. d[y][s] = IF c[z][s] = x THEN w ELSE c[z][s]
    <3>1. CASE z = x
      <4>1. d[w][s] = c[x][s] /\ c[x][s] # x
          BY <1>2, ChildSide DEF Renamed
      <4> QED BY <2>1, <3>1, <4>1
    <3>2. CASE z # x
        BY <1>1, <1>5, <2>1, <3>2 DEF Renamed, Relinked
    <3> QED BY <3>1, <3>2
  <2>4. J[y] # J[t] /\ s = Toward(J[t], J[y])
    <3>1. CASE z # x /\ t # w
        BY <1>1, <1>3, <1>5, <1>6, <1>7, <2>1, <2>2, <3>1
    <3>2. CASE z = x
      <4>1. t \in L /\ o = t /\ y = w
          BY <1>3, <2>1, <2>2, <3>2
      <4> QED BY <1>6, <1>7, <3>2, <4>1
    <3>3. CASE z # x /\ t = w
      <4>1. o = x /\ y = z /\ z \in L
          BY <1>1, <1>3, <1>5, <2>1, <3>3
      <4>2. J[z] = K[z] /\ Toward(K[z], J[w]) = Toward(K[z], K[x]) /\ J[w] # K[z]
          BY <1>6, <4>1
      <4>3. K[z] \in Int /\ K[x] \in Int /\ J[w] \in Int
          BY <1>2, <1>5 DEF Renamed, SearchTree, Shape
      <4>4. Toward(J[w], K[z]) = Toward(K[x], K[z])
          BY <1>7, <4>1, <4>2, <4>3 DEF Toward
      <4> QED BY <1>7, <3>3, <4>1, <4>2, <4>4
    <3> QED BY <3>1, <3>2, <3>3
  <2>5. d[y][s] \in S \cup {Null}
      BY <2>2, <2>4 DEF Follows
  <2>6. c[z][s] \in M \cup {Null}
      BY <1>5 DEF SearchTree, Shape
  <2> QED BY <1>2, <1>4, <2>3, <2>5, <2>6
<1>8. o \in Q
  <2>1. Follows(c, K, K[o], Q)
      BY <1>7, TowardSide DEF Follows
  <2>2. o \in M
      BY <1>1, <1>2, <1>3
  <2> QED BY <1>5, <2>1, <2>2 DEF SearchTree, Searchable
<1> QED BY <1>1, <1>2, <1>3, <1>4, <1>8

LEMMA RenameTree ==
    ASSUME NEW M, NEW R, NEW c, NEW K, SearchTree(M, R, c, K),
           NEW x, NEW w, NEW T, NEW d, NEW J, Renamed(M, R, c, K, x, w, T, d, J)
    PROVE  SearchTree((M \ {x}) \cup {w}, T, d, J)
<1>1. Shape((M \ {x}) \cup {w}, T, d, J)
    BY RenameShape
<1>2. Searchable((M \ {x}) \cup {w}, T, d, J)
    BY RenameSearchable
<1> QED BY <1>1, <1>2 DEF SearchTree

----------------------------------------------------------------------------
(* The way of a search: its nodes, the last one first                       *)

\* The search for a goes from R, which is q[m], to q[1].
Way(M, R, c, K, a, q, m) ==
    /\ m \in Nat \ {0}
    /\ \A i \in 1..m : q[i] \in M
    /\ \A i, j \in 1..m : q[i] = q[j] => i = j
    /\ \A i \in 1..m - 1 : c[q[i + 1]][Toward(a, K[q[i + 1]])] = q[i]
    /\ q[m] = R

LEMMA WayFacts ==
    ASSUME NEW M, NEW R, NEW c, NEW K, NEW a, NEW q, NEW m, Way(M, R, c, K, a, q, m),
           NEW n \in 2..m
    PROVE  /\ n - 1 \in 1..m /\ n \in 1..m /\ q[n - 1] \in M /\ q[n] \in M
           /\ c[q[n]][Toward(a, K[q[n]])] = q[n - 1]
<1>1. n - 1 \in 1..m - 1 /\ (n - 1) + 1 = n /\ n \in 1..m /\ n - 1 \in 1..m
    BY DEF Way
<1> QED BY <1>1 DEF Way

\* Where the search went on, there its end is.
LEMMA WaySide ==
    ASSUME NEW M, NEW R, NEW c, NEW K, SearchTree(M, R, c, K),
           NEW a, NEW q, NEW m, Way(M, R, c, K, a, q, m), NEW n \in 2..m
    PROVE  K[q[1]] # K[q[n]] /\ Toward(K[q[1]], K[q[n]]) = Toward(a, K[q[n]])
<1>1. PICK S : S = M \ {q[i] : i \in 1..n - 1}
    OBVIOUS
<1>2. /\ m \in Nat \ {0} /\ 1 \in 1..m /\ m \in 1..m /\ n \in Nat
      /\ \A i \in 1..m : q[i] \in M
      /\ \A i, j \in 1..m : q[i] = q[j] => i = j
      /\ q[m] = R
    BY DEF Way
<1>3. S \subseteq M /\ R \in S /\ q[1] \in M /\ q[1] \notin S
  <2>1. \A i \in 1..n - 1 : i \in 1..m /\ i # m
      BY <1>2
  <2>2. R \notin {q[i] : i \in 1..n - 1}
      BY <1>2, <2>1
  <2>3. 1 \in 1..n - 1
      BY <1>2
  <2> QED BY <1>1, <1>2, <2>2, <2>3
<1>4. PICK z \in S, u \in Sides :
          K[z] # K[q[1]] /\ u = Toward(K[q[1]], K[z]) /\ c[z][u] \in M \ S
    BY <1>3, Leaves
<1>5. PICK i \in 1..n - 1 : c[z][u] = q[i]
    BY <1>1, <1>4
<1>6. i + 1 \in 2..m /\ (i + 1) - 1 = i
    BY <1>2
<1>7. /\ q[i + 1] \in M /\ q[i] \in M
      /\ c[q[i + 1]][Toward(a, K[q[i + 1]])] = q[i]
    BY <1>6, WayFacts
<1>8. z = q[i + 1] /\ u = Toward(a, K[q[i + 1]])
  <2>1. PICK v \in Sides : v = Toward(a, K[q[i + 1]])
      BY TowardSide
  <2>2. z \in M /\ q[i] # Null
      BY <1>3, <1>7 DEF SearchTree, Shape
  <2> QED BY <1>4, <1>5, <1>7, <2>1, <2>2 DEF SearchTree, Shape
<1>9. i + 1 = n
  <2>1. i + 1 \notin 1..n - 1
      BY <1>1, <1>4, <1>8
  <2> QED BY <1>2, <2>1
<1> QED BY <1>4, <1>8, <1>9

\* Every search for a comes to q[1], if a is not met before.
LEMMA WayLeads ==
    ASSUME NEW M, NEW R, NEW c, NEW K, SearchTree(M, R, c, K),
           NEW a, NEW q, NEW m, Way(M, R, c, K, a, q, m),
           \A n \in 2..m : K[q[n]] # a,
           NEW S \in SUBSET M, R \in S, Follows(c, K, a, S)
    PROVE  q[1] \in S
<1> SUFFICES ASSUME q[1] \notin S PROVE FALSE
    OBVIOUS
<1>1. PICK Q : Q = {z \in S : \E n \in 1..m : z = q[n]}
    OBVIOUS
<1>2. 1 \in 1..m /\ m \in 1..m /\ q[m] = R /\ q[1] \in M /\ m \in Nat
    BY DEF Way
<1>3. Q \subseteq M /\ R \in Q /\ q[1] \notin Q
    BY <1>1, <1>2
<1>4. PICK z \in Q, u \in Sides :
          K[z] # K[q[1]] /\ u = Toward(K[q[1]], K[z]) /\ c[z][u] \in M \ Q
    BY <1>2, <1>3, Leaves
<1>5. PICK n \in 1..m : z = q[n]
    BY <1>1, <1>4
<1>6. n \in 2..m
    BY <1>2, <1>4, <1>5
<1>7. u = Toward(a, K[z]) /\ K[z] # a
    BY <1>4, <1>5, <1>6, WaySide
<1>8. c[z][u] = q[n - 1] /\ n - 1 \in 1..m
    BY <1>5, <1>6, <1>7, WayFacts
<1>9. c[z][u] \in S \cup {Null}
    BY <1>1, <1>4, <1>7 DEF Follows
<1>10. c[z][u] # Null
    BY <1>4 DEF SearchTree, Shape
<1> QED BY <1>1, <1>4, <1>8, <1>9, <1>10

\* A search that goes on to Null has not met a node because there is none.
LEMMA WayEnds ==
    ASSUME NEW M, NEW R, NEW c, NEW K, SearchTree(M, R, c, K),
           NEW a, NEW q, NEW m, Way(M, R, c, K, a, q, m),
           c[q[1]][Toward(a, K[q[1]])] = Null,
           \A n \in 1..m : K[q[n]] # a,
           NEW t \in M
    PROVE  K[t] # a
<1> SUFFICES ASSUME K[t] = a PROVE FALSE
    OBVIOUS
<1>1. PICK S : S = {q[n] : n \in 1..m}
    OBVIOUS
<1>2. /\ m \in Nat \ {0} /\ m \in 1..m /\ q[m] = R
      /\ \A n \in 1..m : q[n] \in M
    BY DEF Way
<1>3. S \subseteq M /\ R \in S /\ t \notin S
    BY <1>1, <1>2
<1>4. PICK z \in S, u \in Sides : u = Toward(a, K[z]) /\ c[z][u] \in M \ S
    BY <1>3, Leaves
<1>5. PICK n \in 1..m : z = q[n]
    BY <1>1
<1>6. n # 1
    BY <1>4, <1>5 DEF SearchTree, Shape
<1>7. n \in 2..m
    BY <1>2, <1>6
<1>8. c[z][u] = q[n - 1] /\ n - 1 \in 1..m
    BY <1>4, <1>5, <1>7, WayFacts
<1> QED BY <1>1, <1>4, <1>8

\* If the search comes to a node without a left child that has a greater key, no
\* key is between the two.
LEMMA WayNext ==
    ASSUME NEW M, NEW R, NEW c, NEW K, SearchTree(M, R, c, K),
           NEW a \in Int, NEW q, NEW m, Way(M, R, c, K, a, q, m),
           c[q[1]][0] = Null,
           NEW t \in M, a < K[t], t # q[1]
    PROVE  K[q[1]] < K[t]
<1>1. PICK S, w : S = {q[n] : n \in 1..m} /\ w = q[1]
    OBVIOUS
<1>2. /\ m \in Nat \ {0} /\ m \in 1..m /\ 1 \in 1..m /\ q[m] = R /\ w \in M
      /\ \A n \in 1..m : q[n] \in M
    BY <1>1 DEF Way
<1>3. K[t] \in Int /\ K[w] \in Int /\ K[t] # K[w]
    BY <1>1, <1>2 DEF SearchTree, Shape
<1> SUFFICES ASSUME K[t] < K[w] PROVE FALSE
    BY <1>1, <1>3
<1>4. ASSUME NEW n \in 2..m
      PROVE  K[q[n]] \in Int /\ K[q[n]] # K[t] /\ Toward(K[t], K[q[n]]) = Toward(a, K[q[n]])
  <2>1. K[q[n]] \in Int
      BY <1>2, WayFacts DEF SearchTree, Shape
  <2>2. Toward(K[w], K[q[n]]) = Toward(a, K[q[n]])
      BY <1>1, WaySide
  <2> QED BY <1>3, <2>1, <2>2 DEF Toward
<1>5. t \notin S
  <2>1. ASSUME NEW n \in 1..m PROVE t # q[n]
    <3>1. CASE n = 1
        BY <3>1
    <3>2. CASE n # 1
      <4>1. n \in 2..m
          BY <1>2, <3>2
      <4> QED BY <1>4, <4>1
    <3> QED BY <3>1, <3>2
  <2> QED BY <1>1, <2>1
<1>6. S \subseteq M /\ R \in S
    BY <1>1, <1>2
<1>7. PICK z \in S, u \in Sides : u = Toward(K[t], K[z]) /\ c[z][u] \in M \ S
    BY <1>5, <1>6, Leaves
<1>8. PICK n \in 1..m : z = q[n]
    BY <1>1
<1>9. n # 1
  <2>1. n = 1 => u = 0
      BY <1>1, <1>7, <1>8 DEF Toward
  <2> QED BY <1>1, <1>7, <1>8, <2>1 DEF SearchTree, Shape
<1>10. n \in 2..m
    BY <1>2, <1>9
<1>11. c[z][u] = q[n - 1] /\ n - 1 \in 1..m
    BY <1>4, <1>7, <1>8, <1>10, WayFacts
<1> QED BY <1>1, <1>7, <1>11

\* The next node is a new one; so are all children of q[1].
LEMMA WayOn ==
    ASSUME NEW M, NEW R, NEW c, NEW K, SearchTree(M, R, c, K),
           NEW a, NEW q, NEW m, Way(M, R, c, K, a, q, m),
           NEW s \in Sides, c[q[1]][s] # Null, NEW n \in 1..m
    PROVE  c[q[1]][s] # q[n]
<1> SUFFICES ASSUME c[q[1]][s] = q[n] PROVE FALSE
    OBVIOUS
<1>1. m \in Nat \ {0} /\ 1 \in 1..m /\ q[1] \in M /\ q[m] = R
    BY DEF Way
<1>2. n # m
    BY <1>1, RootThere DEF SearchTree, Shape
<1>3. n + 1 \in 2..m /\ (n + 1) - 1 = n
    BY <1>1, <1>2
<1>4. /\ n + 1 \in 1..m /\ q[n + 1] \in M
      /\ c[q[n + 1]][Toward(a, K[q[n + 1]])] = q[n]
    BY <1>3, WayFacts
<1>5. q[n + 1] = q[1]
  <2>1. PICK u \in Sides : u = Toward(a, K[q[n + 1]])
      BY TowardSide
  <2> QED BY <1>1, <1>4, <2>1 DEF SearchTree, Shape
<1> QED BY <1>1, <1>4, <1>5 DEF Way

LEMMA OffTheWay ==
    ASSUME NEW M, NEW R, NEW c, NEW K, SearchTree(M, R, c, K),
           NEW a, NEW q, NEW m, Way(M, R, c, K, a, q, m),
           NEW y \in M, \A n \in 1..m : y # q[n],
           NEW s \in Sides, c[y][s] # Null, c[y][s] # q[1], NEW n \in 1..m
    PROVE  c[y][s] # q[n]
<1> SUFFICES ASSUME c[y][s] = q[n] PROVE FALSE
    OBVIOUS
<1>1. m \in Nat \ {0} /\ q[m] = R
    BY DEF Way
<1>2. n # m
    BY <1>1, RootThere DEF SearchTree, Shape
<1>3. n + 1 \in 2..m /\ (n + 1) - 1 = n
    BY <1>1, <1>2
<1>4. /\ n + 1 \in 1..m /\ q[n + 1] \in M
      /\ c[q[n + 1]][Toward(a, K[q[n + 1]])] = q[n]
    BY <1>3, WayFacts
<1>5. q[n + 1] = y
  <2>1. PICK u \in Sides : u = Toward(a, K[q[n + 1]])
      BY TowardSide
  <2> QED BY <1>4, <2>1 DEF SearchTree, Shape
<1> QED BY <1>4, <1>5

\* A way stays one while its nodes stay, and what it leaves by.
LEMMA SameWay ==
    ASSUME NEW M, NEW R, NEW c, NEW K, NEW a, NEW q, NEW m, Way(M, R, c, K, a, q, m),
           NEW L, NEW d, NEW J, \A n \in 1..m : q[n] \in L /\ J[q[n]] = K[q[n]],
           \A n \in 2..m, s \in Sides : d[q[n]][s] = c[q[n]][s]
    PROVE  Way(L, R, d, J, a, q, m)
<1>1. m \in Nat
    BY DEF Way
<1>2. ASSUME NEW i \in 1..m - 1 PROVE d[q[i + 1]][Toward(a, J[q[i + 1]])] = q[i]
  <2>1. i + 1 \in 2..m /\ i + 1 \in 1..m
      BY <1>1
  <2>2. Toward(a, K[q[i + 1]]) \in Sides
      BY TowardSide
  <2> QED BY <2>1, <2>2 DEF Way
<1> QED BY <1>2 DEF Way

----------------------------------------------------------------------------
(* The invariant                                                           *)

Nd == [x \in Nodes |-> Link(x)]

TreeInv == SearchTree(Kept, Root, Nd, key)

\* The calls around are the way of the search for k.
Frames == path # <<>> => Way(Kept, root, Nd, key, wanted, path, Len(path))

Places ==
    /\ op = "none" => at = Null /\ wanted = Nothing
    /\ op # "none" => wanted \in Keys /\ at \in Kept \cup {Null}
    /\ op = "insert" => given \in Values
    /\ op \in {"none", "find"} => path = <<>> /\ place = "call"
    /\ gone # Null => op = "erase"
    /\ place \notin {"call", "return"} => at # Null

\* While the calls go down, nothing has changed.
Called ==
    op \in {"insert", "erase"} /\ place = "call" =>
        at = IF path = <<>> THEN root ELSE child[Head(path)][Side(Head(path))]

\* Of the node that is replaced, and of the one that replaces it.
Replacing ==
    /\ gone = Null => next = Null
    /\ next # Null =>
         /\ next \in live /\ wanted < key[next]
         /\ \A t \in Kept : t = gone \/ key[t] < wanted \/ key[next] < key[t]
    /\ gone # Null =>
         /\ gone \in Nodes \ live /\ key[gone] = wanted /\ low = child[gone][0]
         /\ place = "call" => next = Null /\ at # Null
         /\ place # "call" => next # Null
         /\ \E n \in 1..Len(path) :
               path[n] = gone /\ \A i \in 1..n - 1 : wanted < key[path[i]]

Sought ==
    /\ op = "find" =>
         \A t \in Kept : key[t] = wanted =>
            \A S \in SUBSET Kept :
               (at = Null \/ at \in S) /\ Follows(Nd, key, wanted, S) => t \in S
    /\ op # "none" /\ place = "call" /\ gone = Null =>
         \A i \in 1..Len(path) : key[path[i]] # wanted
    /\ op = "insert" /\ place = "call" =>
         (\E x \in live : key[x] = wanted) \/ (size < N /\ size \notin live)

\* The height that the child had whose subtree has been rebuilt.
Expects(d) ==
    path # <<>> =>
        LET x == Head(path)
            o == HeightOf(child[x][1 - Side(x)])
        IN  d - o \in {-1, 0, 1} /\ height[x] = Larger(d, o) + 1

\* What is returned is as high as before, or one higher or lower.
ReturnHeights ==
    place = "return" => \E d \in Nat : Expects(d) /\ d - HeightOf(at) \in {-1, 0, 1}

BalanceHeights ==
    place = "balance" =>
        /\ height[at] = Reheight(child[at])
        /\ Bias(at) \in -2..2
        /\ \E d \in Nat :
             /\ Expects(d)
             /\ IF Bias(at) \in {-1, 0, 1} THEN d - height[at] \in {-1, 0, 1}
                ELSE d - height[at] \in {-1, 0}

\* Of a subtree whose child on side j has been turned.
TurnHeights ==
    \A j \in Sides : place = Rotation(j) =>
        LET y == child[at][j]
            o == HeightOf(child[at][1 - j])
        IN  /\ y # Null /\ height[y] = o + 2
            /\ HeightOf(child[y][j]) = o + 1
            /\ HeightOf(child[y][1 - j]) - o \in {-1, 0}
            /\ \E d \in {o + 2, o + 3} : Expects(d)

Heights == Balanced /\ ReturnHeights /\ BalanceHeights /\ TurnHeights

IInv == TypeOK /\ TreeInv /\ Frames /\ Places /\ Called /\ Replacing /\ Sought /\ Heights

----------------------------------------------------------------------------
(* Facts about a state                                                     *)

LEMMA Numbers ==
    /\ Keys \subseteq Int /\ Nothing \in Int \ Keys /\ N \in Nat \ {0}
    /\ Null \notin Nodes /\ Nodes \subseteq Int
BY TreeAssumption DEF Null, Nodes

LEMMA Sided == \A x : Side(x) = Toward(wanted, key[x]) /\ Side(x) \in Sides
BY TowardSide DEF Side, Toward

LEMMA PathFacts ==
    ASSUME NEW q \in Seq(Nodes)
    PROVE  /\ Len(q) \in Nat /\ \A i \in 1..Len(q) : q[i] \in Nodes
           /\ q # <<>> <=> Len(q) > 0
           /\ q # <<>> => /\ Head(q) = q[1] /\ Head(q) \in Nodes
                          /\ Tail(q) \in Seq(Nodes) /\ Len(Tail(q)) = Len(q) - 1
                          /\ \A i \in 1..Len(q) - 1 : Tail(q)[i] = q[i + 1]
           /\ \A x \in Nodes : /\ <<x>> \o q \in Seq(Nodes)
                               /\ Len(<<x>> \o q) = Len(q) + 1
                               /\ (<<x>> \o q)[1] = x /\ <<x>> \o q # <<>>
                               /\ Head(<<x>> \o q) = x /\ Tail(<<x>> \o q) = q
                               /\ \A i \in 1..Len(q) : (<<x>> \o q)[i + 1] = q[i]
<1>1. Len(q) \in Nat /\ \A i \in 1..Len(q) : q[i] \in Nodes
    OBVIOUS
<1>2. q # <<>> <=> Len(q) > 0
    OBVIOUS
<1>3. q # <<>> => /\ Head(q) = q[1] /\ Head(q) \in Nodes
                  /\ Tail(q) \in Seq(Nodes) /\ Len(Tail(q)) = Len(q) - 1
                  /\ \A i \in 1..Len(q) - 1 : Tail(q)[i] = q[i + 1]
    OBVIOUS
<1>4. ASSUME NEW x \in Nodes
      PROVE  /\ <<x>> \o q \in Seq(Nodes)
             /\ Len(<<x>> \o q) = Len(q) + 1
             /\ (<<x>> \o q)[1] = x /\ <<x>> \o q # <<>>
             /\ Head(<<x>> \o q) = x /\ Tail(<<x>> \o q) = q
             /\ \A i \in 1..Len(q) : (<<x>> \o q)[i + 1] = q[i]
    OBVIOUS
<1> QED BY <1>1, <1>2, <1>3, <1>4

LEMMA LinkFacts ==
    TypeOK => \A x \in Nodes, s \in Sides :
                 Nd[x][s] = IF path # <<>> /\ x = Head(path) /\ s = Side(x) THEN at
                            ELSE child[x][s]
<1> SUFFICES ASSUME TypeOK, NEW x \in Nodes, NEW s \in Sides
             PROVE  Nd[x][s] = IF path # <<>> /\ x = Head(path) /\ s = Side(x) THEN at
                               ELSE child[x][s]
    OBVIOUS
<1>1. child[x] \in [Sides -> Links]
    BY DEF TypeOK
<1> QED BY <1>1, Sided DEF Nd, Link

LEMMA Keeping ==
    TypeOK => /\ Kept \subseteq Nodes \cup {gone} /\ (gone \in Nodes => Kept \subseteq Nodes)
              /\ gone = Null => Kept = live \ {next}
              /\ gone # Null => Kept = (live \ {next}) \cup {gone}
BY DEF TypeOK, Kept

LEMMA KeptAreNodes == TypeOK => Kept \subseteq Nodes /\ Null \notin Kept
BY Numbers DEF TypeOK, Kept, Links


LEMMA Keyed ==
    IInv => \A x \in Kept : x \in Nodes /\ x # Null /\ key[x] \in Keys /\ key[x] \in Int
<1> SUFFICES ASSUME IInv, NEW x \in Kept
             PROVE  x \in Nodes /\ x # Null /\ key[x] \in Keys /\ key[x] \in Int
    OBVIOUS
<1>1. x \in Nodes /\ x # Null
    BY KeptAreNodes DEF IInv
<1>2. x \in live \/ (x = gone /\ gone # Null)
    BY DEF Kept
<1>3. key[x] \in Keys
    BY <1>2 DEF IInv, TypeOK, Places, Replacing
<1> QED BY <1>1, <1>3, Numbers

LEMMA Wanted ==
    IInv /\ op # "none" => wanted \in Keys /\ wanted \in Int /\ wanted # Nothing
BY Numbers DEF IInv, Places

\* The way from the root to the node that is worked on.
LEMMA AtWay ==
    ASSUME IInv, op \in {"insert", "erase"}, at # Null
    PROVE  Way(Kept, Root, Nd, key, wanted, <<at>> \o path, Len(path) + 1)
<1>1. at \in Kept /\ at \in Nodes
    BY Keyed DEF IInv, Places
<1>2. path \in Seq(Nodes)
    BY DEF IInv, TypeOK
<1>3. PICK q, m : q = <<at>> \o path /\ m = Len(path)
    OBVIOUS
<1>4. m \in Nat /\ q[1] = at /\ \A i \in 1..m : q[i + 1] = path[i]
    BY <1>1, <1>2, <1>3, PathFacts
<1>5. CASE path = <<>>
  <2>1. Root = at /\ m = 0
      BY <1>3, <1>5 DEF Root
  <2> QED BY <1>1, <1>3, <1>4, <2>1 DEF Way
<1>6. CASE path # <<>>
  <2>1. Root = root /\ Head(path) = path[1] /\ m \in Nat \ {0}
      BY <1>2, <1>3, <1>6, PathFacts DEF Root
  <2>2. Way(Kept, Root, Nd, key, wanted, path, m)
      BY <1>3, <1>6, <2>1 DEF IInv, Frames
  <2>3. path[1] \in Kept /\ path[1] \in Nodes /\ 1 \in 1..m
      BY <2>1, <2>2, Keyed DEF Way
  <2>4. PICK s \in Sides : s = Side(path[1]) /\ s = Toward(wanted, key[path[1]])
      BY Sided
  <2>5. Nd[path[1]][s] = at
      BY <1>6, <2>1, <2>3, <2>4, LinkFacts DEF IInv
  <2>6. SearchTree(Kept, Root, Nd, key)
      BY DEF IInv, TreeInv
  <2>7. \A n \in 1..m : at # path[n]
      BY <2>2, <2>4, <2>5, <2>6, WayOn
  <2>8. \A i \in 1..m + 1 : i = 1 \/ (i - 1 \in 1..m /\ q[i] = path[i - 1])
    <3>1. ASSUME NEW i \in 1..m + 1, i # 1 PROVE i - 1 \in 1..m /\ q[i] = path[i - 1]
      <4>1. i - 1 \in 1..m /\ (i - 1) + 1 = i
          BY <2>1, <3>1
      <4> QED BY <1>4, <4>1
    <3> QED BY <3>1
  <2>9. \A i \in 1..m + 1 : q[i] \in Kept
      BY <1>1, <1>4, <2>2, <2>8 DEF Way
  <2>10. \A i, j \in 1..m + 1 : q[i] = q[j] => i = j
    <3> SUFFICES ASSUME NEW i \in 1..m + 1, NEW j \in 1..m + 1, q[i] = q[j] PROVE i = j
        OBVIOUS
    <3>1. CASE i = 1 \/ j = 1
        BY <1>4, <2>7, <2>8, <3>1
    <3>2. CASE i # 1 /\ j # 1
      <4>1. i - 1 = j - 1
          BY <2>2, <2>8, <3>2 DEF Way
      <4> QED BY <2>1, <4>1
    <3> QED BY <3>1, <3>2
  <2>11. ASSUME NEW i \in 1..(m + 1) - 1 PROVE Nd[q[i + 1]][Toward(wanted, key[q[i + 1]])] = q[i]
    <3>1. i \in 1..m /\ q[i + 1] = path[i] /\ i \in 1..m + 1
        BY <1>4, <2>1
    <3>2. CASE i = 1
        BY <1>4, <2>4, <2>5, <3>1, <3>2
    <3>3. CASE i # 1
      <4>1. i - 1 \in 1..m - 1 /\ (i - 1) + 1 = i /\ q[i] = path[i - 1]
          BY <2>1, <2>8, <3>1, <3>3
      <4> QED BY <2>2, <3>1, <4>1 DEF Way
    <3> QED BY <3>2, <3>3
  <2>12. q[m + 1] = Root
    <3>1. m \in 1..m
        BY <2>1
    <3> QED BY <1>4, <2>2, <3>1 DEF Way
  <2> QED BY <1>3, <1>4, <2>9, <2>10, <2>11, <2>12 DEF Way
<1> QED BY <1>5, <1>6

\* That node is the root or the child of the innermost of the calls around.
LEMMA Parent ==
    ASSUME IInv, op \in {"insert", "erase"}, at # Null, NEW x \in Kept, NEW s \in Sides,
           Nd[x][s] = at
    PROVE  path # <<>> /\ x = Head(path) /\ s = Side(x)
<1>1. SearchTree(Kept, Root, Nd, key)
    BY DEF IInv, TreeInv
<1>2. path # <<>>
    BY <1>1 DEF SearchTree, Shape, Root
<1>3. Head(path) = path[1] /\ path[1] \in Kept /\ path[1] \in Nodes
  <2>1. path \in Seq(Nodes)
      BY DEF IInv, TypeOK
  <2> QED BY <1>2, <2>1, PathFacts, Keyed DEF IInv, Frames, Way
<1>4. PICK u \in Sides : u = Side(Head(path))
    BY Sided
<1>5. Nd[Head(path)][u] = at
    BY <1>2, <1>3, <1>4, LinkFacts DEF IInv
<1> QED BY <1>1, <1>2, <1>3, <1>4, <1>5 DEF SearchTree, Shape

\* While the calls go down, the tree is what the links say.
LEMMA CallLinks ==
    IInv /\ place = "call" => /\ Root = root
                              /\ \A x \in Nodes, s \in Sides : Nd[x][s] = child[x][s]
<1> SUFFICES ASSUME IInv, place = "call"
             PROVE  /\ Root = root
                    /\ \A x \in Nodes, s \in Sides : Nd[x][s] = child[x][s]
    OBVIOUS
<1>1. Root = root
    BY DEF IInv, Root, Called
<1>2. path # <<>> => op \in {"insert", "erase"}
    BY DEF IInv, TypeOK, Places
<1> QED BY <1>1, <1>2, LinkFacts DEF IInv, Called

LEMMA Shapes == IInv => SearchTree(Kept, Root, Nd, key) /\ Shape(Kept, Root, Nd, key)
BY DEF IInv, TreeInv, SearchTree

\* The calls around are those of other nodes of the tree.
LEMMA Around ==
    ASSUME IInv, path # <<>>
    PROVE  /\ op \in {"insert", "erase"} /\ Root = root
           /\ path \in Seq(Nodes) /\ Len(path) \in Nat \ {0} /\ 1 \in 1..Len(path)
           /\ Head(path) = path[1] /\ path[1] \in Kept /\ path[1] \in Nodes
           /\ Way(Kept, Root, Nd, key, wanted, path, Len(path))
           /\ Nd[path[1]][Side(path[1])] = at
           /\ at # Null => \A n \in 1..Len(path) : path[n] # at
<1>1. op \in {"insert", "erase"} /\ Root = root
    BY DEF IInv, TypeOK, Places, Root
<1>2. path \in Seq(Nodes)
    BY DEF IInv, TypeOK
<1>3. /\ Len(path) \in Nat \ {0} /\ 1 \in 1..Len(path)
      /\ Head(path) = path[1]
    BY <1>2, PathFacts
<1>4. Way(Kept, Root, Nd, key, wanted, path, Len(path))
    BY <1>1 DEF IInv, Frames
<1>5. path[1] \in Kept /\ path[1] \in Nodes
    BY <1>3, <1>4, Keyed DEF Way
<1>6. PICK s \in Sides : s = Side(path[1])
    BY Sided
<1>7. Nd[path[1]][s] = at
    BY <1>3, <1>5, <1>6, LinkFacts DEF IInv
<1>8. at # Null => \A n \in 1..Len(path) : path[n] # at
    BY <1>4, <1>6, <1>7, Shapes, WayOn
<1> QED BY <1>1, <1>2, <1>3, <1>4, <1>5, <1>6, <1>7, <1>8

\* Beyond the node that is replaced, all keys are greater than its key.
LEMMA Beyond ==
    ASSUME IInv, gone # Null, at # Null
    PROVE  at # gone /\ wanted < key[at] /\ Side(at) = 0 /\ at \in live /\ path # <<>>
<1>1. op = "erase" /\ wanted \in Int /\ key[gone] = wanted
    BY Wanted DEF IInv, Places, Replacing
<1>2. at \in Kept /\ at \in Nodes /\ key[at] \in Int
    BY <1>1, Keyed DEF IInv, Places
<1>3. PICK n \in 1..Len(path) : path[n] = gone
    BY DEF IInv, Replacing
<1>4. path \in Seq(Nodes) /\ Len(path) \in Nat /\ path # <<>>
  <2>1. path \in Seq(Nodes)
      BY DEF IInv, TypeOK
  <2> QED BY <1>3, <2>1, PathFacts
<1>5. PICK q, m : q = <<at>> \o path /\ m = Len(path) + 1
    OBVIOUS
<1>6. q[1] = at /\ q[n + 1] = gone /\ n + 1 \in 2..m
    BY <1>2, <1>3, <1>4, <1>5, PathFacts
<1>7. Way(Kept, Root, Nd, key, wanted, q, m)
    BY <1>1, <1>5, AtWay
<1>8. SearchTree(Kept, Root, Nd, key)
    BY DEF IInv, TreeInv
<1>9. key[at] # wanted /\ Toward(key[at], wanted) = Toward(wanted, wanted)
    BY <1>1, <1>6, <1>7, <1>8, WaySide
<1>10. wanted < key[at]
    BY <1>1, <1>2, <1>9 DEF Toward
<1>11. Side(at) = 0
    BY <1>10 DEF Side
<1> QED BY <1>1, <1>2, <1>4, <1>9, <1>10, <1>11 DEF Kept

----------------------------------------------------------------------------
(* Types                                                                   *)

LEMMA Typed ==
    IInv => /\ child \in [Nodes -> [Sides -> Links]] /\ height \in [Nodes -> Nat]
            /\ key \in [Nodes -> Keys \cup {Nothing}] /\ value \in [Nodes -> Values \cup {Nothing}]
            /\ path \in Seq(Nodes) /\ at \in Links /\ root \in Links /\ live \subseteq Nodes
            /\ \A x \in Nodes, s \in Sides : child[x] \in [Sides -> Links] /\ child[x][s] \in Links
            /\ Sides = {0, 1} /\ Null \in Links /\ Null \notin Nodes
            /\ \A x \in Links : x = Null \/ x \in Nodes
BY Numbers DEF IInv, TypeOK, Sides, Links

LEMMA HeightNat == IInv => \A x \in Links : HeightOf(x) \in Nat
BY Typed DEF HeightOf

LEMMA LargerNat == \A a, b \in Nat : Larger(a, b) \in Nat
BY DEF Larger

\* A search step and a call change little.
LEMMA BeginType ==
    ASSUME IInv, NEW a \in Keys, NEW name \in {"find", "insert", "erase"},
           NEW b \in Values \cup {Nothing}, Begin(name, a, b)
    PROVE  TypeOK'
BY DEF IInv, TypeOK, Begin, nodeVars, goneVars

LEMMA FinishType ==
    ASSUME TypeOK, Finish, UNCHANGED <<nodeVars, size, live, path, goneVars>>,
           result' \in Values \cup {Nothing}, root' \in Links
    PROVE  TypeOK'
BY DEF TypeOK, Finish, nodeVars, goneVars, Links

LEMMA SearchingType == ASSUME IInv, Searching PROVE TypeOK'
<1>1. CASE Seek
  <2>1. at \in Nodes /\ Side(at) \in Sides
      BY <1>1, Typed, Sided DEF Seek
  <2>2. child[at][Side(at)] \in Links
      BY <2>1, Typed
  <2> QED BY <1>1, <2>2 DEF Seek, IInv, TypeOK, nodeVars, callVars, goneVars
<1>2. CASE Found
  <2>1. op = "find" /\ at # Null /\ at \in live
      BY <1>2 DEF Found, Calling, IInv, Places, Kept
  <2>2. value[at] \in Values
      BY <2>1 DEF IInv, TypeOK
  <2>3. TypeOK /\ root \in Links
      BY DEF IInv, TypeOK
  <2> QED BY <1>2, <2>2, <2>3, FinishType DEF Found, nodeVars, goneVars
<1>3. CASE NotFound
  <2>1. TypeOK /\ root \in Links
      BY DEF IInv, TypeOK
  <2> QED BY <1>3, <2>1, FinishType DEF NotFound, nodeVars, goneVars
<1>4. CASE Descend
  <2>1. at \in Nodes /\ Side(at) \in Sides
      BY <1>4, Typed, Sided DEF Descend
  <2>2. child[at][Side(at)] \in Links /\ <<at>> \o path \in Seq(Nodes)
      BY <2>1, Typed, PathFacts
  <2> QED BY <1>4, <2>2 DEF Descend, IInv, TypeOK, nodeVars, callVars, goneVars
<1>5. CASE GoLeft
  <2>1. at \in Nodes
      BY <1>5, Typed DEF GoLeft, IInv, Replacing
  <2>2. child[at][0] \in Links /\ <<at>> \o path \in Seq(Nodes)
      BY <2>1, Typed, PathFacts
  <2> QED BY <1>5, <2>2 DEF GoLeft, IInv, TypeOK, nodeVars, callVars, goneVars
<1> QED BY <1>1, <1>2, <1>3, <1>4, <1>5 DEF Searching

LEMMA Counting ==
    ASSUME TypeOK, NEW x \in Nodes
    PROVE  /\ IsFiniteSet(live \cup {x}) /\ IsFiniteSet(live \ {x}) /\ Cardinality(live) \in Nat
           /\ x \notin live => Cardinality(live \cup {x}) = Cardinality(live) + 1
           /\ x \in live => /\ Cardinality(live \ {x}) = Cardinality(live) - 1
                            /\ Cardinality(live) > 0
<1>1. IsFiniteSet(live)
    BY DEF TypeOK
<1>2. Cardinality(live) \in Nat
    BY <1>1, FS_CardinalityType
<1>3. IsFiniteSet(live \cup {x}) /\ (x \notin live => Cardinality(live \cup {x}) = Cardinality(live) + 1)
    BY <1>1, FS_AddElement
<1>4. IsFiniteSet(live \ {x}) /\ (x \in live => Cardinality(live \ {x}) = Cardinality(live) - 1)
    BY <1>1, FS_RemoveElement
<1>5. x \in live => Cardinality(live) # 0
    BY <1>1, FS_EmptySet
<1> QED BY <1>2, <1>3, <1>4, <1>5

LEMMA Whole == IInv /\ gone = Null /\ next = Null => Kept = live
<1> SUFFICES ASSUME IInv, gone = Null, next = Null PROVE Kept = live
    OBVIOUS
<1>1. live \subseteq Nodes /\ Null \notin Nodes
    BY Typed
<1> QED BY <1>1 DEF Kept

\* Where a search for a key ends without a node, the key is nowhere.
LEMMA Absent ==
    ASSUME IInv, Calling("insert") \/ Calling("erase"), at = Null
    PROVE  gone = Null /\ next = Null /\ Kept = live /\ \A x \in live : key[x] # wanted
<1>1. op \in {"insert", "erase"} /\ place = "call" /\ gone = Null /\ next = Null /\ op # "none"
    BY DEF Calling, IInv, Replacing
<1>2. Kept = live
    BY <1>1, Whole
<1>3. ASSUME NEW x \in live PROVE key[x] # wanted
  <2>1. CASE path = <<>>
    <3>1. Root = Null
        BY <1>1, <2>1 DEF Root
    <3> QED BY <1>2, <3>1, Shapes, RootThere
  <2>2. CASE path # <<>>
    <3>1. /\ Way(Kept, Root, Nd, key, wanted, path, Len(path))
          /\ Nd[path[1]][Toward(wanted, key[path[1]])] = Null
        BY <2>2, Around, Sided
    <3>2. \A n \in 1..Len(path) : key[path[n]] # wanted
        BY <1>1 DEF IInv, Sought
    <3> QED BY <1>2, <3>1, <3>2, Shapes, WayEnds
  <2> QED BY <2>1, <2>2
<1> QED BY <1>1, <1>2, <1>3

\* So that there is a free node for a new key.
LEMMA RoomThere ==
    ASSUME IInv, Calling("insert"), at = Null
    PROVE  /\ size \in Nodes /\ size \notin live /\ size < N /\ gone = Null /\ next = Null
           /\ Kept = live /\ \A x \in live : key[x] # wanted
<1>1. op = "insert" /\ place = "call" /\ op # "none" /\ gone = Null
    BY DEF Calling
<1>2. next = Null /\ Kept = live /\ \A x \in live : key[x] # wanted
    BY Absent
<1>3. size < N /\ size \notin live
    BY <1>1, <1>2 DEF IInv, Sought
<1>4. size \in Nodes
    BY <1>3, Numbers DEF IInv, TypeOK, Nodes
<1> QED BY <1>1, <1>2, <1>3, <1>4

\* Where an erasure finds the key.
LEMMA Doomed ==
    ASSUME IInv, Calling("erase") \/ Calling("insert"), at # Null
    PROVE  at \in live /\ at \in Kept /\ at \in Nodes /\ gone = Null /\ next = Null /\ Kept = live
<1>1. op # "none" /\ gone = Null /\ next = Null
    BY DEF Calling, IInv, Replacing
<1>2. Kept = live
    BY <1>1, Whole
<1> QED BY <1>1, <1>2, Keyed DEF IInv, Places

LEMMA DestroyType ==
    ASSUME IInv, at \in live, Destroy(at), TypeOK
    PROVE  /\ result' \in Values \cup {Nothing} /\ size' \in 0..N
           /\ live' \in SUBSET Nodes /\ IsFiniteSet(live') /\ size' = Cardinality(live')
<1>1. at \in Nodes /\ value[at] \in Values /\ size = Cardinality(live) /\ size \in 0..N
    BY DEF TypeOK
<1>2. IsFiniteSet(live \ {at}) /\ Cardinality(live \ {at}) = size - 1 /\ size > 0
    BY <1>1, Counting
<1>3. size - 1 \in 0..N
    BY <1>1, <1>2, Numbers
<1> QED BY <1>1, <1>2, <1>3 DEF Destroy, TypeOK

LEMMA ChangingType == ASSUME IInv, Changing PROVE TypeOK'
<1>0. TypeOK
    BY DEF IInv
<1>1. CASE Create
  <2>1. /\ size \in Nodes /\ size \notin live /\ size < N /\ wanted \in Keys /\ given \in Values
    <3>1. Calling("insert") /\ at = Null /\ op = "insert"
        BY <1>1 DEF Create, Calling
    <3> QED BY <3>1, RoomThere DEF IInv, Places
  <2>2. IsFiniteSet(live') /\ size' = Cardinality(live')
      BY <1>0, <1>1, <2>1, Counting DEF Create, TypeOK
  <2>3. size' \in 0..N
      BY <1>0, <1>1, <2>1, Numbers DEF Create, TypeOK
  <2>4. child' \in [Nodes -> [Sides -> Links]] /\ height' \in [Nodes -> Nat]
      BY <1>0, <1>1, <2>1 DEF Create, TypeOK, Links
  <2>5. /\ key' \in [Nodes -> Keys \cup {Nothing}] /\ value' \in [Nodes -> Values \cup {Nothing}]
        /\ \A x \in live' : key'[x] \in Keys /\ value'[x] \in Values
        /\ live' \in SUBSET Nodes
      BY <1>0, <1>1, <2>1 DEF Create, TypeOK
  <2>6. at' \in Links /\ place' = "return" /\ result' = Nothing
      BY <1>1, <2>1 DEF Create, Return, Links
  <2> QED BY <1>0, <1>1, <2>2, <2>3, <2>4, <2>5, <2>6 DEF Create, TypeOK, callVars, goneVars
<1>2. CASE Overwrite
  <2>1. at \in live /\ at \in Nodes /\ given \in Values
    <3>1. Calling("insert") /\ at # Null /\ op = "insert"
        BY <1>2 DEF Overwrite, Calling
    <3> QED BY <3>1, Doomed DEF IInv, Places
  <2>2. /\ value' \in [Nodes -> Values \cup {Nothing}] /\ result' \in Values
        /\ \A x \in live : key[x] \in Keys /\ value'[x] \in Values
      BY <1>0, <1>2, <2>1 DEF Overwrite, TypeOK
  <2> QED BY <1>0, <1>2, <2>2 DEF Overwrite, Return, TypeOK, callVars, goneVars
<1>3. CASE Missing
    BY <1>0, <1>3 DEF Missing, Return, TypeOK, nodeVars, callVars, goneVars, Links
<1>4. CASE EraseLast
  <2>1. at \in live /\ at \in Nodes
      BY <1>4, Doomed DEF EraseLast
  <2>2. child[at][0] \in Links
      BY <2>1, Typed
  <2>3. /\ result' \in Values \cup {Nothing} /\ size' \in 0..N /\ live' = live \ {at}
        /\ live' \in SUBSET Nodes /\ IsFiniteSet(live') /\ size' = Cardinality(live')
      BY <1>0, <1>4, <2>1, DestroyType DEF EraseLast, Destroy
  <2>4. /\ child' \in [Nodes -> [Sides -> Links]] /\ height' \in [Nodes -> Nat]
        /\ key' \in [Nodes -> Keys \cup {Nothing}] /\ value' \in [Nodes -> Values \cup {Nothing}]
      BY <1>0, <1>4, <2>1 DEF EraseLast, Blank, TypeOK, Links
  <2>5. \A x \in live' : key'[x] = key[x] /\ value'[x] = value[x]
      BY <1>0, <1>4, <2>1, <2>3 DEF EraseLast, Blank, TypeOK
  <2> QED BY <1>0, <1>4, <2>2, <2>3, <2>4, <2>5 DEF EraseLast, Return, TypeOK, callVars, goneVars
<1>5. CASE EraseInner
  <2>1. at \in live /\ at \in Nodes
      BY <1>5, Doomed DEF EraseInner
  <2>2. child[at][0] \in Links /\ child[at][1] \in Links /\ <<at>> \o path \in Seq(Nodes)
      BY <2>1, Typed, PathFacts
  <2>3. /\ result' \in Values \cup {Nothing} /\ size' \in 0..N /\ live' = live \ {at}
        /\ live' \in SUBSET Nodes /\ IsFiniteSet(live') /\ size' = Cardinality(live')
      BY <1>0, <1>5, <2>1, DestroyType DEF EraseInner, Destroy
  <2>4. {gone', low', next'} \subseteq Links
      BY <1>0, <1>5, <2>1, <2>2 DEF EraseInner, TypeOK, Links
  <2> QED BY <1>0, <1>5, <2>2, <2>3, <2>4 DEF EraseInner, TypeOK, nodeVars, callVars
<1>6. CASE Unlink
  <2>1. at \in Links /\ at # Null
      BY <1>0, <1>6 DEF Unlink, IInv, Replacing, TypeOK
  <2>2. child[at][1] \in Links
      BY <2>1, Typed
  <2>3. {gone', low', next'} \subseteq Links
      BY <1>0, <1>6, <2>1 DEF Unlink, TypeOK
  <2> QED BY <1>0, <1>6, <2>2, <2>3 DEF Unlink, Return, TypeOK, nodeVars, callVars
<1> QED BY <1>1, <1>2, <1>3, <1>4, <1>5, <1>6 DEF Changing

----------------------------------------------------------------------------
(* What balance() works on                                                 *)

Balancing == place \in {"balance", "right_rotate", "left_rotate"}

LEMMA Rotations == \A j \in Sides : Rotation(j) \in {"right_rotate", "left_rotate"}
BY DEF Rotation, Sides

LEMMA RotationsDiffer == \A j, u \in Sides : Rotation(j) = Rotation(u) => j = u
BY DEF Rotation, Sides

\* Nodes that are not those of the innermost call around have their children.
LEMMA OwnLinks ==
    ASSUME IInv, NEW x \in Nodes, path # <<>> => x # path[1]
    PROVE  \A s \in Sides : Nd[x][s] = child[x][s]
<1>1. path # <<>> => x # Head(path)
    BY Around
<1> QED BY <1>1, LinkFacts DEF IInv

LEMMA BalancedNode ==
    ASSUME IInv, Balancing
    PROVE  /\ op \in {"insert", "erase"} /\ at # Null /\ at \in Kept /\ at \in Nodes
           /\ \A s \in Sides : Nd[at][s] = child[at][s] /\ child[at][s] \in Kept \cup {Null}
<1>1. op \in {"insert", "erase"} /\ at # Null /\ at \in Kept
    BY DEF IInv, TypeOK, Places, Balancing
<1>2. at \in Nodes
    BY <1>1, Keyed
<1>3. path # <<>> => at # path[1]
    BY <1>1, Around
<1>4. \A s \in Sides : Nd[at][s] = child[at][s]
    BY <1>2, <1>3, OwnLinks
<1>5. \A s \in Sides : Nd[at][s] \in Kept \cup {Null}
    BY <1>1, Shapes DEF Shape
<1> QED BY <1>1, <1>2, <1>4, <1>5

\* A child of it is a node of its own, too.
LEMMA BalancedChild ==
    ASSUME IInv, Balancing, NEW j \in Sides, child[at][j] # Null
    PROVE  /\ child[at][j] \in Kept /\ child[at][j] \in Nodes /\ child[at][j] # at
           /\ Nd[at][j] = child[at][j] /\ Root # child[at][j]
           /\ path # <<>> => child[at][j] # path[1]
           /\ \A n \in 1..Len(path) : child[at][j] # path[n]
           /\ \A s \in Sides : /\ Nd[child[at][j]][s] = child[child[at][j]][s]
                               /\ child[child[at][j]][s] \in Kept \cup {Null}
                               /\ child[child[at][j]][s] # at
                               /\ child[child[at][j]][s] # child[at][j]
<1>1. op \in {"insert", "erase"} /\ at # Null /\ at \in Kept /\ at \in Nodes
    BY BalancedNode
<1>2. PICK y : y = child[at][j]
    OBVIOUS
<1>3. Nd[at][j] = y /\ y \in Kept /\ y \in Nodes /\ y # Null
    BY <1>2, BalancedNode, Keyed
<1>4. y # at /\ Root # y
    BY <1>1, <1>3, Shapes, ChildSide DEF Shape
<1>5. \A n \in 1..Len(path) : y # path[n]
  <2>1. CASE path = <<>>
      BY <2>1
  <2>2. CASE path # <<>>
    <3>1. PICK q, m : q = <<at>> \o path /\ m = Len(path) + 1
        OBVIOUS
    <3>2. Way(Kept, Root, Nd, key, wanted, q, m)
        BY <1>1, <3>1, AtWay
    <3>3. /\ q[1] = at
          /\ \A n \in 1..Len(path) : n + 1 \in 1..m /\ path[n] = q[n + 1]
        BY <1>1, <3>1, Typed, PathFacts
    <3>4. \A n \in 1..m : Nd[q[1]][j] # q[n]
        BY <1>3, <3>2, <3>3, Shapes, WayOn
    <3> QED BY <1>3, <3>3, <3>4
  <2> QED BY <2>1, <2>2
<1>6. path # <<>> => y # path[1]
    BY <1>5, Around
<1>7. \A s \in Sides : Nd[y][s] = child[y][s]
    BY <1>3, <1>6, OwnLinks
<1>8. \A s \in Sides : Nd[y][s] \in Kept \cup {Null}
    BY <1>3, Shapes DEF Shape
<1>9. ASSUME NEW s \in Sides PROVE Nd[y][s] # at /\ Nd[y][s] # y
  <2>1. CASE Nd[y][s] = Null
      BY <1>1, <1>3, <2>1
  <2>2. CASE Nd[y][s] # Null
      BY <1>1, <1>3, <2>2, Shapes, GrandchildSide, ChildSide
  <2> QED BY <2>1, <2>2
<1> QED BY <1>1, <1>2, <1>3, <1>4, <1>5, <1>6, <1>7, <1>8, <1>9

LEMMA SteadyNode ==
    ASSUME IInv, NEW x \in Kept, x \notin Unsteady
    PROVE  /\ height[x] = Larger(HeightOf(child[x][0]), HeightOf(child[x][1])) + 1
           /\ HeightOf(child[x][0]) - HeightOf(child[x][1]) \in {-1, 0, 1}
           /\ HeightOf(child[x][0]) \in Nat /\ HeightOf(child[x][1]) \in Nat
           /\ HeightOf(x) = height[x]
<1>1. Steady(x)
    BY DEF IInv, Heights, Balanced
<1>2. x \in Nodes /\ x # Null
    BY Keyed
<1>3. HeightOf(child[x][0]) \in Nat /\ HeightOf(child[x][1]) \in Nat
    BY <1>2, Typed, HeightNat
<1> QED BY <1>1, <1>2, <1>3 DEF Steady, Reheight, Bias, HeightOf

\* The same of one side and the other.
LEMMA SteadySides ==
    ASSUME IInv, NEW x \in Kept, x \notin Unsteady, NEW j \in Sides
    PROVE  /\ height[x] = Larger(HeightOf(child[x][j]), HeightOf(child[x][1 - j])) + 1
           /\ HeightOf(child[x][j]) - HeightOf(child[x][1 - j]) \in {-1, 0, 1}
           /\ HeightOf(child[x][j]) \in Nat /\ HeightOf(child[x][1 - j]) \in Nat
           /\ HeightOf(x) = height[x]
<1>1. CASE j = 0
    BY <1>1, SteadyNode
<1>2. CASE j = 1
    BY <1>2, SteadyNode DEF Larger
<1> QED BY <1>1, <1>2 DEF Sides

LEMMA Leaning ==
    ASSUME IInv, place = "balance", NEW j \in Sides, Leans(j)
    PROVE  /\ child[at][j] # Null
           /\ HeightOf(child[at][1 - j]) \in Nat /\ HeightOf(child[at][j]) = HeightOf(child[at][1 - j]) + 2
           /\ height[at] = HeightOf(child[at][1 - j]) + 3
           /\ \E d \in {HeightOf(child[at][1 - j]) + 2, HeightOf(child[at][1 - j]) + 3} : Expects(d)
<1>1. Balancing
    BY DEF Balancing
<1>2. at \in Nodes
    BY <1>1, BalancedNode
<1>3. PICK l, r : l = HeightOf(child[at][0]) /\ r = HeightOf(child[at][1])
    OBVIOUS
<1>4. l \in Nat /\ r \in Nat
    BY <1>2, <1>3, Typed, HeightNat
<1>5. /\ height[at] = Larger(l, r) + 1 /\ l - r \in -2..2
      /\ \E d \in Nat :
             /\ Expects(d)
             /\ IF l - r \in {-1, 0, 1} THEN d - height[at] \in {-1, 0, 1}
                ELSE d - height[at] \in {-1, 0}
    BY <1>3 DEF IInv, Heights, BalanceHeights, Reheight, Bias
<1>6. PICK d \in Nat :
             /\ Expects(d)
             /\ IF l - r \in {-1, 0, 1} THEN d - height[at] \in {-1, 0, 1}
                ELSE d - height[at] \in {-1, 0}
    BY <1>5
<1>7. CASE j = 0
  <2>1. l = r + 2 /\ height[at] = r + 3
      BY <1>3, <1>4, <1>5, <1>7 DEF Leans, Bias, Larger
  <2>2. d \in {r + 2, r + 3}
      BY <1>4, <1>6, <2>1
  <2>3. child[at][0] # Null
      BY <1>3, <1>4, <2>1 DEF HeightOf
  <2> QED BY <1>3, <1>4, <1>6, <1>7, <2>1, <2>2, <2>3
<1>8. CASE j = 1
  <2>1. r = l + 2 /\ height[at] = l + 3
      BY <1>3, <1>4, <1>5, <1>8 DEF Leans, Bias, Larger
  <2>2. d \in {l + 2, l + 3}
      BY <1>4, <1>6, <2>1
  <2>3. child[at][1] # Null
      BY <1>3, <1>4, <2>1 DEF HeightOf
  <2> QED BY <1>3, <1>4, <1>6, <1>8, <2>1, <2>2, <2>3
<1> QED BY <1>7, <1>8 DEF Sides


LEMMA Leant ==
    ASSUME IInv, Balancing, NEW j \in Sides, child[at][j] # Null
    PROVE  LeansBack(j) <=>
             HeightOf(child[child[at][j]][j]) < HeightOf(child[child[at][j]][1 - j])
<1>1. PICK y : y = child[at][j]
    OBVIOUS
<1>2. y \in Nodes
    BY <1>1, BalancedChild
<1>3. HeightOf(child[y][0]) \in Nat /\ HeightOf(child[y][1]) \in Nat
    BY <1>2, Typed, HeightNat
<1>4. CASE j = 0
    BY <1>1, <1>3, <1>4 DEF LeansBack, Bias
<1>5. CASE j = 1
    BY <1>1, <1>3, <1>5 DEF LeansBack, Bias
<1> QED BY <1>4, <1>5 DEF Sides

\* The higher child of a node that leans is steady.
LEMMA LeaningChild ==
    ASSUME IInv, place = "balance", NEW j \in Sides, child[at][j] # Null
    PROVE  /\ child[at][j] \in Kept /\ child[at][j] \notin Unsteady
<1>1. Balancing
    BY DEF Balancing
<1>2. /\ child[at][j] \in Kept /\ child[at][j] # at
      /\ path # <<>> => child[at][j] # path[1]
    BY <1>1, BalancedChild
<1>3. \A i \in Sides : place # Rotation(i)
    BY Rotations
<1>4. path # <<>> => child[at][j] # Head(path)
    BY <1>2, Around
<1> QED BY <1>2, <1>3, <1>4 DEF Unsteady

\* What the last rotation of balance() finds.
LEMMA Ready ==
    ASSUME IInv, NEW j \in Sides,
           place = Rotation(j) \/ (place = "balance" /\ Leans(j) /\ ~LeansBack(j)),
           NEW y, y = child[at][j], NEW o, o = HeightOf(child[at][1 - j])
    PROVE  /\ Balancing /\ y # Null /\ o \in Nat /\ height[y] = o + 2
           /\ HeightOf(child[y][j]) = o + 1
           /\ HeightOf(child[y][1 - j]) \in {o - 1, o, o + 1} /\ HeightOf(child[y][1 - j]) \in Nat
           /\ \E d \in {o + 2, o + 3} : Expects(d)
<1>1. Balancing
    BY Rotations DEF Balancing
<1>2. at \in Nodes /\ 1 - j \in Sides
    BY <1>1, BalancedNode, SideFacts
<1>3. o \in Nat
    BY <1>2, Typed, HeightNat
<1>4. y # Null
    BY Leaning DEF IInv, Heights, TurnHeights
<1>5. y \in Nodes /\ y \in Kept
    BY <1>1, <1>4, BalancedChild
<1>6. HeightOf(child[y][1 - j]) \in Nat
    BY <1>2, <1>5, Typed, HeightNat
<1>7. CASE place = Rotation(j)
  <2>1. /\ y # Null /\ height[y] = o + 2
        /\ HeightOf(child[y][j]) = o + 1
        /\ HeightOf(child[y][1 - j]) - o \in {-1, 0}
        /\ \E d \in {o + 2, o + 3} : Expects(d)
      BY <1>7 DEF IInv, Heights, TurnHeights
  <2>2. HeightOf(child[y][1 - j]) \in {o - 1, o, o + 1}
      BY <1>3, <1>6, <2>1
  <2> QED BY <1>1, <1>3, <1>6, <2>1, <2>2
<1>8. CASE place = "balance" /\ Leans(j) /\ ~LeansBack(j)
  <2>1. /\ HeightOf(y) = o + 2 /\ \E d \in {o + 2, o + 3} : Expects(d)
      BY <1>8, Leaning
  <2>2. y \notin Unsteady
      BY <1>4, <1>8, LeaningChild
  <2>3. PICK p, q : p = HeightOf(child[y][j]) /\ q = HeightOf(child[y][1 - j])
      OBVIOUS
  <2>4. height[y] = Larger(p, q) + 1 /\ p - q \in {-1, 0, 1} /\ p \in Nat /\ q \in Nat
        /\ HeightOf(y) = height[y]
      BY <1>5, <2>2, <2>3, SteadySides
  <2>5. ~(p < q)
      BY <1>1, <1>4, <1>8, <2>3, Leant
  <2>6. p = o + 1 /\ q \in {o - 1, o, o + 1}
      BY <1>3, <2>1, <2>4, <2>5 DEF Larger
  <2> QED BY <1>1, <1>3, <1>4, <1>6, <2>1, <2>3, <2>4, <2>6
<1> QED BY <1>7, <1>8

\* What the first of two rotations finds: the child m of y, on the other side.
LEMMA ReadyChild ==
    ASSUME IInv, NEW j \in Sides, place = "balance", Leans(j), LeansBack(j),
           NEW y, y = child[at][j], NEW o, o = HeightOf(child[at][1 - j]),
           NEW m, m = child[y][1 - j]
    PROVE  /\ Balancing /\ y # Null /\ m # Null /\ o \in Nat
           /\ height[at] = o + 3 /\ HeightOf(child[y][j]) = o /\ HeightOf(m) = o + 1
           /\ \A s \in Sides : HeightOf(child[m][s]) \in Nat /\ HeightOf(child[m][s]) \in {o, o - 1}
           /\ m \in Kept /\ m \in Nodes
           /\ \E d \in {o + 2, o + 3} : Expects(d)
<1>1. Balancing
    BY DEF Balancing
<1>2. y # Null /\ o \in Nat /\ HeightOf(y) = o + 2 /\ height[at] = o + 3
      /\ \E d \in {o + 2, o + 3} : Expects(d)
    BY Leaning
<1>3. y \in Kept /\ y \notin Unsteady /\ 1 - j \in Sides
    BY <1>2, LeaningChild, SideFacts
<1>4. PICK p, q : p = HeightOf(child[y][j]) /\ q = HeightOf(child[y][1 - j])
    OBVIOUS
<1>5. height[y] = Larger(p, q) + 1 /\ p - q \in {-1, 0, 1} /\ p \in Nat /\ q \in Nat
      /\ HeightOf(y) = height[y]
    BY <1>3, <1>4, SteadySides
<1>6. p < q
    BY <1>1, <1>2, <1>4, Leant
<1>7. p = o /\ q = o + 1
    BY <1>2, <1>5, <1>6 DEF Larger
<1>8. m # Null
    BY <1>2, <1>4, <1>7 DEF HeightOf
<1>9. m \in Kept /\ m # at /\ Nd[y][1 - j] = m /\ y \in Nodes
    BY <1>1, <1>2, <1>3, <1>8, BalancedChild
<1>10. m \notin Unsteady
  <2>1. path # <<>> => m # Head(path)
    <3>1. SUFFICES ASSUME path # <<>>, m = path[1] PROVE FALSE
        BY Around
    <3>2. PICK u \in Sides : u = Side(path[1])
        BY Sided
    <3>3. op \in {"insert", "erase"} /\ at # Null /\ at \in Kept /\ Nd[path[1]][u] = at
        BY <1>1, <3>1, <3>2, BalancedNode, Around
    <3>4. Nd[m][u] = at /\ Nd[at][j] = y /\ Nd[y][1 - j] = m
        BY <1>1, <1>2, <1>9, <3>1, <3>3, BalancedChild
    <3>5. at # Null /\ y # Null /\ y \in Kept /\ 1 - j \in Sides
        BY <1>2, <1>3, <3>3
    <3>6. Toward(key[m], key[at]) = j /\ key[m] # key[at]
        BY <1>8, <3>3, <3>4, <3>5, Shapes, GrandchildSide
    <3>7. Toward(key[y], key[m]) = u
        BY <1>9, <3>2, <3>3, <3>4, <3>5, Shapes, GrandchildSide
    <3>8. Toward(key[at], key[m]) = u
        BY <1>9, <3>2, <3>3, <3>4, <3>5, Shapes, ChildSide
    <3>9. Toward(key[m], key[y]) = 1 - j /\ key[m] # key[y]
        BY <1>8, <3>4, <3>5, Shapes, ChildSide
    <3>10. key[m] \in Int /\ key[at] \in Int /\ key[y] \in Int
        BY <1>3, <1>9, <3>3, Keyed
    <3> QED BY <3>6, <3>7, <3>8, <3>9, <3>10, TowardBack DEF Sides
  <2>2. \A i \in Sides : place # Rotation(i)
      BY Rotations
  <2> QED BY <1>9, <2>1, <2>2 DEF Unsteady
<1>11. PICK a, b : a = HeightOf(child[m][0]) /\ b = HeightOf(child[m][1])
    OBVIOUS
<1>12. height[m] = Larger(a, b) + 1 /\ a - b \in {-1, 0, 1} /\ a \in Nat /\ b \in Nat
       /\ HeightOf(m) = height[m]
    BY <1>9, <1>10, <1>11, SteadyNode
<1>13. a \in {o, o - 1} /\ b \in {o, o - 1}
  <2>1. HeightOf(m) = o + 1
      BY <1>4, <1>7
  <2>2. Larger(a, b) \in Nat
      BY <1>12, LargerNat
  <2>3. Larger(a, b) = o
      BY <1>2, <1>12, <2>1, <2>2
  <2> QED BY <1>2, <1>12, <2>3 DEF Larger
<1>14. \A s \in Sides : HeightOf(child[m][s]) \in Nat /\ HeightOf(child[m][s]) \in {o, o - 1}
    BY <1>11, <1>12, <1>13 DEF Sides
<1>15. m \in Nodes
    BY <1>9, Keyed
<1> QED BY <1>1, <1>2, <1>4, <1>7, <1>8, <1>9, <1>14, <1>15

LEMMA AboveNat == \A a, b \in Nat : Larger(a, b) + 1 \in Nat
BY DEF Larger

LEMMA ReheightNat == ASSUME IInv, NEW d \in [Sides -> Links] PROVE Reheight(d) \in Nat
<1>1. HeightOf(d[0]) \in Nat /\ HeightOf(d[1]) \in Nat
    BY Typed, HeightNat
<1>2. Larger(HeightOf(d[0]), HeightOf(d[1])) \in Nat
    BY <1>1, LargerNat
<1> QED BY <1>2 DEF Reheight

\* What is left to do where only the links and the heights change.
LEMMA RelinkType ==
    ASSUME TypeOK, child' \in [Nodes -> [Sides -> Links]], height' \in [Nodes -> Nat],
           at' \in Links, path' \in Seq(Nodes),
           place' \in {"call", "balance", "right_rotate", "left_rotate", "return"},
           UNCHANGED <<key, value, root, size, live, result, callVars, goneVars>>
    PROVE  TypeOK'
BY DEF TypeOK, callVars, goneVars

\* The replaced node and the one that takes its place.
LEMMA Replaced ==
    ASSUME IInv, gone # Null, place # "call"
    PROVE  /\ op = "erase" /\ gone \in Nodes /\ gone \notin live /\ key[gone] = wanted
           /\ gone \in Kept /\ low = child[gone][0] /\ Side(gone) = 1
           /\ next \in live /\ next # Null /\ next \in Nodes /\ wanted < key[next]
           /\ next # gone /\ next \notin Kept /\ wanted \in Int /\ path # <<>>
<1>1. /\ op = "erase" /\ gone \in Nodes /\ gone \notin live /\ key[gone] = wanted
      /\ low = child[gone][0] /\ next # Null /\ next \in live /\ wanted < key[next]
    BY DEF IInv, Places, Replacing
<1>2. wanted \in Int
    BY <1>1, Wanted
<1>3. next \in Nodes /\ gone \in Kept /\ next # gone
    BY <1>1, Typed DEF Kept
<1>4. next \notin Kept
    BY <1>3 DEF Kept
<1>5. Side(gone) = 1
    BY <1>1, <1>2 DEF Side
<1>6. path # <<>>
  <2>1. PICK n \in 1..Len(path) : path[n] = gone
      BY DEF IInv, Replacing
  <2> QED BY <2>1, Typed, PathFacts
<1> QED BY <1>1, <1>2, <1>3, <1>4, <1>5, <1>6

LEMMA AscendType == ASSUME IInv, Ascend PROVE TypeOK'
<1>1. PICK x : x = Head(path)
    OBVIOUS
<1>2. PICK s : s = IF gone # Null THEN 0 ELSE Side(x)
    OBVIOUS
<1>3. s \in Sides /\ x \in Nodes /\ Tail(path) \in Seq(Nodes)
    BY <1>1, <1>2, Sided, Typed, PathFacts DEF Ascend, Sides
<1>4. PICK d : d = [child[x] EXCEPT ![s] = at]
    OBVIOUS
<1>5. d \in [Sides -> Links]
    BY <1>3, <1>4, Typed
<1>6. BalanceWith(x, d)
    BY <1>1, <1>2, <1>4 DEF Ascend
<1>7. Reheight(d) \in Nat
    BY <1>5, ReheightNat
<1>8. child' \in [Nodes -> [Sides -> Links]] /\ height' \in [Nodes -> Nat]
    BY <1>3, <1>5, <1>6, <1>7, Typed DEF BalanceWith
<1>9. at' \in Links /\ path' \in Seq(Nodes) /\ place' = "balance"
    BY <1>3, <1>6 DEF BalanceWith, Links
<1>10. UNCHANGED <<key, value, root, size, live, result, callVars, goneVars>>
    BY DEF Ascend
<1>11. TypeOK
    BY DEF IInv
<1> QED BY <1>8, <1>9, <1>10, <1>11, RelinkType

LEMMA ReplaceType == ASSUME IInv, Replace PROVE TypeOK'
<1>1. gone # Null /\ place # "call" /\ TypeOK
    BY Typed, PathFacts DEF Replace, IInv
<1>2. /\ gone \in Nodes /\ next \in Nodes /\ gone \notin live /\ gone # next /\ low = child[gone][0]
    BY <1>1, Replaced
<1>3. Tail(path) \in Seq(Nodes) /\ low \in Links
    BY <1>1, <1>2, Typed, PathFacts DEF Replace
<1>4. PICK d : d = [child[next] EXCEPT ![1] = at, ![0] = low]
    OBVIOUS
<1>5. d \in [Sides -> Links]
    BY <1>2, <1>3, <1>4, Typed
<1>6. Reheight(d) \in Nat
    BY <1>5, ReheightNat
<1>7. /\ child' = [child EXCEPT ![next] = d, ![gone] = [s \in Sides |-> Null]]
      /\ height' = [height EXCEPT ![next] = Reheight(d), ![gone] = 1]
    BY <1>4 DEF Replace
<1>8. child' \in [Nodes -> [Sides -> Links]] /\ height' \in [Nodes -> Nat]
    BY <1>2, <1>5, <1>6, <1>7, Typed DEF Links
<1>9. /\ key' \in [Nodes -> Keys \cup {Nothing}] /\ value' \in [Nodes -> Values \cup {Nothing}]
    BY <1>2, Typed DEF Replace
<1>10. \A x \in live : key'[x] = key[x] /\ value'[x] = value[x]
    BY <1>2, Typed DEF Replace
<1>11. /\ at' \in Links /\ path' \in Seq(Nodes) /\ place' = "balance"
       /\ {gone', low', next'} \subseteq Links
    BY <1>2, <1>3 DEF Replace, Links
<1> QED BY <1>1, <1>8, <1>9, <1>10, <1>11 DEF Replace, TypeOK, callVars

\* What the last rotation does.
LEMMA TurnLinks ==
    ASSUME IInv, NEW j \in Sides, Turn(1 - j, j), NEW y, y = child[at][j],
           NEW h, h = Larger(HeightOf(child[at][1 - j]), HeightOf(child[y][1 - j])) + 1,
           NEW g, g = Larger(h, HeightOf(child[y][j])) + 1
    PROVE  /\ TypeOK'
           /\ y \in Nodes /\ y # at /\ at' = y
           /\ \A x \in Nodes, s \in Sides :
                 child'[x][s] = IF x = at /\ s = j THEN child[y][1 - j]
                                ELSE IF x = y /\ s = 1 - j THEN at ELSE child[x][s]
           /\ \A x \in Nodes : height'[x] = IF x = at THEN h ELSE IF x = y THEN g ELSE height[x]
<1>1. PICK o : o = HeightOf(child[at][1 - j])
    OBVIOUS
<1>2. place = Rotation(j) \/ (place = "balance" /\ Leans(j) /\ ~LeansBack(j))
    BY DEF Turn
<1>3. Balancing /\ y # Null
    BY <1>1, <1>2, Ready
<1>4. at \in Nodes /\ y \in Nodes /\ y # at /\ 1 - j \in Sides
    BY <1>1, <1>3, BalancedNode, BalancedChild, SideFacts
<1>5. child[y][1 - j] \in Links
    BY <1>4, Typed
<1>6. h \in Nat /\ g \in Nat
  <2>1. /\ HeightOf(child[at][1 - j]) \in Nat /\ HeightOf(child[y][1 - j]) \in Nat
        /\ HeightOf(child[y][j]) \in Nat
    <3>1. child[at][1 - j] \in Links /\ child[y][1 - j] \in Links /\ child[y][j] \in Links
        BY <1>4, Typed
    <3> QED BY <3>1, HeightNat
  <2>2. h \in Nat
      BY <2>1, AboveNat
  <2> QED BY <2>1, <2>2, AboveNat
<1>7. height' = [height EXCEPT ![at] = h, ![y] = g]
    BY <1>1 DEF Turn, Reheighted
<1>8. child' = [child EXCEPT ![at][j] = child[y][1 - j], ![y][1 - j] = at]
    BY <1>1 DEF Turn, Turned
<1>9. child' \in [Nodes -> [Sides -> Links]] /\ height' \in [Nodes -> Nat]
    BY <1>4, <1>5, <1>6, <1>7, <1>8, Typed
<1>10. /\ at' = y /\ at' \in Links /\ path' \in Seq(Nodes) /\ place' = "return"
    BY <1>4, Typed DEF Turn, Return
<1>11. UNCHANGED <<key, value, root, size, live, result, callVars, goneVars>>
    BY DEF Turn
<1>12. TypeOK
    BY DEF IInv
<1>13. TypeOK'
    BY <1>9, <1>10, <1>11, <1>12, RelinkType
<1>14. \A x \in Nodes, s \in Sides :
          child'[x][s] = IF x = at /\ s = j THEN child[y][1 - j]
                         ELSE IF x = y /\ s = 1 - j THEN at ELSE child[x][s]
    BY <1>4, <1>8, Typed
<1>15. \A x \in Nodes : height'[x] = IF x = at THEN h ELSE IF x = y THEN g ELSE height[x]
    BY <1>4, <1>7, Typed
<1> QED BY <1>4, <1>10, <1>13, <1>14, <1>15

\* The two nodes below, and the heights that they get.
Twice(j, y, m, h, g) ==
    /\ y = child[at][j] /\ m = child[y][1 - j]
    /\ h = Larger(HeightOf(child[y][j]), HeightOf(child[m][j])) + 1
    /\ g = Larger(h, HeightOf(child[m][1 - j])) + 1

\* What the first of two rotations does.
LEMMA TurnChildLinks ==
    ASSUME IInv, NEW j \in Sides, TurnChild(1 - j, j),
           NEW y, NEW m, NEW h, NEW g, Twice(j, y, m, h, g)
    PROVE  /\ TypeOK'
           /\ y \in Nodes /\ m \in Nodes /\ m # y /\ m # at /\ y # at /\ m \in Kept
           /\ \A x \in Nodes, s \in Sides :
                 child'[x][s] = IF x = y /\ s = 1 - j THEN child[m][j]
                                ELSE IF x = m /\ s = j THEN y
                                ELSE IF x = at /\ s = j THEN m ELSE child[x][s]
           /\ \A x \in Nodes : height'[x] = IF x = y THEN h ELSE IF x = m THEN g ELSE height[x]
<1>0. y = child[at][j] /\ m = child[y][1 - j]
    BY DEF Twice
<1>1. place = "balance" /\ Leans(j) /\ LeansBack(j) /\ place' = Rotation(j)
    BY DEF TurnChild
<1>2. PICK o : o = HeightOf(child[at][1 - j])
    OBVIOUS
<1>3. Balancing /\ y # Null /\ m # Null /\ m \in Nodes /\ m \in Kept
    BY <1>0, <1>1, <1>2, ReadyChild
<1>4. /\ at \in Nodes /\ y \in Nodes /\ y # at /\ 1 - j \in Sides
      /\ m # at /\ m # y
    BY <1>0, <1>3, BalancedNode, BalancedChild, SideFacts
<1>5. child' = [child EXCEPT ![y][1 - j] = child[m][j], ![m][j] = y, ![at][j] = m]
    BY <1>0 DEF TurnChild, Turned
<1>6. height' = [height EXCEPT ![y] = h, ![m] = g]
    BY DEF TurnChild, Reheighted, Twice
<1>7. h \in Nat /\ g \in Nat
  <2>1. /\ HeightOf(child[y][j]) \in Nat /\ HeightOf(child[m][1 - j]) \in Nat
        /\ HeightOf(child[m][j]) \in Nat
    <3>1. child[y][j] \in Links /\ child[m][1 - j] \in Links /\ child[m][j] \in Links
        BY <1>3, <1>4, Typed
    <3> QED BY <3>1, HeightNat
  <2>2. h \in Nat
      BY <2>1, AboveNat DEF Twice
  <2> QED BY <2>1, <2>2, AboveNat DEF Twice
<1>8. child[m][j] \in Links /\ y \in Links /\ m \in Links
    BY <1>3, <1>4, Typed DEF Links
<1>9. child' \in [Nodes -> [Sides -> Links]] /\ height' \in [Nodes -> Nat]
  <2>1. height' \in [Nodes -> Nat]
      BY <1>3, <1>4, <1>6, <1>7, Typed
  <2>2. PICK c : c = [child EXCEPT ![y][1 - j] = child[m][j]]
      OBVIOUS
  <2>3. c \in [Nodes -> [Sides -> Links]]
      BY <1>4, <1>8, <2>2, Typed
  <2>4. PICK d : d = [c EXCEPT ![m][j] = y]
      OBVIOUS
  <2>5. d \in [Nodes -> [Sides -> Links]]
      BY <1>3, <1>8, <2>3, <2>4
  <2>6. child' = [d EXCEPT ![at][j] = m]
      BY <1>0, <2>2, <2>4 DEF TurnChild, Turned
  <2>7. child' \in [Nodes -> [Sides -> Links]]
      BY <1>4, <1>8, <2>5, <2>6
  <2> QED BY <2>1, <2>7
<1>10. /\ at' = at /\ path' = path
      /\ UNCHANGED <<key, value, root, size, live, result, callVars, goneVars>>
    BY DEF TurnChild
<1>11. place' \in {"call", "balance", "right_rotate", "left_rotate", "return"}
    BY <1>1, Rotations
<1>12. TypeOK /\ at \in Links /\ path \in Seq(Nodes)
    BY Typed DEF IInv
<1>13. TypeOK'
    BY <1>9, <1>10, <1>11, <1>12, RelinkType
<1>14. \A x \in Nodes, s \in Sides :
          child'[x][s] = IF x = y /\ s = 1 - j THEN child[m][j]
                         ELSE IF x = m /\ s = j THEN y
                         ELSE IF x = at /\ s = j THEN m ELSE child[x][s]
    BY <1>3, <1>4, <1>5, Typed
<1>15. \A x \in Nodes : height'[x] = IF x = y THEN h ELSE IF x = m THEN g ELSE height[x]
    BY <1>3, <1>4, <1>6, Typed
<1> QED BY <1>3, <1>4, <1>13, <1>14, <1>15

LEMMA TypeStep == ASSUME IInv, [Next]_vars PROVE TypeOK'
<1>1. ASSUME NEW a \in Keys, Find(a) \/ Erase(a) PROVE TypeOK'
    BY <1>1, BeginType DEF Find, Erase
<1>2. ASSUME NEW a \in Keys, NEW b \in Values, Insert(a, b) PROVE TypeOK'
    BY <1>2, BeginType DEF Insert
<1>3. CASE Settle
  <2>1. TypeOK
      BY DEF IInv
  <2> QED BY <1>3, <2>1 DEF Settle, TypeOK, nodeVars, callVars, goneVars
<1>4. CASE Returned
  <2>1. TypeOK /\ at \in Links /\ result \in Values \cup {Nothing}
      BY Typed DEF IInv, TypeOK
  <2> QED BY <1>4, <2>1, FinishType DEF Returned, nodeVars, goneVars
<1>5. CASE UNCHANGED vars
  <2>1. TypeOK
      BY DEF IInv
  <2> QED BY <1>5, <2>1 DEF vars, nodeVars, callVars, goneVars, TypeOK
<1>6. ASSUME NEW j \in Sides, Turn(1 - j, j) PROVE TypeOK'
  <2>1. PICK y, h, g : /\ y = child[at][j]
                       /\ h = Larger(HeightOf(child[at][1 - j]), HeightOf(child[y][1 - j])) + 1
                       /\ g = Larger(h, HeightOf(child[y][j])) + 1
      OBVIOUS
  <2> QED BY <1>6, <2>1, TurnLinks
<1>7. ASSUME NEW j \in Sides, TurnChild(1 - j, j) PROVE TypeOK'
  <2>1. PICK y, m, h, g : Twice(j, y, m, h, g)
      BY DEF Twice
  <2> QED BY <1>7, <2>1, TurnChildLinks
<1> QED BY <1>1, <1>2, <1>3, <1>4, <1>5, SearchingType, ChangingType, AscendType, ReplaceType,
           <1>6, <1>7 DEF Next, Returning

----------------------------------------------------------------------------
(* The steps that leave the tree as it is                                  *)

LEMMA LinksNext ==
    TypeOK' => \A x \in Nodes, s \in Sides :
                  Nd'[x][s] = IF path' # <<>> /\ x = Head(path') /\ s = Side(x)' THEN at'
                              ELSE child'[x][s]
<1>1. (TypeOK => \A x \in Nodes, s \in Sides :
                    Nd[x][s] = IF path # <<>> /\ x = Head(path) /\ s = Side(x) THEN at
                               ELSE child[x][s])'
    BY LinkFacts, PTL
<1> QED BY <1>1

LEMMA QuietTree ==
    ASSUME IInv, Kept' = Kept, Root' = Root, \A x \in Kept : key'[x] = key[x],
           \A x \in Kept, s \in Sides : Nd'[x][s] = Nd[x][s]
    PROVE  TreeInv'
<1>1. SearchTree(Kept, Root, Nd', key')
    BY Shapes, SameTree
<1> QED BY <1>1 DEF TreeInv

LEMMA CallStep ==
    ASSUME IInv, TypeOK', place = "call", place' = "call", UNCHANGED <<child, height, key>>,
           Kept' = Kept, root' = root, Called', path' # <<>> => op' \in {"insert", "erase"}
    PROVE  /\ TreeInv' /\ Heights' /\ Root' = root
           /\ \A x \in Nodes, s \in Sides : Nd'[x][s] = child[x][s] /\ Nd'[x][s] = Nd[x][s]
<1>1. Root' = root /\ Root = root
    BY CallLinks DEF Root, Called
<1>2. \A x \in Nodes, s \in Sides : Nd'[x][s] = child[x][s]
    BY LinksNext DEF Called
<1>3. \A x \in Nodes, s \in Sides : Nd'[x][s] = Nd[x][s]
    BY <1>2, CallLinks
<1>4. TreeInv'
    BY <1>1, <1>3, Keyed, QuietTree
<1>5. \A i \in Sides : place # Rotation(i) /\ place' # Rotation(i)
    BY Rotations
<1>6. Unsteady = {} /\ Unsteady' = {}
    BY <1>5 DEF Unsteady, Rotation
<1>7. ASSUME NEW x \in Kept PROVE Steady(x)'
  <2>1. Steady(x)
      BY <1>6 DEF IInv, Heights, Balanced
  <2> QED BY <2>1 DEF Steady, Reheight, Bias, HeightOf
<1>8. Balanced'
    BY <1>6, <1>7 DEF Balanced
<1>9. ReturnHeights' /\ BalanceHeights'
    BY DEF ReturnHeights, BalanceHeights
<1>10. TurnHeights'
    BY <1>5 DEF TurnHeights, Rotation
<1> QED BY <1>1, <1>2, <1>3, <1>4, <1>8, <1>9, <1>10 DEF Heights

LEMMA KeepKept ==
    ASSUME live' = live, gone' = gone, next' = next PROVE Kept' = Kept
BY DEF Kept

LEMMA BeginStep ==
    ASSUME IInv, NEW a \in Keys, NEW name \in {"find", "insert", "erase"},
           NEW b \in Values \cup {Nothing}, Begin(name, a, b),
           name = "insert" => /\ b \in Values
                              /\ (\E x \in live : key[x] = a) \/ (size < N /\ size \notin live)
    PROVE  IInv'
<1>1. /\ op = "none" /\ op' = name /\ wanted' = a /\ given' = b /\ at' = root
      /\ place = "call" /\ path = <<>> /\ gone = Null /\ next = Null
      /\ UNCHANGED <<child, height, key, root, size, live, place, path, gone, low, next>>
    BY DEF Begin, IInv, Places, Replacing, nodeVars, goneVars
<1>2. TypeOK'
    BY BeginType
<1>3. Kept' = Kept
    BY <1>1, KeepKept
<1>4. Called'
    BY <1>1 DEF Called
<1>5. /\ TreeInv' /\ Heights' /\ Root' = root
      /\ \A x \in Nodes, s \in Sides : Nd'[x][s] = child[x][s] /\ Nd'[x][s] = Nd[x][s]
    BY <1>1, <1>2, <1>3, <1>4, CallStep
<1>6. Frames' /\ Replacing'
    BY <1>1 DEF Frames, Replacing
<1>7. at' \in Kept' \cup {Null}
  <2>1. Root = root
      BY <1>1, CallLinks
  <2> QED BY <1>1, <1>3, <2>1, Shapes DEF Shape
<1>8. Places'
    BY <1>1, <1>7 DEF Places
<1>9. Sought'
  <2>1. ASSUME op' = "find", NEW t \in Kept', key'[t] = wanted', NEW S \in SUBSET Kept',
               at' = Null \/ at' \in S, Follows(Nd', key', wanted', S)
        PROVE  t \in S
    <3>1. Searchable(Kept', Root', Nd', key')
        BY <1>5 DEF TreeInv, SearchTree
    <3>2. at' = Root'
        BY <1>1, <1>5
    <3> QED BY <2>1, <3>1, <3>2 DEF Searchable
  <2>2. op' = "insert" => (\E x \in live' : key'[x] = wanted') \/ (size' < N /\ size' \notin live')
      BY <1>1
  <2>3. path' = <<>>
      BY <1>1
  <2>4. \A i \in 1..Len(path') : key'[path'[i]] # wanted'
      BY <2>3
  <2> QED BY <2>1, <2>2, <2>4 DEF Sought
<1> QED BY <1>2, <1>4, <1>5, <1>6, <1>8, <1>9 DEF IInv

LEMMA SeekStep == ASSUME IInv, Seek PROVE IInv'
<1>1. /\ op = "find" /\ place = "call" /\ gone = Null /\ at # Null /\ key[at] # wanted
      /\ path = <<>> /\ next = Null /\ at' = child[at][Side(at)]
      /\ UNCHANGED <<child, height, key, root, size, live, op, wanted, given, place, path,
                     gone, low, next>>
    BY DEF Seek, Calling, IInv, Places, Replacing, nodeVars, callVars, goneVars
<1>2. TypeOK'
    BY SearchingType DEF Searching
<1>3. Kept' = Kept
    BY <1>1, KeepKept
<1>4. Called'
    BY <1>1 DEF Called
<1>5. /\ TreeInv' /\ Heights' /\ Root' = root
      /\ \A x \in Nodes, s \in Sides : Nd'[x][s] = child[x][s] /\ Nd'[x][s] = Nd[x][s]
    BY <1>1, <1>2, <1>3, <1>4, CallStep
<1>6. Frames' /\ Replacing'
    BY <1>1 DEF Frames, Replacing
<1>7. /\ at \in Kept /\ at \in Nodes /\ wanted \in Keys
      /\ Side(at) = Toward(wanted, key[at]) /\ Side(at) \in Sides
    BY <1>1, Keyed, Sided DEF IInv, Places
<1>8. at' = Nd[at][Side(at)] /\ at' = Nd'[at][Toward(wanted, key[at])]
    BY <1>1, <1>5, <1>7
<1>9. at' \in Kept \cup {Null}
    BY <1>7, <1>8, Shapes DEF Shape
<1>10. Places'
    BY <1>1, <1>3, <1>7, <1>9 DEF Places
<1>11. Sought'
  <2>1. ASSUME NEW t \in Kept, key[t] = wanted, NEW S \in SUBSET Kept,
               at' = Null \/ at' \in S, Follows(Nd', key, wanted, S)
        PROVE  t \in S
    <3>1. PICK Q : Q = S \cup {at}
        OBVIOUS
    <3>2. Q \in SUBSET Kept /\ at \in Q
        BY <1>7, <3>1
    <3>3. Follows(Nd, key, wanted, Q)
      <4> SUFFICES ASSUME NEW x \in Q, key[x] # wanted
                   PROVE  Nd[x][Toward(wanted, key[x])] \in Q \cup {Null}
          BY DEF Follows
      <4>1. CASE x = at
          BY <1>7, <1>8, <2>1, <3>1, <4>1
      <4>2. CASE x # at
        <5>1. x \in S /\ x \in Nodes
            BY <3>1, <4>2, Keyed
        <5>2. Nd'[x][Toward(wanted, key[x])] \in S \cup {Null}
            BY <2>1, <5>1 DEF Follows
        <5>3. Toward(wanted, key[x]) \in Sides
            BY TowardSide
        <5> QED BY <1>5, <3>1, <5>1, <5>2, <5>3
      <4> QED BY <4>1, <4>2
    <3>4. t \in Q
        BY <1>1, <2>1, <3>2, <3>3 DEF IInv, Sought
    <3> QED BY <1>1, <2>1, <3>1, <3>4
  <2>2. \A i \in 1..Len(path') : key'[path'[i]] # wanted'
      BY <1>1
  <2> QED BY <1>1, <1>3, <2>1, <2>2 DEF Sought
<1> QED BY <1>2, <1>4, <1>5, <1>6, <1>10, <1>11 DEF IInv

LEMMA FinishStep ==
    ASSUME IInv, TypeOK', Finish, UNCHANGED <<child, height, key, size, live, path, gone, low, next>>,
           path = <<>>, gone = Null, Root = root', place # "call" => op \in {"insert", "erase"},
           \A i \in Sides : place # Rotation(i), place # "balance"
    PROVE  IInv'
<1>1. op' = "none" /\ wanted' = Nothing /\ at' = Null /\ place' = "call" /\ path' = <<>> /\ next = Null
    BY DEF Finish, IInv, Replacing
<1>2. Kept' = Kept
    BY KeepKept
<1>3. Root' = Root
    BY <1>1 DEF Root
<1>4. \A x \in Nodes, s \in Sides : Nd'[x][s] = Nd[x][s]
    BY <1>1, LinksNext, LinkFacts DEF IInv
<1>5. TreeInv'
    BY <1>2, <1>3, <1>4, Keyed, QuietTree
<1>6. \A i \in Sides : place' # Rotation(i)
    BY <1>1, Rotations
<1>7. Unsteady = {} /\ Unsteady' = {}
  <2>1. Unsteady' = {}
      BY <1>1, <1>6 DEF Unsteady, Rotation
  <2>2. place \in {"call", "return"}
    <3>1. place \in {"call", "balance", "return"} \cup {Rotation(0), Rotation(1)}
        BY DEF IInv, TypeOK, Rotation
    <3> QED BY <3>1 DEF Sides
  <2>3. Unsteady = {}
      BY <2>2 DEF Unsteady
  <2> QED BY <2>1, <2>3
<1>8. ASSUME NEW x \in Kept PROVE Steady(x)'
  <2>1. Steady(x)
      BY <1>7 DEF IInv, Heights, Balanced
  <2> QED BY <2>1 DEF Steady, Reheight, Bias, HeightOf
<1>9. Balanced'
    BY <1>2, <1>7, <1>8 DEF Balanced
<1>10. ReturnHeights' /\ BalanceHeights'
    BY <1>1 DEF ReturnHeights, BalanceHeights
<1>11. TurnHeights'
    BY <1>6 DEF TurnHeights, Rotation
<1>12. Frames' /\ Places' /\ Called' /\ Replacing' /\ Sought'
    BY <1>1 DEF Frames, Places, Called, Replacing, Sought
<1> QED BY <1>5, <1>9, <1>10, <1>11, <1>12 DEF IInv, Heights

LEMMA FoundStep == ASSUME IInv, Found \/ NotFound PROVE IInv'
<1>1. /\ op = "find" /\ place = "call" /\ path = <<>> /\ gone = Null /\ Finish
      /\ UNCHANGED <<child, height, key, root, size, live, path, gone, low, next>>
    BY DEF Found, NotFound, Calling, IInv, Places, nodeVars, goneVars
<1>2. TypeOK'
    BY SearchingType DEF Searching
<1>3. Root = root'
    BY <1>1, CallLinks
<1>4. \A i \in Sides : place # Rotation(i)
    BY <1>1, Rotations
<1> QED BY <1>1, <1>2, <1>3, <1>4, FinishStep

LEMMA ReturnedStep == ASSUME IInv, Returned PROVE IInv'
<1>1. /\ place = "return" /\ path = <<>> /\ root' = at /\ Finish
      /\ UNCHANGED <<child, height, key, size, live, path, gone, low, next>>
    BY DEF Returned, nodeVars, goneVars
<1>2. op \in {"insert", "erase"}
    BY <1>1 DEF IInv, TypeOK, Places
<1>3. gone = Null
    BY <1>1, Replaced
<1>4. Root = root'
    BY <1>1, <1>2 DEF Root
<1>5. \A i \in Sides : place # Rotation(i)
    BY <1>1, Rotations
<1>6. TypeOK'
    BY TypeStep DEF Next, Returning
<1> QED BY <1>1, <1>2, <1>3, <1>4, <1>5, <1>6, FinishStep

\* One call more.
LEMMA DeeperStep ==
    ASSUME IInv, TypeOK', place = "call", op \in {"insert", "erase"}, at # Null,
           path' = <<at>> \o path, at' = child[at][Side(at)], Kept' = Kept,
           UNCHANGED <<child, height, key, root, op, wanted, given, place>>,
           gone' # Null => op = "erase"
    PROVE  /\ TreeInv' /\ Heights' /\ Called' /\ Frames' /\ Places'
           /\ at \in Kept /\ at \in Nodes /\ Len(path') = Len(path) + 1 /\ path'[1] = at
           /\ Len(path) \in Nat
           /\ \A i \in 1..Len(path) : path'[i + 1] = path[i]
           /\ \A i \in 1..Len(path') : i = 1 \/ (i - 1 \in 1..Len(path) /\ path'[i] = path[i - 1])
<1>1. at \in Kept /\ at \in Nodes /\ path \in Seq(Nodes)
    BY Keyed, Typed DEF IInv, Places
<1>2. /\ Len(path) \in Nat /\ Len(path') = Len(path) + 1 /\ path'[1] = at /\ path' # <<>>
      /\ Head(path') = at /\ \A i \in 1..Len(path) : path'[i + 1] = path[i]
    BY <1>1, PathFacts
<1>3. Called'
    BY <1>2 DEF Called, Side
<1>4. /\ TreeInv' /\ Heights' /\ Root' = root
      /\ \A x \in Nodes, s \in Sides : Nd'[x][s] = child[x][s] /\ Nd'[x][s] = Nd[x][s]
    BY <1>3, CallStep
<1>5. Frames'
  <2>1. PICK q, m : q = <<at>> \o path /\ m = Len(path) + 1
      OBVIOUS
  <2>2. Way(Kept, Root, Nd, key, wanted, q, m)
      BY <2>1, AtWay
  <2>3. \A n \in 1..m : q[n] \in Kept /\ q[n] \in Nodes
      BY <2>2, Keyed DEF Way
  <2>4. m \in Nat /\ \A n \in 2..m : n \in 1..m
      BY <1>2, <2>1
  <2>5. Way(Kept, Root, Nd', key, wanted, q, m)
      BY <1>4, <2>2, <2>3, <2>4, SameWay
  <2>6. Root = root
      BY CallLinks
  <2> QED BY <1>2, <2>1, <2>5, <2>6 DEF Frames
<1>6. at' \in Kept \cup {Null}
  <2>1. Side(at) \in Sides
      BY Sided
  <2>2. at' = Nd[at][Side(at)]
      BY <1>1, <2>1, CallLinks
  <2> QED BY <1>1, <2>1, <2>2, Shapes DEF Shape
<1>7. wanted \in Keys /\ (op = "insert" => given \in Values)
    BY DEF IInv, Places
<1>8. Places'
    BY <1>6, <1>7 DEF Places
<1>9. ASSUME NEW i \in 1..Len(path'), i # 1
      PROVE  i - 1 \in 1..Len(path) /\ path'[i] = path[i - 1]
  <2>1. i - 1 \in 1..Len(path) /\ (i - 1) + 1 = i
      BY <1>2, <1>9
  <2> QED BY <1>2, <2>1
<1> QED BY <1>1, <1>2, <1>3, <1>4, <1>5, <1>8, <1>9

LEMMA DescendStep == ASSUME IInv, Descend PROVE IInv'
<1>1. /\ place = "call" /\ op \in {"insert", "erase"} /\ at # Null /\ gone = Null /\ next = Null
      /\ key[at] # wanted /\ path' = <<at>> \o path /\ at' = child[at][Side(at)]
      /\ UNCHANGED <<child, height, key, root, size, live, op, wanted, given, place, gone, low, next>>
    BY DEF Descend, Calling, IInv, Replacing, nodeVars, callVars, goneVars
<1>2. TypeOK'
    BY SearchingType DEF Searching
<1>3. Kept' = Kept
    BY <1>1, KeepKept
<1>4. /\ TreeInv' /\ Heights' /\ Called' /\ Frames' /\ Places'
      /\ path'[1] = at
      /\ \A i \in 1..Len(path') : i = 1 \/ (i - 1 \in 1..Len(path) /\ path'[i] = path[i - 1])
    BY <1>1, <1>2, <1>3, DeeperStep
<1>5. Replacing'
    BY <1>1 DEF Replacing
<1>6. \A i \in 1..Len(path) : key[path[i]] # wanted
    BY <1>1 DEF IInv, Sought
<1>7. \A i \in 1..Len(path') : key[path'[i]] # wanted
    BY <1>1, <1>4, <1>6
<1>8. op = "insert" => (\E x \in live : key[x] = wanted) \/ (size < N /\ size \notin live)
    BY <1>1 DEF IInv, Sought
<1>9. Sought'
    BY <1>1, <1>7, <1>8 DEF Sought
<1> QED BY <1>2, <1>4, <1>5, <1>9 DEF IInv

LEMMA EraseInnerStep == ASSUME IInv, EraseInner PROVE IInv'
<1>1. /\ place = "call" /\ op = "erase" /\ at # Null /\ gone = Null /\ next = Null
      /\ key[at] = wanted /\ child[at][1] # Null
      /\ path' = <<at>> \o path /\ at' = child[at][1]
      /\ gone' = at /\ low' = child[at][0] /\ live' = live \ {at} /\ next' = Null
      /\ UNCHANGED <<child, height, key, root, op, wanted, given, place>>
    BY DEF EraseInner, Destroy, Calling, IInv, Replacing, nodeVars, callVars
<1>2. TypeOK'
    BY ChangingType DEF Changing
<1>3. at \in live /\ at \in Nodes /\ Kept = live
    BY <1>1, Doomed DEF EraseInner
<1>4. Kept' = Kept
  <2>1. live \subseteq Nodes /\ Null \notin Nodes
      BY Typed
  <2> QED BY <1>1, <1>3, <2>1 DEF Kept
<1>5. Side(at) = 1
  <2>1. wanted \in Int
      BY <1>1, Wanted
  <2> QED BY <1>1, <2>1 DEF Side
<1>6. /\ TreeInv' /\ Heights' /\ Called' /\ Frames' /\ Places'
      /\ path'[1] = at /\ Len(path) \in Nat /\ Len(path') = Len(path) + 1
    BY <1>1, <1>2, <1>4, <1>5, DeeperStep
<1>7. 1 \in 1..Len(path') /\ path'[1] = gone' /\ \A i \in 1..1 - 1 : wanted < key[path'[i]]
    BY <1>1, <1>6
<1>8. Replacing'
  <2>1. \E n \in 1..Len(path') : path'[n] = gone' /\ \A i \in 1..n - 1 : wanted < key[path'[i]]
      BY <1>7
  <2>2. gone' \in Nodes \ live'
      BY <1>1, <1>3
  <2> QED BY <1>1, <2>1, <2>2 DEF Replacing
<1>9. Sought'
    BY <1>1 DEF Sought
<1> QED BY <1>2, <1>6, <1>8, <1>9 DEF IInv

LEMMA GoLeftStep == ASSUME IInv, GoLeft PROVE IInv'
<1>1. /\ place = "call" /\ op = "erase" /\ at # Null /\ gone # Null /\ next = Null
      /\ child[at][0] # Null /\ path' = <<at>> \o path /\ at' = child[at][0]
      /\ UNCHANGED <<child, height, key, root, size, live, op, wanted, given, place, gone, low, next>>
    BY DEF GoLeft, IInv, Places, Replacing, nodeVars, callVars, goneVars
<1>2. TypeOK'
    BY SearchingType DEF Searching
<1>3. Kept' = Kept
    BY <1>1, KeepKept
<1>4. Side(at) = 0 /\ wanted < key[at]
    BY <1>1, Beyond
<1>5. /\ TreeInv' /\ Heights' /\ Called' /\ Frames' /\ Places'
      /\ path'[1] = at /\ Len(path) \in Nat /\ Len(path') = Len(path) + 1
      /\ \A i \in 1..Len(path) : path'[i + 1] = path[i]
      /\ \A i \in 1..Len(path') : i = 1 \/ (i - 1 \in 1..Len(path) /\ path'[i] = path[i - 1])
    BY <1>1, <1>2, <1>3, <1>4, DeeperStep
<1>6. PICK n \in 1..Len(path) : path[n] = gone /\ \A i \in 1..n - 1 : wanted < key[path[i]]
    BY <1>1 DEF IInv, Replacing
<1>7. n + 1 \in 1..Len(path') /\ path'[n + 1] = gone
    BY <1>5, <1>6
<1>8. ASSUME NEW i \in 1..(n + 1) - 1 PROVE wanted < key[path'[i]]
  <2>1. CASE i = 1
      BY <1>4, <1>5, <2>1
  <2>2. CASE i # 1
    <3>1. i - 1 \in 1..n - 1 /\ i \in 1..Len(path')
        BY <1>5, <1>6, <2>2
    <3> QED BY <1>5, <1>6, <2>2, <3>1
  <2> QED BY <2>1, <2>2
<1>9. Replacing'
  <2>1. \E k \in 1..Len(path') : path'[k] = gone' /\ \A i \in 1..k - 1 : wanted < key[path'[i]]
      BY <1>1, <1>7, <1>8
  <2>2. gone \in Nodes \ live /\ key[gone] = wanted /\ low = child[gone][0]
      BY <1>1 DEF IInv, Replacing
  <2> QED BY <1>1, <2>1, <2>2 DEF Replacing
<1>10. Sought'
    BY <1>1 DEF Sought
<1> QED BY <1>2, <1>5, <1>9, <1>10 DEF IInv

\* The child of the innermost call around has the height that is expected.
LEMMA ExpectsCall ==
    ASSUME IInv, place = "call", op \in {"insert", "erase"} PROVE Expects(HeightOf(at))
<1> SUFFICES ASSUME path # <<>>
             PROVE  LET x == Head(path)
                        o == HeightOf(child[x][1 - Side(x)])
                    IN  HeightOf(at) - o \in {-1, 0, 1} /\ height[x] = Larger(HeightOf(at), o) + 1
    BY DEF Expects
<1>1. PICK x, j : x = Head(path) /\ j = Side(x)
    OBVIOUS
<1>2. x \in Kept /\ j \in Sides
    BY <1>1, Around, Sided
<1>3. x \notin Unsteady
    BY Rotations DEF Unsteady
<1>4. at = child[x][j]
    BY <1>1 DEF IInv, Called
<1> QED BY <1>1, <1>2, <1>3, <1>4, SteadySides

\* What is found or missing is returned as it is.
LEMMA AsItIsStep ==
    ASSUME IInv, TypeOK', place = "call", place' = "return", op \in {"insert", "erase"},
           at' = at, gone = Null,
           UNCHANGED <<child, height, key, root, live, op, wanted, given, path, gone, low, next>>
    PROVE  IInv'
<1>1. Kept' = Kept
    BY KeepKept
<1>2. Root' = Root
    BY DEF Root
<1>3. \A x \in Nodes, s \in Sides : Nd'[x][s] = Nd[x][s]
  <2>1. \A x : Side(x)' = Side(x)
      BY DEF Side
  <2> QED BY <2>1, LinksNext, LinkFacts DEF IInv
<1>4. TreeInv'
    BY <1>1, <1>2, <1>3, Keyed, QuietTree
<1>5. Frames'
  <2>1. CASE path = <<>>
      BY <2>1 DEF Frames
  <2>2. CASE path # <<>>
    <3>1. Way(Kept, root, Nd, key, wanted, path, Len(path))
        BY <2>2, Around
    <3>2. \A n \in 1..Len(path) : path[n] \in Kept /\ path[n] \in Nodes
        BY <3>1, Keyed DEF Way
    <3>3. \A n \in 2..Len(path) : n \in 1..Len(path)
        BY <2>2, Around
    <3>4. Way(Kept, root, Nd', key, wanted, path, Len(path))
        BY <1>3, <3>1, <3>2, <3>3, SameWay
    <3> QED BY <1>1, <3>4 DEF Frames
  <2> QED BY <2>1, <2>2
<1>6. Places' /\ Called' /\ Replacing' /\ Sought'
    BY <1>1 DEF IInv, Places, Called, Replacing, Sought
<1>7. \A i \in Sides : place # Rotation(i) /\ place' # Rotation(i)
    BY Rotations
<1>8. Unsteady = {}
    BY <1>7 DEF Unsteady
<1>9. ASSUME NEW x \in Kept PROVE Steady(x)'
  <2>1. Steady(x)
      BY <1>8 DEF IInv, Heights, Balanced
  <2> QED BY <2>1 DEF Steady, Reheight, Bias, HeightOf
<1>10. Balanced'
    BY <1>1, <1>9 DEF Balanced
<1>11. ReturnHeights'
  <2>1. PICK d : d = HeightOf(at)
      OBVIOUS
  <2>2. Expects(d)
      BY <2>1, ExpectsCall
  <2>3. Expects(d)'
      BY <2>2 DEF Expects, HeightOf, Side
  <2>4. d \in Nat
      BY <2>1, Typed, HeightNat
  <2>5. HeightOf(at') = d /\ HeightOf(at)' = d
      BY <2>1 DEF HeightOf
  <2>6. d - HeightOf(at)' \in {-1, 0, 1}
      BY <2>4, <2>5
  <2> QED BY <2>3, <2>4, <2>6 DEF ReturnHeights
<1>12. BalanceHeights' /\ TurnHeights'
    BY <1>7 DEF BalanceHeights, TurnHeights, Rotation
<1> QED BY <1>4, <1>5, <1>6, <1>10, <1>11, <1>12 DEF IInv, Heights

LEMMA OverwriteStep == ASSUME IInv, Overwrite PROVE IInv'
<1>1. TypeOK'
    BY ChangingType DEF Changing
<1> QED BY <1>1, AsItIsStep DEF Overwrite, Calling, Return, callVars, goneVars

LEMMA MissingStep == ASSUME IInv, Missing PROVE IInv'
<1>1. TypeOK'
    BY ChangingType DEF Changing
<1> QED BY <1>1, AsItIsStep DEF Missing, Calling, Return, nodeVars, callVars, goneVars

LEMMA SettleStep == ASSUME IInv, Settle PROVE IInv'
<1>1. /\ place = "balance" /\ place' = "return" /\ ~Leans(0) /\ ~Leans(1)
      /\ UNCHANGED <<child, height, key, root, size, live, op, wanted, given, at, path, gone, low, next>>
    BY DEF Settle, nodeVars, callVars, goneVars
<1>2. TypeOK'
    BY TypeStep DEF Next, Returning
<1>3. Kept' = Kept
    BY <1>1, KeepKept
<1>4. Root' = Root
    BY <1>1 DEF Root
<1>5. \A x \in Nodes, s \in Sides : Nd'[x][s] = Nd[x][s]
  <2>1. \A x : Side(x)' = Side(x)
      BY <1>1 DEF Side
  <2> QED BY <1>1, <1>2, <2>1, LinksNext, LinkFacts DEF IInv
<1>6. TreeInv'
    BY <1>3, <1>4, <1>5, <1>1, Keyed, QuietTree
<1>7. Frames'
  <2>1. CASE path = <<>>
      BY <1>1, <2>1 DEF Frames
  <2>2. CASE path # <<>>
    <3>1. Way(Kept, root, Nd, key, wanted, path, Len(path))
        BY <2>2, Around
    <3>2. \A n \in 1..Len(path) : path[n] \in Kept /\ path[n] \in Nodes
        BY <3>1, Keyed DEF Way
    <3>3. \A n \in 2..Len(path) : n \in 1..Len(path)
        BY <2>2, Around
    <3>4. Way(Kept, root, Nd', key, wanted, path, Len(path))
        BY <1>5, <3>1, <3>2, <3>3, SameWay
    <3> QED BY <1>1, <1>3, <3>4 DEF Frames
  <2> QED BY <2>1, <2>2
<1>8. Places' /\ Called' /\ Replacing' /\ Sought'
    BY <1>1, <1>3 DEF IInv, Places, Called, Replacing, Sought
<1>9. Balancing /\ at \in Kept /\ at \in Nodes /\ at # Null
  <2>1. Balancing
      BY <1>1 DEF Balancing
  <2> QED BY <2>1, BalancedNode
<1>10. PICK l, r : l = HeightOf(child[at][0]) /\ r = HeightOf(child[at][1])
    OBVIOUS
<1>11. l \in Nat /\ r \in Nat
    BY <1>9, <1>10, Typed, HeightNat
<1>12. l - r \in {-1, 0, 1} /\ Bias(at) = l - r
  <2>1. l - r \in -2..2 /\ Bias(at) = l - r
      BY <1>1, <1>10 DEF IInv, Heights, BalanceHeights, Bias
  <2>2. ~(l - r > 1) /\ ~(l - r < -1)
      BY <1>1, <2>1 DEF Leans
  <2> QED BY <1>11, <2>1, <2>2
<1>13. height[at] = Reheight(child[at]) /\ \E d \in Nat : Expects(d) /\ d - height[at] \in {-1, 0, 1}
    BY <1>1, <1>12 DEF IInv, Heights, BalanceHeights
<1>14. Unsteady \subseteq Unsteady' \cup {at}
  <2>1. \A i \in Sides : place # Rotation(i)
      BY <1>1, Rotations
  <2> QED BY <1>1, <2>1 DEF Unsteady
<1>15. Balanced'
  <2> SUFFICES ASSUME NEW x \in Kept, x \notin Unsteady' PROVE Steady(x)'
      BY <1>3 DEF Balanced
  <2>1. Steady(x)
    <3>1. CASE x = at
        BY <1>12, <1>13, <3>1 DEF Steady
    <3>2. CASE x # at
        BY <1>14, <3>2 DEF IInv, Heights, Balanced
    <3> QED BY <3>1, <3>2
  <2> QED BY <1>1, <2>1 DEF Steady, Reheight, Bias, HeightOf
<1>16. ReturnHeights'
  <2>1. PICK d \in Nat : Expects(d) /\ d - height[at] \in {-1, 0, 1}
      BY <1>13
  <2>2. Expects(d)'
      BY <1>1, <2>1 DEF Expects, HeightOf, Side
  <2>3. HeightOf(at)' = height[at]
      BY <1>1, <1>9 DEF HeightOf
  <2> QED BY <2>1, <2>2, <2>3 DEF ReturnHeights
<1>17. BalanceHeights' /\ TurnHeights'
    BY <1>1, Rotations DEF BalanceHeights, TurnHeights
<1> QED BY <1>2, <1>6, <1>7, <1>8, <1>15, <1>16, <1>17 DEF IInv, Heights

----------------------------------------------------------------------------
(* The way back                                                            *)

LEMMA WayUp ==
    ASSUME NEW M, NEW R, NEW c, NEW K, NEW a, NEW q, NEW m, Way(M, R, c, K, a, q, m), m # 1,
           NEW p, \A i \in 1..m - 1 : p[i] = q[i + 1]
    PROVE  Way(M, R, c, K, a, p, m - 1)
<1>1. m \in Nat \ {0} /\ m - 1 \in Nat \ {0}
    BY DEF Way
<1>2. \A i \in 1..m - 1 : i + 1 \in 1..m /\ p[i] = q[i + 1]
    BY <1>1
<1>3. \A i \in 1..m - 1 : p[i] \in M
    BY <1>2 DEF Way
<1>4. ASSUME NEW i \in 1..m - 1, NEW j \in 1..m - 1, p[i] = p[j] PROVE i = j
  <2>1. i + 1 = j + 1
      BY <1>2, <1>4 DEF Way
  <2> QED BY <1>1, <2>1
<1>5. ASSUME NEW i \in 1..(m - 1) - 1 PROVE c[p[i + 1]][Toward(a, K[p[i + 1]])] = p[i]
  <2>1. i \in 1..m - 1 /\ i + 1 \in 1..m - 1
      BY <1>1
  <2>2. p[i] = q[i + 1] /\ p[i + 1] = q[(i + 1) + 1]
      BY <1>2, <2>1
  <2> QED BY <2>1, <2>2 DEF Way
<1>6. p[m - 1] = R
  <2>1. m - 1 \in 1..m - 1 /\ (m - 1) + 1 = m
      BY <1>1
  <2> QED BY <1>2, <2>1 DEF Way
<1> QED BY <1>1, <1>3, <1>4, <1>5, <1>6 DEF Way

\* The call around the innermost one, and its x.
LEMMA Grandparent ==
    ASSUME IInv, path # <<>>, Tail(path) # <<>>, NEW x, x = path[1], NEW p, p = path[2],
           NEW s, s = Side(p)
    PROVE  /\ 2 \in 1..Len(path) /\ Len(path) - 1 \in Nat \ {0} /\ Len(Tail(path)) = Len(path) - 1
           /\ Head(Tail(path)) = p /\ Tail(path)[1] = p
           /\ p \in Kept /\ p \in Nodes /\ p # x /\ s \in Sides
           /\ \A u \in Sides : Nd[p][u] = child[p][u]
           /\ child[p][s] = x
           /\ child[p][1 - s] \in Kept \cup {Null} /\ child[p][1 - s] # x
<1>1. path \in Seq(Nodes) /\ Len(path) \in Nat
    BY Typed
<1>2. /\ Len(Tail(path)) = Len(path) - 1 /\ Tail(path) \in Seq(Nodes)
      /\ \A i \in 1..Len(path) - 1 : Tail(path)[i] = path[i + 1]
    BY <1>1, PathFacts
<1>3. Len(Tail(path)) > 0 /\ Head(Tail(path)) = Tail(path)[1]
    BY <1>2, PathFacts
<1>4. 2 \in 1..Len(path) /\ Len(path) - 1 \in Nat \ {0} /\ 1 \in 1..Len(path) - 1
    BY <1>1, <1>2, <1>3
<1>5. Tail(path)[1] = p
    BY <1>2, <1>4
<1>6. Way(Kept, Root, Nd, key, wanted, path, Len(path))
    BY Around
<1>7. p \in Kept /\ p # x /\ 1 \in 1..Len(path)
    BY <1>1, <1>4, <1>6 DEF Way
<1>8. p \in Nodes /\ s \in Sides /\ s = Toward(wanted, key[p]) /\ 1 - s \in Sides /\ 1 - s # s
    BY <1>7, Keyed, Sided, SideFacts
<1>9. \A u \in Sides : Nd[p][u] = child[p][u]
    BY <1>7, <1>8, OwnLinks
<1>10. Nd[p][s] = x
  <2>1. Nd[path[1 + 1]][Toward(wanted, key[path[1 + 1]])] = path[1]
      BY <1>4, <1>6 DEF Way
  <2>2. path[1 + 1] = p
      OBVIOUS
  <2> QED BY <1>8, <2>1, <2>2
<1>11. x \in Kept /\ x # Null
    BY <1>6, <1>7, Keyed DEF Way
<1>12. Nd[p][1 - s] \in Kept \cup {Null} /\ Nd[p][1 - s] # x
    BY <1>7, <1>8, <1>10, <1>11, Shapes DEF Shape
<1> QED BY <1>2, <1>3, <1>4, <1>5, <1>7, <1>8, <1>9, <1>10, <1>12

\* No other node has the x of the innermost call around as a child.
LEMMA NoOther ==
    ASSUME IInv, path # <<>>, NEW z \in Kept, z # path[1], Tail(path) # <<>> => z # path[2],
           NEW s \in Sides
    PROVE  Nd[z][s] = child[z][s] /\ child[z][s] \in Kept \cup {Null} /\ child[z][s] # path[1]
<1>1. z \in Nodes /\ path[1] \in Kept /\ path[1] # Null
    BY Around, Keyed
<1>2. Nd[z][s] = child[z][s]
    BY <1>1, OwnLinks
<1>3. Nd[z][s] \in Kept \cup {Null}
    BY Shapes DEF Shape
<1>4. CASE Tail(path) = <<>>
  <2>1. /\ Len(path) \in Nat \ {0} /\ Len(Tail(path)) = Len(path) - 1
        /\ Way(Kept, Root, Nd, key, wanted, path, Len(path))
      BY Around, PathFacts
  <2>2. Len(path) = 1
      BY <1>4, <2>1
  <2>3. path[1] = Root
      BY <2>1, <2>2 DEF Way
  <2> QED BY <1>1, <1>2, <1>3, <2>3, Shapes DEF Shape
<1>5. CASE Tail(path) # <<>>
  <2>1. PICK p, u : p = path[2] /\ u = Side(p)
      OBVIOUS
  <2>2. p \in Kept /\ u \in Sides /\ Nd[p][u] = path[1]
      BY <1>5, <2>1, Grandparent
  <2> QED BY <1>1, <1>2, <1>3, <1>5, <2>1, <2>2, Shapes DEF Shape
<1> QED BY <1>4, <1>5

LEMMA StillSteady ==
    ASSUME IInv, NEW z \in Nodes, Steady(z), height'[z] = height[z],
           \A s \in Sides : /\ child'[z][s] = child[z][s]
                            /\ child[z][s] = Null \/ height'[child[z][s]] = height[child[z][s]]
    PROVE  Steady(z)'
<1>1. \A s \in Sides : HeightOf(child[z][s])' = HeightOf(child[z][s])
    BY DEF HeightOf
<1> QED BY <1>1 DEF Steady, Reheight, Bias, Sides

\* The height that x had before, and gets.
LEMMA Rising ==
    ASSUME NEW o \in Nat, NEW d \in Nat, NEW h \in Nat, d - o \in {-1, 0, 1}, d - h \in {-1, 0, 1}
    PROVE  /\ h - o \in -2..2 /\ o - h \in -2..2
           /\ IF h - o \in {-1, 0, 1}
              THEN (Larger(d, o) + 1) - (Larger(h, o) + 1) \in {-1, 0, 1}
              ELSE (Larger(d, o) + 1) - (Larger(h, o) + 1) \in {-1, 0}
           /\ Larger(d, o) + 1 \in Nat /\ Larger(o, h) = Larger(h, o)
<1>1. h - o \in -2..2 /\ o - h \in -2..2
    OBVIOUS
<1>2. Larger(o, h) = Larger(h, o)
    BY DEF Larger
<1>3. ASSUME h - o \in {-1, 0, 1} PROVE (Larger(d, o) + 1) - (Larger(h, o) + 1) \in {-1, 0, 1}
    BY <1>3 DEF Larger
<1>4. ASSUME h - o \notin {-1, 0, 1} PROVE (Larger(d, o) + 1) - (Larger(h, o) + 1) \in {-1, 0}
    BY <1>4 DEF Larger
<1> QED BY <1>1, <1>2, <1>3, <1>4, AboveNat

\* What the call that returned leaves: d, the height before, of a child whose
\* sibling has height o.
LEMMA Risen ==
    ASSUME IInv, place = "return", path # <<>>, NEW x, x = path[1], NEW s, s = Side(x),
           NEW o, o = HeightOf(child[x][1 - s]), NEW h, h = HeightOf(at)
    PROVE  /\ x \in Kept /\ x \in Nodes /\ s \in Sides /\ o \in Nat /\ h \in Nat
           /\ child[x][1 - s] = Nd[x][1 - s] /\ child[x][1 - s] \in Kept \cup {Null}
           /\ child[x][1 - s] # x /\ at # x /\ Nd[x][s] = at /\ at \in Kept \cup {Null}
           /\ h - o \in -2..2 /\ o - h \in -2..2 /\ Larger(o, h) = Larger(h, o)
           /\ height[x] \in Nat
           /\ IF h - o \in {-1, 0, 1} THEN height[x] - (Larger(h, o) + 1) \in {-1, 0, 1}
              ELSE height[x] - (Larger(h, o) + 1) \in {-1, 0}
<1>1. /\ x \in Kept /\ x \in Nodes /\ s \in Sides /\ 1 - s \in Sides /\ 1 - s # s
      /\ Nd[x][s] = at /\ x = Head(path)
    BY Around, Sided, SideFacts
<1>2. child[x][1 - s] = Nd[x][1 - s]
    BY <1>1, LinkFacts DEF IInv
<1>3. Nd[x][1 - s] \in Kept \cup {Null} /\ Nd[x][s] \in Kept \cup {Null}
    BY <1>1, Shapes DEF Shape
<1>4. Nd[x][1 - s] # x /\ at # x
  <2>1. x # Null
      BY <1>1, Keyed
  <2> QED BY <1>1, <2>1, Shapes, ChildSide
<1>5. o \in Nat /\ h \in Nat
    BY <1>1, Typed, HeightNat
<1>6. PICK d \in Nat : Expects(d) /\ d - h \in {-1, 0, 1}
    BY DEF IInv, Heights, ReturnHeights
<1>7. d - o \in {-1, 0, 1} /\ height[x] = Larger(d, o) + 1
    BY <1>1, <1>6 DEF Expects
<1>8. /\ h - o \in -2..2 /\ o - h \in -2..2
      /\ IF h - o \in {-1, 0, 1}
         THEN (Larger(d, o) + 1) - (Larger(h, o) + 1) \in {-1, 0, 1}
         ELSE (Larger(d, o) + 1) - (Larger(h, o) + 1) \in {-1, 0}
      /\ Larger(d, o) + 1 \in Nat /\ Larger(o, h) = Larger(h, o)
    BY <1>5, <1>6, <1>7, Rising
<1>9. /\ height[x] \in Nat
      /\ IF h - o \in {-1, 0, 1} THEN height[x] - (Larger(h, o) + 1) \in {-1, 0, 1}
         ELSE height[x] - (Larger(h, o) + 1) \in {-1, 0}
    BY <1>7, <1>8
<1> QED BY <1>1, <1>2, <1>3, <1>4, <1>5, <1>8, <1>9

\* The call around expects the height that x had.
LEMMA StillExpected ==
    ASSUME IInv, place = "return", path # <<>>, path' = Tail(path), wanted' = wanted,
           \A p \in Kept : p # path[1] =>
              /\ key'[p] = key[p] /\ height'[p] = height[p]
              /\ \A u \in Sides : child'[p][u] = child[p][u],
           NEW e, e = height[path[1]]
    PROVE  Expects(e)'
<1> SUFFICES ASSUME Tail(path) # <<>> PROVE Expects(e)'
    BY DEF Expects
<1>1. PICK x, p, s, r : x = path[1] /\ p = path[2] /\ s = Side(p) /\ r = child[p][1 - s]
    OBVIOUS
<1>2. /\ Head(Tail(path)) = p
      /\ p \in Kept /\ p \in Nodes /\ p # x /\ s \in Sides /\ child[p][s] = x
      /\ r \in Kept \cup {Null} /\ r # x /\ 1 - s \in Sides
    BY <1>1, Grandparent, SideFacts
<1>3. p \notin Unsteady
    BY <1>1, <1>2, Around, Rotations DEF Unsteady
<1>4. /\ height[p] = Larger(HeightOf(x), HeightOf(r)) + 1
      /\ HeightOf(x) - HeightOf(r) \in {-1, 0, 1}
    BY <1>1, <1>2, <1>3, SteadySides
<1>5. HeightOf(x) = height[x]
    BY <1>1, Around, Keyed DEF HeightOf
<1>6. /\ Side(p)' = s /\ child'[p][1 - s] = r /\ height'[p] = height[p]
      /\ HeightOf(r)' = HeightOf(r)
    BY <1>1, <1>2 DEF Side, HeightOf
<1>7. HeightOf(child[p][1 - Side(p)])' = HeightOf(r)
    BY <1>6 DEF HeightOf
<1> QED BY <1>1, <1>2, <1>4, <1>5, <1>6, <1>7 DEF Expects

\* balance() is called for w, with what x has on the other side and what was
\* returned: w is x, or takes its place.
LEMMA Rebalance ==
    ASSUME IInv, TypeOK', place = "return", path # <<>>, NEW x, x = path[1], NEW s, s = Side(x),
           NEW w \in Nodes, w \in {x} \cup (Nodes \ Kept),
           at' = w, place' = "balance", path' = Tail(path), wanted' = wanted,
           child'[w][s] = at, child'[w][1 - s] = child[x][1 - s],
           height'[w] = Larger(HeightOf(at), HeightOf(child[x][1 - s])) + 1,
           \A p \in Kept : p # x => /\ key'[p] = key[p] /\ height'[p] = height[p]
                                    /\ \A u \in Sides : child'[p][u] = child[p][u]
    PROVE  /\ ReturnHeights' /\ BalanceHeights' /\ TurnHeights'
           /\ \A z \in Kept : z # x /\ (Tail(path) # <<>> => z # path[2]) => Steady(z)'
<1>1. PICK a, r, h, o, e : /\ a = at /\ r = child[x][1 - s] /\ h = HeightOf(a) /\ o = HeightOf(r)
                           /\ e = height[x]
    OBVIOUS
<1>2. /\ x \in Kept /\ x \in Nodes /\ s \in Sides /\ o \in Nat /\ h \in Nat
      /\ r \in Kept \cup {Null} /\ r # x /\ a # x /\ a \in Kept \cup {Null}
      /\ h - o \in -2..2 /\ o - h \in -2..2 /\ Larger(o, h) = Larger(h, o)
      /\ e \in Nat
      /\ IF h - o \in {-1, 0, 1} THEN e - (Larger(h, o) + 1) \in {-1, 0, 1}
         ELSE e - (Larger(h, o) + 1) \in {-1, 0}
    BY <1>1, Risen
<1>3. a # w /\ r # w /\ w # Null
  <2>1. w # Null /\ (w = x \/ w \notin Kept)
      BY Typed
  <2> QED BY <1>2, <2>1
<1>4. HeightOf(a)' = h /\ HeightOf(r)' = o
    BY <1>1, <1>2 DEF HeightOf
<1>5. child'[w][s] = a /\ child'[w][1 - s] = r /\ height'[w] = Larger(h, o) + 1
    BY <1>1
<1>6. /\ Reheight(child[w])' = Larger(h, o) + 1
      /\ (Bias(w)' = h - o \/ Bias(w)' = o - h)
  <2>1. CASE s = 0
      BY <1>4, <1>5, <2>1 DEF Reheight, Bias
  <2>2. CASE s = 1
      BY <1>2, <1>4, <1>5, <2>2 DEF Reheight, Bias
  <2> QED BY <1>2, <2>1, <2>2 DEF Sides
<1>7. Expects(e)'
    BY <1>1, StillExpected
<1>8. PICK b : b = Bias(w)'
    OBVIOUS
<1>9. b \in -2..2 /\ IF b \in {-1, 0, 1} THEN e - height'[w] \in {-1, 0, 1}
                     ELSE e - height'[w] \in {-1, 0}
    BY <1>2, <1>5, <1>6, <1>8
<1>10. BalanceHeights'
  <2>1. height'[w] = Reheight(child[w])'
      BY <1>5, <1>6
  <2>2. Bias(at)' = b /\ Reheight(child[at])' = Reheight(child[w])'
      BY <1>8 DEF Bias, Reheight
  <2> QED BY <1>2, <1>7, <1>9, <2>1, <2>2 DEF BalanceHeights
<1>11. ReturnHeights' /\ TurnHeights'
    BY Rotations DEF ReturnHeights, TurnHeights
<1>12. ASSUME NEW z \in Kept, z # x, Tail(path) # <<>> => z # path[2] PROVE Steady(z)'
  <2>1. z \notin Unsteady /\ z \in Nodes
      BY <1>1, <1>12, Around, Keyed, Rotations DEF Unsteady
  <2>2. Steady(z)
      BY <2>1 DEF IInv, Heights, Balanced
  <2>3. \A u \in Sides : child[z][u] \in Kept \cup {Null} /\ child[z][u] # x
      BY <1>1, <1>12, NoOther
  <2> QED BY <1>12, <2>1, <2>2, <2>3, StillSteady
<1> QED BY <1>10, <1>11, <1>12

LEMMA AscendStep == ASSUME IInv, Ascend PROVE IInv'
<1>1. /\ place = "return" /\ path # <<>> /\ Head(path) # gone
      /\ UNCHANGED <<key, value, root, size, live, op, wanted, given, gone, low, next>>
    BY DEF Ascend, callVars, goneVars
<1>2. PICK x, s : x = path[1] /\ s = Side(x)
    OBVIOUS
<1>3. PICK m : m = Len(path)
    OBVIOUS
<1>4. /\ op \in {"insert", "erase"} /\ Root = root
      /\ path \in Seq(Nodes) /\ m \in Nat \ {0} /\ 1 \in 1..m
      /\ Head(path) = x /\ x \in Kept /\ x \in Nodes /\ s \in Sides
      /\ Way(Kept, Root, Nd, key, wanted, path, m) /\ Nd[x][s] = at
    BY <1>1, <1>2, <1>3, Around, Sided
<1>5. ASSUME gone # Null
      PROVE  \E n \in 1..m - 1 : path[n + 1] = gone /\ \A i \in 1..n : wanted < key[path[i]]
  <2>1. PICK n \in 1..m : path[n] = gone /\ \A i \in 1..n - 1 : wanted < key[path[i]]
      BY <1>3, <1>5 DEF IInv, Replacing
  <2>2. n # 1
      BY <1>1, <1>2, <1>4, <2>1
  <2>3. n - 1 \in 1..m - 1 /\ (n - 1) + 1 = n
      BY <1>4, <2>2
  <2> QED BY <2>1, <2>3
<1>6. s = IF gone # Null THEN 0 ELSE Side(x)
  <2>1. CASE gone = Null
      BY <1>2, <2>1
  <2>2. CASE gone # Null
    <3>1. wanted < key[path[1]]
        BY <1>4, <1>5, <2>2
    <3> QED BY <1>2, <2>2, <3>1 DEF Side
  <2> QED BY <2>1, <2>2
<1>7. BalanceWith(x, [child[x] EXCEPT ![s] = at])
    BY <1>4, <1>6 DEF Ascend
<1>8. TypeOK'
    BY AscendType
<1>9. /\ at' = x /\ path' = Tail(path) /\ place' = "balance"
      /\ child' = [child EXCEPT ![x] = [child[x] EXCEPT ![s] = at]]
      /\ height' = [height EXCEPT ![x] = Reheight([child[x] EXCEPT ![s] = at])]
    BY <1>7 DEF BalanceWith
<1>10. /\ \A z \in Nodes, u \in Sides :
            child'[z][u] = IF z = x /\ u = s THEN at ELSE child[z][u]
       /\ \A z \in Nodes : z # x => height'[z] = height[z]
    BY <1>4, <1>9, Typed
<1>11. height'[x] = Larger(HeightOf(at), HeightOf(child[x][1 - s])) + 1
  <2>1. Larger(HeightOf(child[x][1 - s]), HeightOf(at)) = Larger(HeightOf(at), HeightOf(child[x][1 - s]))
      BY <1>1, <1>2, Risen
  <2>2. PICK d : d = [child[x] EXCEPT ![s] = at]
      OBVIOUS
  <2>3. d[s] = at /\ d[1 - s] = child[x][1 - s]
      BY <1>4, <2>2, Typed, SideFacts
  <2>4. height'[x] = Reheight(d)
      BY <1>4, <1>9, <2>2, Typed
  <2>5. CASE s = 0
      BY <2>3, <2>4, <2>5 DEF Reheight
  <2>6. CASE s = 1
      BY <2>1, <2>3, <2>4, <2>6 DEF Reheight
  <2> QED BY <1>4, <2>5, <2>6 DEF Sides
<1>12. /\ ReturnHeights' /\ BalanceHeights' /\ TurnHeights'
       /\ \A z \in Kept : z # x /\ (Tail(path) # <<>> => z # path[2]) => Steady(z)'
  <2>1. child'[x][s] = at /\ child'[x][1 - s] = child[x][1 - s]
      BY <1>4, <1>10, SideFacts
  <2>2. \A p \in Kept : p # x => /\ key'[p] = key[p] /\ height'[p] = height[p]
                                 /\ \A u \in Sides : child'[p][u] = child[p][u]
      BY <1>1, <1>10, Keyed
  <2> QED BY <1>1, <1>2, <1>4, <1>8, <1>9, <1>11, <2>1, <2>2, Rebalance
<1>13. Kept' = Kept
    BY <1>1, KeepKept
<1>14. /\ Len(Tail(path)) = m - 1 /\ \A i \in 1..m - 1 : Tail(path)[i] = path[i + 1]
       /\ Tail(path) # <<>> <=> m # 1 /\ Tail(path) \in Seq(Nodes)
    BY <1>3, <1>4, PathFacts
<1>15. \A z \in Nodes, u \in Sides : Nd'[z][u] = Nd[z][u]
  <2> SUFFICES ASSUME NEW z \in Nodes, NEW u \in Sides PROVE Nd'[z][u] = Nd[z][u]
      OBVIOUS
  <2>1. Nd[z][u] = child'[z][u]
      BY <1>1, <1>2, <1>4, <1>10, LinkFacts DEF IInv
  <2>2. CASE Tail(path) # <<>> /\ z = Head(Tail(path)) /\ u = Side(z)
    <3>1. PICK p, v : p = path[2] /\ v = Side(p)
        OBVIOUS
    <3>2. Head(Tail(path)) = p /\ p # x /\ child[p][v] = x
        BY <1>1, <1>2, <2>2, <3>1, Grandparent
    <3>3. child'[z][u] = x
        BY <1>10, <2>2, <3>1, <3>2
    <3>4. Side(z)' = Side(z)
        BY <1>1 DEF Side
    <3> QED BY <1>8, <1>9, <2>1, <2>2, <3>3, <3>4, LinksNext
  <2>3. CASE ~(Tail(path) # <<>> /\ z = Head(Tail(path)) /\ u = Side(z))
    <3>1. Side(z)' = Side(z)
        BY <1>1 DEF Side
    <3> QED BY <1>8, <1>9, <2>1, <2>3, <3>1, LinksNext
  <2> QED BY <2>2, <2>3
<1>16. Root' = Root
  <2>1. CASE m = 1
    <3>1. Root = x /\ path' = <<>>
        BY <1>2, <1>4, <1>9, <1>14, <2>1 DEF Way
    <3> QED BY <1>1, <1>4, <1>9, <3>1 DEF Root
  <2>2. CASE m # 1
      BY <1>1, <1>4, <1>9, <1>14, <2>2 DEF Root
  <2> QED BY <2>1, <2>2
<1>17. TreeInv'
    BY <1>1, <1>13, <1>15, <1>16, Keyed, QuietTree
<1>18. Frames'
  <2> SUFFICES ASSUME m # 1
               PROVE  Way(Kept, root, Nd', key, wanted, Tail(path), m - 1)
      BY <1>1, <1>9, <1>13, <1>14 DEF Frames
  <2>1. Way(Kept, root, Nd, key, wanted, Tail(path), m - 1)
      BY <1>4, <1>14, WayUp
  <2>2. \A n \in 1..m - 1 : Tail(path)[n] \in Kept /\ Tail(path)[n] \in Nodes
      BY <2>1, Keyed DEF Way
  <2>3. \A n \in 2..m - 1 : n \in 1..m - 1
      BY <1>4
  <2>4. PICK q, k : q = Tail(path) /\ k = m - 1
      OBVIOUS
  <2>5. /\ Way(Kept, root, Nd, key, wanted, q, k)
        /\ \A n \in 1..k : q[n] \in Kept /\ key[q[n]] = key[q[n]]
        /\ \A n \in 2..k, u \in Sides : Nd'[q[n]][u] = Nd[q[n]][u]
      BY <1>15, <2>1, <2>2, <2>3, <2>4
  <2>6. Way(Kept, root, Nd', key, wanted, q, k)
      BY <2>5, SameWay
  <2> QED BY <2>4, <2>6
<1>19. Places'
    BY <1>1, <1>4, <1>9, <1>13, Keyed DEF IInv, Places
<1>20. Called' /\ Sought'
    BY <1>1, <1>4, <1>9 DEF Called, Sought
<1>21. Replacing'
  <2>1. CASE gone = Null
      BY <1>1, <2>1 DEF IInv, Replacing
  <2>2. CASE gone # Null
    <3>1. PICK n \in 1..m - 1 : path[n + 1] = gone /\ \A i \in 1..n : wanted < key[path[i]]
        BY <1>5, <2>2
    <3>2. n \in 1..Len(path') /\ path'[n] = gone
        BY <1>9, <1>14, <3>1
    <3>3. \A i \in 1..n - 1 : i + 1 \in 1..n /\ i \in 1..m - 1
        BY <1>4, <3>1
    <3>4. \A i \in 1..n - 1 : wanted < key[path'[i]]
        BY <1>9, <1>14, <3>1, <3>3
    <3>5. \E k \in 1..Len(path') : path'[k] = gone' /\ \A i \in 1..k - 1 : wanted' < key'[path'[i]]
        BY <1>1, <3>2, <3>4
    <3>6. /\ gone \in Nodes \ live /\ gone # x /\ key[gone] = wanted /\ low = child[gone][0]
          /\ next # Null /\ next \in live /\ wanted < key[next]
        BY <1>1, <1>4, <2>2, Replaced
    <3>7. low = child'[gone][0]
        BY <1>10, <3>6 DEF Sides
    <3>8. \A t \in Kept : t = gone \/ key[t] < wanted \/ key[next] < key[t]
        BY <3>6 DEF IInv, Replacing
    <3> QED BY <1>1, <1>9, <1>13, <2>2, <3>5, <3>6, <3>7, <3>8 DEF Replacing
  <2> QED BY <2>1, <2>2
<1>22. Balanced'
  <2> SUFFICES ASSUME NEW z \in Kept, z \notin Unsteady' PROVE Steady(z)'
      BY <1>13 DEF Balanced
  <2>1. z # x
      BY <1>9 DEF Unsteady
  <2>2. Tail(path) # <<>> => z # path[2]
    <3>1. Tail(path) # <<>> => z # Head(Tail(path))
        BY <1>9 DEF Unsteady
    <3> QED BY <1>1, <3>1, Grandparent
  <2> QED BY <1>12, <2>1, <2>2
<1> QED BY <1>8, <1>12, <1>17, <1>18, <1>19, <1>20, <1>21, <1>22 DEF IInv, Heights

LEMMA ReplaceStep == ASSUME IInv, Replace PROVE IInv'
<1>1. /\ place = "return" /\ path # <<>> /\ Head(path) = gone
      /\ at' = next /\ path' = Tail(path) /\ place' = "balance" /\ gone' = Null /\ next' = Null
      /\ key' = [key EXCEPT ![gone] = Nothing]
      /\ UNCHANGED <<root, size, live, op, wanted, given>>
    BY DEF Replace, callVars
<1>2. PICK m : m = Len(path)
    OBVIOUS
<1>3. /\ Root = root /\ path \in Seq(Nodes) /\ m \in Nat \ {0} /\ 1 \in 1..m
      /\ path[1] = gone /\ gone \in Kept /\ gone \in Nodes
      /\ Way(Kept, Root, Nd, key, wanted, path, m) /\ gone # Null
    BY <1>1, <1>2, Around, Keyed
<1>4. /\ op = "erase" /\ gone \notin live /\ key[gone] = wanted
      /\ low = child[gone][0] /\ Side(gone) = 1
      /\ next \in live /\ next # Null /\ next \in Nodes /\ wanted < key[next]
      /\ next # gone /\ next \notin Kept /\ wanted \in Int
    BY <1>1, <1>3, Replaced
<1>5. TypeOK'
    BY ReplaceType
<1>6. PICK d : d = [child[next] EXCEPT ![1] = at, ![0] = low]
    OBVIOUS
<1>7. d[0] = low /\ d[1] = at
    BY <1>4, <1>6, Typed
<1>8. /\ child' = [child EXCEPT ![next] = d, ![gone] = [s \in Sides |-> Null]]
      /\ height' = [height EXCEPT ![next] = Reheight(d), ![gone] = 1]
    BY <1>6 DEF Replace
<1>9. /\ \A u \in Sides : child'[next][u] = d[u]
      /\ \A z \in Nodes, u \in Sides : z # next /\ z # gone => child'[z][u] = child[z][u]
      /\ height'[next] = Reheight(d)
      /\ \A z \in Nodes : z # next /\ z # gone => height'[z] = height[z]
      /\ \A z \in Nodes : z # gone => key'[z] = key[z]
    BY <1>1, <1>3, <1>4, <1>8, Typed
<1>10. \A z \in Kept : z # gone =>
          /\ z \in Nodes /\ z # next /\ key'[z] = key[z] /\ height'[z] = height[z]
          /\ \A u \in Sides : child'[z][u] = child[z][u]
    BY <1>4, <1>9, Keyed
<1>11. height'[next] = Larger(HeightOf(at), HeightOf(child[gone][1 - 1])) + 1
  <2>1. Larger(HeightOf(low), HeightOf(at)) = Larger(HeightOf(at), HeightOf(low))
    <3>1. Larger(HeightOf(child[gone][1 - 1]), HeightOf(at)) = Larger(HeightOf(at), HeightOf(child[gone][1 - 1]))
        BY <1>1, <1>3, <1>4, Risen
    <3> QED BY <1>4, <3>1
  <2> QED BY <1>4, <1>7, <1>9, <2>1 DEF Reheight
<1>12. /\ ReturnHeights' /\ BalanceHeights' /\ TurnHeights'
       /\ \A z \in Kept : z # gone /\ (Tail(path) # <<>> => z # path[2]) => Steady(z)'
  <2>1. child'[next][1] = at /\ child'[next][1 - 1] = child[gone][1 - 1]
      BY <1>4, <1>7, <1>9 DEF Sides
  <2>2. PICK s : s = Side(gone) /\ s = 1
      BY <1>4
  <2>3. \A p \in Kept : p # gone => /\ key'[p] = key[p] /\ height'[p] = height[p]
                                    /\ \A u \in Sides : child'[p][u] = child[p][u]
      BY <1>10
  <2>4. height'[next] = Larger(HeightOf(at), HeightOf(child[gone][1 - s])) + 1
      BY <1>11, <2>2
  <2>5. child'[next][s] = at /\ child'[next][1 - s] = child[gone][1 - s]
      BY <2>1, <2>2
  <2>6. next \in {gone} \cup (Nodes \ Kept) /\ gone = path[1] /\ wanted' = wanted
      BY <1>1, <1>3, <1>4
  <2> QED BY <1>1, <1>4, <1>5, <2>2, <2>3, <2>4, <2>5, <2>6, Rebalance
<1>13. Kept' = (Kept \ {gone}) \cup {next} /\ Kept' = live
  <2>1. Kept' = live
      BY <1>1, <1>3, Typed DEF Kept
  <2> QED BY <1>3, <1>4, <2>1 DEF Kept
<1>14. /\ Len(Tail(path)) = m - 1 /\ \A i \in 1..m - 1 : Tail(path)[i] = path[i + 1]
       /\ Tail(path) # <<>> <=> m # 1 /\ Tail(path) \in Seq(Nodes)
    BY <1>2, <1>3, PathFacts
<1>15. Nd[gone][0] = low /\ Nd[gone][1] = at
    BY <1>1, <1>3, <1>4, LinkFacts DEF IInv, Sides
<1>16. \A u \in Sides : Nd'[next][u] = Nd[gone][u]
  <2>1. Tail(path) # <<>> => next # Head(Tail(path))
    <3>1. PICK p, v : p = path[2] /\ v = Side(p)
        OBVIOUS
    <3> QED BY <1>1, <1>3, <1>4, <3>1, Grandparent
  <2>2. \A u \in Sides : Nd'[next][u] = child'[next][u]
      BY <1>1, <1>4, <1>5, <2>1, LinksNext
  <2> QED BY <1>7, <1>9, <1>15, <2>2 DEF Sides
<1>17. ASSUME NEW z \in Kept \ {gone}, NEW u \in Sides
       PROVE  Nd'[z][u] = IF Nd[z][u] = gone THEN next ELSE Nd[z][u]
  <2>1. /\ z \in Nodes /\ child'[z][u] = child[z][u] /\ Side(z)' = Side(z)
        /\ Nd[z][u] = child[z][u]
      BY <1>1, <1>3, <1>10, OwnLinks DEF Side
  <2>2. Nd'[z][u] = IF Tail(path) # <<>> /\ z = Head(Tail(path)) /\ u = Side(z) THEN next
                    ELSE Nd[z][u]
      BY <1>1, <1>5, <2>1, LinksNext
  <2>3. CASE Tail(path) # <<>> /\ z = path[2]
    <3>1. PICK v : v = Side(z)
        OBVIOUS
    <3>2. Head(Tail(path)) = z /\ v \in Sides /\ child[z][v] = gone /\ child[z][1 - v] # gone
        BY <1>1, <1>3, <2>3, <3>1, Grandparent
    <3> QED BY <2>1, <2>2, <2>3, <3>1, <3>2 DEF Sides
  <2>4. CASE ~(Tail(path) # <<>> /\ z = path[2])
    <3>1. Tail(path) # <<>> => z # Head(Tail(path))
      <4>1. PICK p, v : p = path[2] /\ v = Side(p)
          OBVIOUS
      <4> QED BY <1>1, <1>3, <2>4, <4>1, Grandparent
    <3>2. child[z][u] # gone
        BY <1>1, <1>3, <2>4, NoOther
    <3> QED BY <2>1, <2>2, <3>1, <3>2
  <2> QED BY <2>3, <2>4
<1>18. Root' = IF Root = gone THEN next ELSE Root
  <2>1. CASE m = 1
    <3>1. Root = gone /\ path' = <<>>
        BY <1>1, <1>3, <1>14, <2>1 DEF Way
    <3> QED BY <1>1, <1>4, <3>1 DEF Root
  <2>2. CASE m # 1
    <3>1. m \in 1..m /\ path[m] = Root
        BY <1>3 DEF Way
    <3>2. Root # gone
        BY <1>3, <2>2, <3>1 DEF Way
    <3> QED BY <1>1, <1>3, <1>14, <2>2, <3>2 DEF Root
  <2> QED BY <2>1, <2>2
<1>19. \A z \in Kept \ {gone} : /\ key'[z] = key[z] /\ key'[next] # key[z]
                                /\ Toward(key[z], key'[next]) = Toward(key[z], key[gone])
  <2> SUFFICES ASSUME NEW z \in Kept \ {gone}
               PROVE  /\ key'[z] = key[z] /\ key'[next] # key[z]
                      /\ Toward(key[z], key'[next]) = Toward(key[z], key[gone])
      OBVIOUS
  <2>1. key'[z] = key[z] /\ key'[next] = key[next] /\ key[next] \in Int /\ key[z] \in Int
    <3>1. key[next] \in Keys
        BY <1>4 DEF IInv, TypeOK
    <3> QED BY <1>4, <1>9, <1>10, <3>1, Keyed, Numbers
  <2>2. key[z] < wanted \/ key[next] < key[z]
      BY <1>4 DEF IInv, Replacing
  <2> QED BY <1>4, <2>1, <2>2 DEF Toward
<1>20. key'[next] \in Int
  <2>1. key'[next] = key[next] /\ key[next] \in Keys
      BY <1>4, <1>9 DEF IInv, TypeOK
  <2> QED BY <2>1, Numbers
<1>21. TreeInv'
  <2>1. Renamed(Kept, Root, Nd, key, gone, next, Root', Nd', key')
      BY <1>3, <1>4, <1>16, <1>17, <1>18, <1>19, <1>20 DEF Renamed, Relinked
  <2>2. SearchTree((Kept \ {gone}) \cup {next}, Root', Nd', key')
      BY <2>1, Shapes, RenameTree
  <2> QED BY <1>13, <2>2 DEF TreeInv
<1>22. Frames'
  <2> SUFFICES ASSUME m # 1
               PROVE  Way(Kept', root, Nd', key', wanted, Tail(path), m - 1)
      BY <1>1, <1>14 DEF Frames
  <2>1. PICK q, k : q = Tail(path) /\ k = m - 1
      OBVIOUS
  <2>2. Way(Kept, root, Nd, key, wanted, q, k)
      BY <1>3, <1>14, <2>1, WayUp
  <2>3. ASSUME NEW n \in 1..k PROVE q[n] \in Kept /\ q[n] # gone
    <3>1. n + 1 \in 1..m /\ n + 1 # 1 /\ q[n] = path[n + 1]
        BY <1>3, <1>14, <2>1
    <3> QED BY <1>3, <3>1 DEF Way
  <2>4. \A n \in 1..k : q[n] \in Kept' /\ key'[q[n]] = key[q[n]]
      BY <1>10, <1>13, <2>3
  <2>5. ASSUME NEW n \in 2..k, NEW u \in Sides PROVE Nd'[q[n]][u] = Nd[q[n]][u]
    <3>1. n \in 1..k /\ 1 \in 1..k /\ n # 1
        BY <1>3, <2>1
    <3>2. q[n] # q[1] /\ q[1] = Head(Tail(path))
        BY <1>14, <2>1, <2>2, <3>1, PathFacts DEF Way
    <3>3. q[n] \in Kept \ {gone} /\ q[n] \in Nodes
        BY <2>3, <3>1, Keyed
    <3>4. Nd'[q[n]][u] = child'[q[n]][u]
        BY <1>1, <1>5, <3>2, <3>3, LinksNext
    <3>5. Nd[q[n]][u] = child[q[n]][u]
        BY <1>3, <3>3, OwnLinks
    <3> QED BY <1>10, <3>3, <3>4, <3>5
  <2>6. Way(Kept', root, Nd', key', wanted, q, k)
      BY <2>2, <2>4, <2>5, SameWay
  <2> QED BY <2>1, <2>6
<1>23. Places'
    BY <1>1, <1>4, <1>13 DEF IInv, Places
<1>24. Called' /\ Sought' /\ Replacing'
    BY <1>1, <1>4 DEF Called, Sought, Replacing
<1>25. Balanced'
  <2> SUFFICES ASSUME NEW z \in Kept', z \notin Unsteady' PROVE Steady(z)'
      BY DEF Balanced
  <2>1. z # next
      BY <1>1 DEF Unsteady
  <2>2. Tail(path) # <<>> => z # path[2]
    <3>1. Tail(path) # <<>> => z # Head(Tail(path))
        BY <1>1 DEF Unsteady
    <3>2. PICK p, v : p = path[2] /\ v = Side(p)
        OBVIOUS
    <3> QED BY <1>1, <1>3, <3>1, <3>2, Grandparent
  <2> QED BY <1>12, <1>13, <2>1, <2>2
<1> QED BY <1>5, <1>12, <1>21, <1>22, <1>23, <1>24, <1>25 DEF IInv, Heights

----------------------------------------------------------------------------
(* Where the calls end                                                     *)

\* When a call returns that has been made where the tree was balanced, the call
\* around expects the height that its argument had.
LEMMA CallReturns ==
    ASSUME IInv, op \in {"insert", "erase"}, place = "call", path' = path, wanted' = wanted,
           \A z \in Kept : z # at => /\ key'[z] = key[z] /\ height'[z] = height[z]
                                     /\ \A u \in Sides : child'[z][u] = child[z][u],
           NEW e, e = HeightOf(at)
    PROVE  /\ Expects(e)' /\ e \in Nat
           /\ \A z \in Kept : z # at /\ (path # <<>> => z # path[1]) => Steady(z)'
<1>1. e \in Nat
    BY Typed, HeightNat
<1>2. Expects(e)'
  <2> SUFFICES ASSUME path # <<>> PROVE Expects(e)'
      BY DEF Expects
  <2>1. PICK x, s, r : x = path[1] /\ s = Side(x) /\ r = child[x][1 - s]
      OBVIOUS
  <2>2. /\ Head(path) = x /\ x \in Kept /\ x \in Nodes /\ x # Null /\ Nd[x][s] = at
        /\ s \in Sides /\ 1 - s \in Sides /\ 1 - s # s
      BY <2>1, Around, Keyed, Sided, SideFacts
  <2>3. x # at
    <3>1. 1 \in 1..Len(path) /\ (at # Null => path[1] # at)
        BY Around
    <3> QED BY <2>1, <2>2, <3>1
  <2>4. r = Nd[x][1 - s] /\ r \in Kept \cup {Null} /\ (r # Null => r # at)
    <3>1. r = Nd[x][1 - s]
        BY <2>1, <2>2, CallLinks
    <3> QED BY <2>2, <3>1, Shapes DEF Shape
  <2>5. HeightOf(r)' = HeightOf(r)
      BY <2>4 DEF HeightOf
  <2>6. Side(x)' = s /\ child'[x][1 - s] = r /\ height'[x] = height[x]
      BY <2>1, <2>2, <2>3 DEF Side
  <2>7. e - HeightOf(r) \in {-1, 0, 1} /\ height[x] = Larger(e, HeightOf(r)) + 1
      BY <2>1, <2>2, ExpectsCall DEF Expects
  <2>8. HeightOf(child[x][1 - Side(x)])' = HeightOf(r)
      BY <2>5, <2>6 DEF HeightOf
  <2> QED BY <2>2, <2>6, <2>7, <2>8 DEF Expects
<1>3. ASSUME NEW z \in Kept, z # at, path # <<>> => z # path[1] PROVE Steady(z)'
  <2>1. z \in Nodes /\ z \notin Unsteady
      BY Keyed, Rotations DEF Unsteady
  <2>2. Steady(z)
      BY <2>1 DEF IInv, Heights, Balanced
  <2>3. ASSUME NEW u \in Sides
        PROVE  child[z][u] \in Kept \cup {Null} /\ (child[z][u] # Null => child[z][u] # at)
    <3>1. Nd[z][u] = child[z][u]
        BY <2>1, CallLinks
    <3>2. Nd[z][u] \in Kept \cup {Null}
        BY Shapes DEF Shape
    <3>3. Nd[z][u] = at /\ at # Null => path # <<>> /\ z = path[1]
        BY Parent, Around
    <3> QED BY <1>3, <3>1, <3>2, <3>3
  <2> QED BY <1>3, <2>1, <2>2, <2>3, StillSteady
<1> QED BY <1>1, <1>2, <1>3

LEMMA CreateStep == ASSUME IInv, Create PROVE IInv'
<1>1. /\ place = "call" /\ op = "insert" /\ gone = Null /\ at = Null
      /\ child' = [child EXCEPT ![size] = [s \in Sides |-> Null]]
      /\ height' = [height EXCEPT ![size] = 1]
      /\ key' = [key EXCEPT ![size] = wanted]
      /\ live' = live \cup {size} /\ at' = size /\ place' = "return"
      /\ UNCHANGED <<root, op, wanted, given, path, gone, low, next>>
    BY DEF Create, Calling, Return, callVars, goneVars
<1>2. /\ size \in Nodes /\ size \notin live /\ next = Null
      /\ Kept = live /\ \A x \in live : key[x] # wanted
    BY RoomThere DEF Create
<1>3. wanted \in Keys /\ wanted \in Int /\ given \in Values /\ size # Null
    BY <1>1, <1>2, Wanted, Typed DEF IInv, Places
<1>4. TypeOK'
    BY ChangingType DEF Changing
<1>5. Kept' = Kept \cup {size}
    BY <1>1, <1>2, <1>3, Typed DEF Kept
<1>6. /\ \A z \in Kept : /\ z \in Nodes /\ key'[z] = key[z] /\ height'[z] = height[z]
                         /\ \A u \in Sides : child'[z][u] = child[z][u]
      /\ \A u \in Sides : child'[size][u] = Null
      /\ height'[size] = 1 /\ key'[size] = wanted
    BY <1>1, <1>2, Keyed, Typed
<1>7. path # <<>> => Head(path) \in Kept /\ Head(path) = path[1]
    BY Around
<1>8. \A u \in Sides : Nd'[size][u] = Null
    BY <1>1, <1>2, <1>4, <1>6, <1>7, LinksNext
<1>9. \A z \in Kept, u \in Sides :
         Nd'[z][u] = IF path # <<>> /\ z = Head(path) /\ u = Side(z) THEN size ELSE Nd[z][u]
  <2> SUFFICES ASSUME NEW z \in Kept, NEW u \in Sides
               PROVE  Nd'[z][u] = IF path # <<>> /\ z = Head(path) /\ u = Side(z) THEN size
                                  ELSE Nd[z][u]
      OBVIOUS
  <2>1. Side(z)' = Side(z) /\ z \in Nodes
      BY <1>1, <1>6 DEF Side
  <2> QED BY <1>1, <1>4, <1>6, <2>1, LinksNext, CallLinks
<1>10. TreeInv'
  <2>1. CASE path = <<>>
    <3>1. Root = Null /\ Root' = size
        BY <1>1, <2>1 DEF Root
    <3>2. Kept = {}
        BY <3>1, Shapes, RootThere
    <3>3. Grafted(Kept, Root, Nd, key, size, wanted, Null, 0, Root', Nd', key')
        BY <1>2, <1>3, <1>6, <1>8, <3>1, <3>2 DEF Grafted, Sides
    <3>4. SearchTree(Kept \cup {size}, Root', Nd', key')
        BY <3>3, Shapes, GraftTree
    <3> QED BY <1>5, <3>4 DEF TreeInv
  <2>2. CASE path # <<>>
    <3>1. PICK p, s : p = path[1] /\ s = Side(p)
        OBVIOUS
    <3>2. /\ p \in Kept /\ s \in Sides /\ s = Toward(wanted, key[p]) /\ p = Head(path)
          /\ Nd[p][s] = Null /\ Root = root
          /\ Way(Kept, Root, Nd, key, wanted, path, Len(path))
          /\ Len(path) \in Nat \ {0} /\ 1 \in 1..Len(path)
        BY <1>1, <2>2, <3>1, Around, Sided
    <3>3. \A n \in 1..Len(path) : key[path[n]] # wanted
        BY <1>1 DEF IInv, Sought
    <3>4. \A n \in 2..Len(path) : key[path[n]] # wanted
        BY <3>2, <3>3
    <3>5. \A S \in SUBSET Kept : Root \in S /\ Follows(Nd, key, wanted, S) => p \in S
        BY <3>1, <3>2, <3>4, Shapes, WayLeads
    <3>6. Leads(Kept, Root, Nd, key, wanted, p, s)
        BY <3>1, <3>2, <3>3, <3>5 DEF Leads
    <3>7. Root' = Root
        BY <1>1, <2>2, <3>2 DEF Root
    <3>8. Grafted(Kept, Root, Nd, key, size, wanted, p, s, Root', Nd', key')
      <4>1. Nd'[p][s] = size
          BY <1>9, <2>2, <3>1, <3>2
      <4>2. ASSUME NEW z \in Kept, NEW u \in Sides, z # p \/ u # s PROVE Nd'[z][u] = Nd[z][u]
        <5>1. ~(path # <<>> /\ z = Head(path) /\ u = Side(z))
            BY <3>1, <3>2, <4>2
        <5> QED BY <1>9, <5>1
      <4> QED BY <1>2, <1>3, <1>6, <1>8, <3>2, <3>6, <3>7, <4>1, <4>2 DEF Grafted
    <3>9. SearchTree(Kept \cup {size}, Root', Nd', key')
        BY <3>8, Shapes, GraftTree
    <3> QED BY <1>5, <3>9 DEF TreeInv
  <2> QED BY <2>1, <2>2
<1>11. Frames'
  <2> SUFFICES ASSUME path # <<>>
               PROVE  Way(Kept', root, Nd', key', wanted, path, Len(path))
      BY <1>1 DEF Frames
  <2>1. PICK q, k : q = path /\ k = Len(path)
      OBVIOUS
  <2>2. Way(Kept, root, Nd, key, wanted, q, k) /\ k \in Nat \ {0} /\ Head(path) = q[1]
      BY <2>1, Around
  <2>3. \A n \in 1..k : q[n] \in Kept' /\ key'[q[n]] = key[q[n]]
      BY <1>5, <1>6, <2>2 DEF Way
  <2>4. ASSUME NEW n \in 2..k, NEW u \in Sides PROVE Nd'[q[n]][u] = Nd[q[n]][u]
    <3>1. n \in 1..k /\ 1 \in 1..k /\ n # 1
        BY <2>2
    <3> QED BY <1>9, <2>2, <3>1 DEF Way
  <2>5. Way(Kept', root, Nd', key', wanted, q, k)
      BY <2>2, <2>3, <2>4, SameWay
  <2> QED BY <2>1, <2>5
<1>12. Places' /\ Called' /\ Replacing' /\ Sought'
    BY <1>1, <1>2, <1>3, <1>5 DEF Places, Called, Replacing, Sought
<1>13. PICK e : e = HeightOf(at)
    OBVIOUS
<1>14. /\ Expects(e)' /\ e \in Nat
       /\ \A z \in Kept : z # at /\ (path # <<>> => z # path[1]) => Steady(z)'
    BY <1>1, <1>6, <1>13, CallReturns
<1>15. Balanced'
  <2> SUFFICES ASSUME NEW z \in Kept', z \notin Unsteady' PROVE Steady(z)'
      BY DEF Balanced
  <2>1. CASE z = size
      BY <1>6, <2>1 DEF Steady, Reheight, Bias, HeightOf, Larger, Sides
  <2>2. CASE z # size
    <3>1. z \in Kept /\ z # Null
        BY <1>5, <2>2, Keyed
    <3>2. path # <<>> => z # path[1]
        BY <1>1, <1>7 DEF Unsteady
    <3> QED BY <1>1, <1>14, <3>1, <3>2
  <2> QED BY <2>1, <2>2
<1>16. ReturnHeights'
  <2>1. e = 0
      BY <1>1, <1>13 DEF HeightOf
  <2>2. HeightOf(at)' = 1
      BY <1>1, <1>3, <1>6 DEF HeightOf
  <2> QED BY <1>14, <2>1, <2>2 DEF ReturnHeights
<1>17. BalanceHeights' /\ TurnHeights'
    BY <1>1, Rotations DEF BalanceHeights, TurnHeights
<1> QED BY <1>4, <1>10, <1>11, <1>12, <1>15, <1>16, <1>17 DEF IInv, Heights

\* A node with one child at most is taken out: the child takes its place.
LEMMA SpliceStep ==
    ASSUME IInv, TypeOK', place = "call", op = "erase", at # Null, NEW s \in Sides,
           child[at][1 - s] = Null, at' = child[at][s], place' = "return",
           UNCHANGED <<op, wanted, given, path, root>>, Kept' = Kept \ {at},
           \A z \in Kept : z # at => /\ key'[z] = key[z] /\ height'[z] = height[z]
                                     /\ \A u \in Sides : child'[z][u] = child[z][u]
    PROVE  TreeInv' /\ Frames' /\ Heights' /\ Places' /\ Called' /\ Sought'
<1>1. PICK a, b, e : a = at /\ b = child[at][s] /\ e = HeightOf(at)
    OBVIOUS
<1>2. at \in Kept /\ at \in Nodes /\ 1 - s \in Sides
    BY Keyed, SideFacts DEF IInv, Places
<1>3. Nd[at][s] = b /\ Nd[at][1 - s] = Null
    BY <1>1, <1>2, CallLinks
<1>4. b \in Kept \cup {Null} /\ b # at
  <2>1. Nd[at][s] \in Kept \cup {Null}
      BY <1>2, Shapes DEF Shape
  <2>2. Nd[at][s] # at
      BY <1>2, Shapes, ChildSide
  <2> QED BY <1>3, <2>1, <2>2
<1>5. path # <<>> => /\ Head(path) = path[1] /\ path[1] \in Kept /\ path[1] # at
                     /\ Nd[path[1]][Side(path[1])] = at
    BY Around
<1>6. ASSUME NEW z \in Kept \ {at}, NEW u \in Sides
      PROVE  Nd'[z][u] = IF Nd[z][u] = at THEN b ELSE Nd[z][u]
  <2>1. /\ z \in Nodes /\ child'[z][u] = child[z][u] /\ Side(z)' = Side(z)
        /\ Nd[z][u] = child[z][u]
      BY <1>6, Keyed, CallLinks DEF Side
  <2>2. Nd'[z][u] = IF path # <<>> /\ z = Head(path) /\ u = Side(z) THEN b ELSE Nd[z][u]
      BY <1>1, <2>1, LinksNext
  <2>3. CASE Nd[z][u] = at
      BY <2>2, <2>3, Parent
  <2>4. CASE Nd[z][u] # at
      BY <1>5, <2>2, <2>4
  <2> QED BY <2>3, <2>4
<1>7. Root' = IF Root = at THEN b ELSE Root
  <2>1. CASE path = <<>>
      BY <1>1, <2>1 DEF Root
  <2>2. CASE path # <<>>
    <3>1. Root # at
        BY <1>5, <2>2, Sided, Shapes DEF Shape
    <3> QED BY <2>2, <3>1 DEF Root
  <2> QED BY <2>1, <2>2
<1>8. TreeInv'
  <2>1. Spliced(Kept, Root, Nd, at, s, Root', Nd')
      BY <1>2, <1>3, <1>6, <1>7 DEF Spliced, Relinked
  <2>2. SearchTree(Kept \ {at}, Root', Nd', key)
      BY <2>1, Shapes, SpliceTree
  <2>3. \A z \in Kept \ {at} : key'[z] = key[z]
      OBVIOUS
  <2>4. SearchTree(Kept \ {at}, Root', Nd', key')
      BY <2>2, <2>3, SameTree
  <2> QED BY <2>4 DEF TreeInv
<1>9. Frames'
  <2> SUFFICES ASSUME path # <<>>
               PROVE  Way(Kept', root, Nd', key', wanted, path, Len(path))
      BY DEF Frames
  <2>1. PICK q, k : q = path /\ k = Len(path)
      OBVIOUS
  <2>2. /\ Way(Kept, root, Nd, key, wanted, q, k) /\ k \in Nat \ {0} /\ Head(path) = q[1]
        /\ \A n \in 1..k : q[n] # at
      BY <2>1, Around
  <2>3. \A n \in 1..k : q[n] \in Kept /\ q[n] \in Kept' /\ key'[q[n]] = key[q[n]]
      BY <2>2 DEF Way
  <2>4. ASSUME NEW n \in 2..k, NEW u \in Sides PROVE Nd'[q[n]][u] = Nd[q[n]][u]
    <3>1. n \in 1..k /\ 1 \in 1..k /\ n # 1
        BY <2>2
    <3>2. q[n] # q[1] /\ q[n] \in Kept \ {at}
        BY <2>2, <3>1 DEF Way
    <3>3. Nd[q[n]][u] # at
        BY <2>2, <3>2, Parent
    <3> QED BY <1>6, <3>2, <3>3
  <2>5. Way(Kept', root, Nd', key', wanted, q, k)
      BY <2>2, <2>3, <2>4, SameWay
  <2> QED BY <2>1, <2>5
<1>10. Places' /\ Called' /\ Sought'
    BY <1>1, <1>4 DEF IInv, Places, Called, Sought
<1>11. /\ Expects(e)' /\ e \in Nat
       /\ \A z \in Kept : z # at /\ (path # <<>> => z # path[1]) => Steady(z)'
    BY <1>1, CallReturns
<1>12. Balanced'
  <2> SUFFICES ASSUME NEW z \in Kept', z \notin Unsteady' PROVE Steady(z)'
      BY DEF Balanced
  <2>1. path # <<>> => z # path[1]
      BY <1>5 DEF Unsteady
  <2> QED BY <1>11, <2>1
<1>13. ReturnHeights'
  <2>1. at \notin Unsteady
      BY <1>2, <1>5, Rotations DEF Unsteady
  <2>2. /\ height[at] = Larger(HeightOf(child[at][s]), HeightOf(child[at][1 - s])) + 1
        /\ HeightOf(child[at][s]) - HeightOf(child[at][1 - s]) \in {-1, 0, 1}
        /\ HeightOf(child[at][s]) \in Nat /\ HeightOf(at) = height[at]
      BY <1>2, <2>1, SteadySides
  <2>3. HeightOf(child[at][1 - s]) = 0
      BY DEF HeightOf
  <2>4. PICK h : h = HeightOf(b)
      OBVIOUS
  <2>5. e = Larger(h, 0) + 1 /\ h \in Nat
      BY <1>1, <2>2, <2>3, <2>4
  <2>6. e - h \in {-1, 0, 1}
      BY <2>5 DEF Larger
  <2>7. HeightOf(at)' = h
      BY <1>1, <1>4, <2>4 DEF HeightOf
  <2> QED BY <1>11, <2>6, <2>7 DEF ReturnHeights
<1>14. BalanceHeights' /\ TurnHeights'
    BY Rotations DEF BalanceHeights, TurnHeights
<1> QED BY <1>8, <1>9, <1>10, <1>12, <1>13, <1>14 DEF Heights

LEMMA EraseLastStep == ASSUME IInv, EraseLast PROVE IInv'
<1>1. /\ place = "call" /\ op = "erase" /\ gone = Null /\ at # Null /\ key[at] = wanted
      /\ child[at][1] = Null /\ at' = child[at][0] /\ place' = "return"
      /\ live' = live \ {at}
      /\ UNCHANGED <<root, op, wanted, given, path, gone, low, next>>
    BY DEF EraseLast, Destroy, Calling, Return, callVars, goneVars
<1>2. TypeOK'
    BY ChangingType DEF Changing
<1>3. at \in live /\ at \in Nodes /\ Kept = live /\ next = Null
    BY <1>1, Doomed DEF EraseLast
<1>4. Kept' = Kept \ {at}
    BY <1>1, <1>3, Typed DEF Kept
<1>5. \A z \in Kept : z # at => /\ key'[z] = key[z] /\ height'[z] = height[z]
                                /\ \A u \in Sides : child'[z][u] = child[z][u]
    BY <1>3, Keyed, Typed DEF EraseLast, Blank
<1>6. PICK s \in Sides : s = 0 /\ 1 - s = 1
    BY DEF Sides
<1>7. TreeInv' /\ Frames' /\ Heights' /\ Places' /\ Called' /\ Sought'
    BY <1>1, <1>2, <1>4, <1>5, <1>6, SpliceStep
<1>8. Replacing'
    BY <1>1, <1>3 DEF Replacing
<1> QED BY <1>2, <1>7, <1>8 DEF IInv

LEMMA UnlinkStep == ASSUME IInv, Unlink PROVE IInv'
<1>1. /\ place = "call" /\ gone # Null /\ child[at][0] = Null
      /\ at' = child[at][1] /\ place' = "return" /\ next' = at
      /\ UNCHANGED <<child, height, key, root, size, live, op, wanted, given, path, gone, low>>
    BY DEF Unlink, Return, nodeVars, callVars
<1>2. TypeOK'
    BY ChangingType DEF Changing
<1>3. /\ op = "erase" /\ at # Null /\ next = Null /\ gone \in Nodes \ live /\ key[gone] = wanted
      /\ low = child[gone][0]
    BY <1>1 DEF IInv, Places, Replacing
<1>4. at \in live /\ at # gone /\ wanted < key[at] /\ path # <<>> /\ wanted \in Int
    BY <1>1, <1>3, Beyond, Wanted
<1>5. Kept' = Kept \ {at} /\ at \in Kept /\ gone \in Kept
    BY <1>1, <1>3, <1>4, Typed DEF Kept
<1>6. PICK s \in Sides : s = 1 /\ 1 - s = 0
    BY DEF Sides
<1>7. TreeInv' /\ Frames' /\ Heights' /\ Places' /\ Called' /\ Sought'
    BY <1>1, <1>2, <1>3, <1>5, <1>6, SpliceStep
<1>8. ASSUME NEW t \in Kept, t # at PROVE t = gone \/ key[t] < wanted \/ key[at] < key[t]
  <2>1. PICK q, m : q = <<at>> \o path /\ m = Len(path) + 1
      OBVIOUS
  <2>2. Way(Kept, Root, Nd, key, wanted, q, m) /\ q[1] = at
      BY <1>3, <1>5, <2>1, AtWay, Typed, Keyed, PathFacts
  <2>3. Nd[q[1]][0] = Null
      BY <1>1, <1>5, <2>2, Keyed, CallLinks DEF Sides
  <2>4. wanted < key[t] => key[at] < key[t]
      BY <1>4, <1>8, <2>2, <2>3, Shapes, WayNext
  <2>5. t # gone => key[t] # wanted
      BY <1>3, <1>5, Shapes DEF Shape
  <2>6. key[t] \in Int
      BY Keyed
  <2> QED BY <1>4, <2>4, <2>5, <2>6
<1>9. Replacing'
  <2>1. \E n \in 1..Len(path) : path[n] = gone /\ \A i \in 1..n - 1 : wanted < key[path[i]]
      BY <1>1 DEF IInv, Replacing
  <2> QED BY <1>1, <1>3, <1>4, <1>5, <1>8, <2>1 DEF Replacing
<1> QED BY <1>2, <1>7, <1>9 DEF IInv

----------------------------------------------------------------------------
(* Rotations                                                               *)

\* D: the nodes that a rotation changes.  Only the first of them is the child of
\* a node that stays.
Apart(D) ==
    /\ at \in D /\ D \subseteq Kept
    /\ \A n \in 1..Len(path) : path[n] \notin D
    /\ \A z \in Kept \ D, u \in Sides : Nd[z][u] \in D => Nd[z][u] = at

LEMMA TurnKeeps ==
    ASSUME IInv, TypeOK', Balancing, NEW D, Apart(D),
           place' # "call", at' \in Kept,
           UNCHANGED <<key, root, live, op, wanted, given, path, gone, low, next>>,
           \A z \in Kept \ D : /\ height'[z] = height[z]
                               /\ \A u \in Sides : child'[z][u] = child[z][u]
    PROVE  /\ Kept' = Kept /\ Frames' /\ Places' /\ Called' /\ Replacing' /\ Sought'
           /\ \A d : Expects(d) => Expects(d)'
           /\ \A z \in Kept \ D : z \notin Unsteady => Steady(z)'
           /\ \A z \in Kept \ D, u \in Sides : Nd'[z][u] = IF Nd[z][u] = at THEN at' ELSE Nd[z][u]
           /\ \A z \in D, u \in Sides : Nd'[z][u] = child'[z][u] /\ Nd[z][u] = child[z][u]
<1>1. Kept' = Kept
    BY KeepKept
<1>2. /\ op \in {"insert", "erase"} /\ at # Null /\ at \in Kept /\ at \in Nodes /\ at \in D
    BY BalancedNode DEF Apart
<1>3. path # <<>> => /\ Head(path) = path[1] /\ path[1] \in Kept \ D /\ path[1] \in Nodes
                     /\ Len(path) \in Nat \ {0} /\ 1 \in 1..Len(path)
                     /\ Nd[path[1]][Side(path[1])] = at
    BY Around DEF Apart
<1>4. \A x : Side(x)' = Side(x)
    BY DEF Side
<1>5. ASSUME NEW z \in Kept \ D, NEW u \in Sides
      PROVE  Nd'[z][u] = IF Nd[z][u] = at THEN at' ELSE Nd[z][u]
  <2>1. z \in Nodes /\ child'[z][u] = child[z][u]
      BY <1>5, Keyed
  <2>2. Nd'[z][u] = IF path # <<>> /\ z = Head(path) /\ u = Side(z) THEN at' ELSE Nd[z][u]
      BY <1>4, <2>1, LinksNext, LinkFacts DEF IInv
  <2>3. CASE Nd[z][u] = at
      BY <1>2, <2>2, <2>3, Parent
  <2>4. CASE Nd[z][u] # at
      BY <1>3, <2>2, <2>4
  <2> QED BY <2>3, <2>4
<1>6. ASSUME NEW z \in D, NEW u \in Sides PROVE Nd'[z][u] = child'[z][u] /\ Nd[z][u] = child[z][u]
  <2>1. z \in Nodes /\ (path # <<>> => z # Head(path))
      BY <1>3, <1>6, Keyed DEF Apart
  <2> QED BY <2>1, LinksNext, LinkFacts DEF IInv
<1>7. ASSUME NEW z \in Kept \ D, NEW u \in Sides, ~(path # <<>> /\ z = path[1] /\ u = Side(z))
      PROVE  Nd[z][u] = child[z][u] /\ child[z][u] \in (Kept \cup {Null}) \ D
  <2>1. z \in Nodes
      BY Keyed
  <2>2. Nd[z][u] = child[z][u]
      BY <1>3, <1>7, <2>1, LinkFacts DEF IInv
  <2>3. Nd[z][u] # at
      BY <1>2, <1>3, <1>7, Parent
  <2>4. Nd[z][u] \in Kept \cup {Null} /\ Nd[z][u] \notin D
      BY <2>3, Shapes DEF Apart, Shape
  <2> QED BY <2>2, <2>4
<1>8. \A z \in (Kept \cup {Null}) \ D : HeightOf(z)' = HeightOf(z)
    BY DEF HeightOf
<1>9. ASSUME NEW d, Expects(d) PROVE Expects(d)'
  <2> SUFFICES ASSUME path # <<>> PROVE Expects(d)'
      BY DEF Expects
  <2>1. PICK x, s, r : x = path[1] /\ s = Side(x) /\ r = child[x][1 - s]
      OBVIOUS
  <2>2. x \in Kept \ D /\ x = Head(path) /\ s \in Sides /\ 1 - s \in Sides /\ 1 - s # s
      BY <1>3, <2>1, Sided, SideFacts
  <2>3. r \in (Kept \cup {Null}) \ D
      BY <1>7, <2>1, <2>2
  <2>4. HeightOf(r)' = HeightOf(r) /\ child'[x][1 - s] = r /\ height'[x] = height[x] /\ Side(x)' = s
      BY <1>4, <1>8, <2>1, <2>2, <2>3
  <2>5. HeightOf(child[x][1 - Side(x)])' = HeightOf(r)
      BY <2>4 DEF HeightOf
  <2>6. d - HeightOf(r) \in {-1, 0, 1} /\ height[x] = Larger(d, HeightOf(r)) + 1
      BY <1>9, <2>1, <2>2 DEF Expects
  <2> QED BY <2>2, <2>4, <2>5, <2>6 DEF Expects
<1>10. ASSUME NEW z \in Kept \ D, z \notin Unsteady PROVE Steady(z)'
  <2>1. z \in Nodes /\ Steady(z)
      BY <1>10, Keyed DEF IInv, Heights, Balanced
  <2>2. path # <<>> => z # path[1]
    <3>1. place # "call"
        BY DEF Balancing
    <3> QED BY <1>3, <1>10, <3>1 DEF Unsteady
  <2>3. \A u \in Sides : child[z][u] \in (Kept \cup {Null}) \ D
      BY <1>7, <2>2
  <2> QED BY <2>1, <2>3, StillSteady
<1>11. Frames'
  <2> SUFFICES ASSUME path # <<>>
               PROVE  Way(Kept', root, Nd', key', wanted, path, Len(path))
      BY DEF Frames
  <2>1. PICK q, k : q = path /\ k = Len(path)
      OBVIOUS
  <2>2. /\ Way(Kept, root, Nd, key, wanted, q, k) /\ k \in Nat \ {0} /\ Head(path) = q[1]
      BY <2>1, Around
  <2>3. \A n \in 1..k : q[n] \in Kept \ D /\ q[n] \in Kept' /\ key'[q[n]] = key[q[n]]
      BY <1>1, <2>1, <2>2 DEF Way, Apart
  <2>4. ASSUME NEW n \in 2..k, NEW u \in Sides PROVE Nd'[q[n]][u] = Nd[q[n]][u]
    <3>1. n \in 1..k /\ 1 \in 1..k /\ n # 1
        BY <2>2
    <3>2. q[n] # q[1]
        BY <2>2, <3>1 DEF Way
    <3>3. Nd[q[n]][u] # at
        BY <1>2, <2>2, <2>3, <3>1, <3>2, Parent
    <3> QED BY <1>5, <2>3, <3>1, <3>3
  <2>5. Way(Kept', root, Nd', key', wanted, q, k)
      BY <2>2, <2>3, <2>4, SameWay
  <2> QED BY <2>1, <2>5
<1>12. Replacing'
  <2>1. CASE gone = Null
      BY <2>1 DEF IInv, Replacing
  <2>2. CASE gone # Null
    <3>1. place # "call"
        BY DEF Balancing
    <3>2. gone \in Kept /\ gone \notin D
      <4>1. PICK n \in 1..Len(path) : path[n] = gone
          BY <2>2 DEF IInv, Replacing
      <4> QED BY <2>2, <3>1, <4>1, Replaced DEF Apart
    <3>3. child'[gone][0] = child[gone][0]
        BY <3>2 DEF Sides
    <3> QED BY <1>1, <2>2, <3>1, <3>3 DEF IInv, Replacing
  <2> QED BY <2>1, <2>2
<1>13. Places'
    BY <1>1, <1>2, Keyed DEF IInv, Places
<1>14. Called' /\ Sought'
    BY <1>2 DEF Called, Sought
<1> QED BY <1>1, <1>5, <1>6, <1>9, <1>10, <1>11, <1>12, <1>13, <1>14

LEMMA TurnStep == ASSUME IInv, NEW j \in Sides, Turn(1 - j, j) PROVE IInv'
<1>1. PICK y, i, b, t, r, o : /\ y = child[at][j] /\ i = 1 - j /\ b = child[at][i]
                              /\ t = child[y][i] /\ r = child[y][j] /\ o = HeightOf(b)
    OBVIOUS
<1>2. PICK h, g : h = Larger(HeightOf(b), HeightOf(t)) + 1 /\ g = Larger(h, HeightOf(r)) + 1
    OBVIOUS
<1>3. /\ place = Rotation(j) \/ (place = "balance" /\ Leans(j) /\ ~LeansBack(j))
      /\ place' = "return"
      /\ UNCHANGED <<key, root, live, op, wanted, given, path, gone, low, next>>
    BY DEF Turn, Return, callVars, goneVars
<1>4. /\ Balancing /\ y # Null /\ o \in Nat /\ height[y] = o + 2
      /\ HeightOf(r) = o + 1
      /\ HeightOf(t) \in {o - 1, o, o + 1} /\ HeightOf(t) \in Nat
      /\ \E d \in {o + 2, o + 3} : Expects(d)
    BY <1>1, <1>3, Ready
<1>5. /\ TypeOK'
      /\ y \in Nodes /\ y # at /\ at' = y
      /\ \A x \in Nodes, s \in Sides :
            child'[x][s] = IF x = at /\ s = j THEN t
                           ELSE IF x = y /\ s = i THEN at ELSE child[x][s]
      /\ \A x \in Nodes : height'[x] = IF x = at THEN h ELSE IF x = y THEN g ELSE height[x]
    BY <1>1, <1>2, TurnLinks
<1>6. /\ op \in {"insert", "erase"} /\ at # Null /\ at \in Kept /\ at \in Nodes
      /\ i \in Sides /\ i # j /\ 1 - i = j /\ b \in Kept \cup {Null}
      /\ \A s \in Sides : Nd[at][s] = child[at][s]
    BY <1>1, <1>4, BalancedNode, SideFacts
<1>7. /\ y \in Kept /\ Root # y
      /\ \A n \in 1..Len(path) : y # path[n]
      /\ \A s \in Sides : Nd[y][s] = child[y][s]
      /\ t \in Kept \cup {Null} /\ t # at /\ t # y
      /\ r \in Kept \cup {Null} /\ r # at /\ r # y
    BY <1>1, <1>4, <1>6, BalancedChild
<1>8. b # at /\ b # y
  <2>1. b # at
      BY <1>1, <1>6, Shapes, ChildSide
  <2>2. b # y
      BY <1>1, <1>4, <1>6, Shapes DEF Shape
  <2> QED BY <2>1, <2>2
<1>9. PICK D : D = {at, y}
    OBVIOUS
<1>10. Apart(D)
  <2>1. \A n \in 1..Len(path) : path[n] \notin D
    <3>1. \A n \in 1..Len(path) : path[n] # at
      <4>1. CASE path = <<>>
          BY <4>1
      <4>2. CASE path # <<>>
          BY <1>6, <4>2, Around
      <4> QED BY <4>1, <4>2
    <3> QED BY <1>7, <1>9, <3>1
  <2>2. ASSUME NEW z \in Kept \ D, NEW u \in Sides PROVE Nd[z][u] # y
    <3>1. Nd[at][j] = y
        BY <1>1, <1>6
    <3> QED BY <1>4, <1>6, <1>9, <2>2, <3>1, Shapes DEF Shape
  <2> QED BY <1>6, <1>7, <1>9, <2>1, <2>2 DEF Apart
<1>11. \A z \in Kept \ D : /\ height'[z] = height[z]
                           /\ \A u \in Sides : child'[z][u] = child[z][u]
    BY <1>5, <1>9, Keyed
<1>12. /\ Kept' = Kept /\ Frames' /\ Places' /\ Called' /\ Replacing' /\ Sought'
       /\ \A d : Expects(d) => Expects(d)'
       /\ \A z \in Kept \ D : z \notin Unsteady => Steady(z)'
       /\ \A z \in Kept \ D, u \in Sides : Nd'[z][u] = IF Nd[z][u] = at THEN y ELSE Nd[z][u]
       /\ \A z \in D, u \in Sides : Nd'[z][u] = child'[z][u] /\ Nd[z][u] = child[z][u]
    BY <1>3, <1>4, <1>5, <1>7, <1>10, <1>11, TurnKeeps
<1>13. Root' = IF Root = at THEN y ELSE Root
  <2>1. CASE path = <<>>
      BY <1>3, <1>5, <1>6, <2>1 DEF Root
  <2>2. CASE path # <<>>
    <3>1. Nd[path[1]][Side(path[1])] = at /\ path[1] \in Kept /\ Side(path[1]) \in Sides
        BY <2>2, Around, Sided
    <3>2. Root # at
        BY <1>6, <3>1, Shapes DEF Shape
    <3> QED BY <1>3, <2>2, <3>2 DEF Root
  <2> QED BY <2>1, <2>2
<1>14. TreeInv'
  <2>1. /\ Nd'[at][i] = Nd[at][i] /\ Nd'[at][j] = Nd[y][i]
        /\ Nd'[y][i] = at /\ Nd'[y][j] = Nd[y][j] /\ y = Nd[at][j]
      BY <1>1, <1>5, <1>6, <1>7, <1>9, <1>12
  <2>2. Relinked(Kept \ {at, y}, Nd, Nd', at, y)
      BY <1>9, <1>12 DEF Relinked
  <2>3. Rotated(Kept, Root, Nd, at, y, j, Root', Nd')
      BY <1>1, <1>4, <1>6, <1>13, <2>1, <2>2 DEF Rotated
  <2>4. SearchTree(Kept, Root', Nd', key)
      BY <2>3, Shapes, RotationTree
  <2> QED BY <1>3, <1>12, <2>4 DEF TreeInv
<1>15. /\ HeightOf(b)' = o /\ HeightOf(t)' = HeightOf(t) /\ HeightOf(r)' = o + 1
       /\ HeightOf(at) = height[at] /\ height'[at] = h /\ height'[y] = g
  <2>1. \A z \in (Kept \cup {Null}) \ D : HeightOf(z)' = HeightOf(z)
      BY <1>11 DEF HeightOf
  <2>2. b \notin D /\ t \notin D /\ r \notin D
      BY <1>7, <1>8, <1>9
  <2> QED BY <1>1, <1>4, <1>5, <1>6, <1>7, <2>1, <2>2 DEF HeightOf
<1>16. PICK a : a = at
    OBVIOUS
<1>17. PICK v : v = HeightOf(t)
    OBVIOUS
<1>18. /\ h = Larger(o, v) + 1 /\ g = Larger(h, o + 1) + 1 /\ h \in Nat /\ g \in Nat
       /\ h \in {o + 1, o + 2} /\ g \in {o + 2, o + 3} /\ o - v \in {-1, 0, 1}
  <2>1. h = Larger(o, v) + 1 /\ v \in Nat /\ v \in {o - 1, o, o + 1}
      BY <1>1, <1>2, <1>4, <1>17
  <2>2. h \in {o + 1, o + 2} /\ h \in Nat /\ o - v \in {-1, 0, 1}
      BY <1>4, <2>1 DEF Larger
  <2>3. g = Larger(h, o + 1) + 1
      BY <1>2, <1>4
  <2>4. g \in {o + 2, o + 3} /\ g \in Nat
      BY <1>4, <2>2, <2>3 DEF Larger
  <2> QED BY <2>1, <2>2, <2>3, <2>4
<1>19. Steady(a)'
  <2>1. child'[a][i] = b /\ child'[a][j] = t /\ height'[a] = h
      BY <1>1, <1>5, <1>6, <1>15, <1>16
  <2>2. HeightOf(child[a][i])' = o /\ HeightOf(child[a][j])' = v
      BY <1>15, <1>17, <2>1 DEF HeightOf
  <2>3. CASE j = 0
    <3>1. i = 1
        BY <1>1, <2>3
    <3>2. Reheight(child[a])' = h /\ Bias(a)' = v - o
        BY <1>4, <1>17, <1>18, <2>2, <2>3, <3>1 DEF Reheight, Bias, Larger
    <3>3. v - o \in {-1, 0, 1}
        BY <1>4, <1>17, <1>18
    <3> QED BY <2>1, <3>2, <3>3 DEF Steady
  <2>4. CASE j = 1
    <3>1. i = 0
        BY <1>1, <2>4
    <3>2. Reheight(child[a])' = h /\ Bias(a)' = o - v
        BY <1>18, <2>2, <2>4, <3>1 DEF Reheight, Bias
    <3> QED BY <1>18, <2>1, <3>2 DEF Steady
  <2> QED BY <2>3, <2>4 DEF Sides
<1>20. Steady(y)'
  <2>1. child'[y][i] = a /\ child'[y][j] = r /\ height'[y] = g
      BY <1>1, <1>5, <1>6, <1>15, <1>16
  <2>2. HeightOf(a)' = h
      BY <1>6, <1>15, <1>16 DEF HeightOf
  <2>3. HeightOf(child[y][i])' = h /\ HeightOf(child[y][j])' = o + 1
      BY <1>15, <2>1, <2>2 DEF HeightOf
  <2>4. (o + 1) - h \in {-1, 0, 1} /\ h - (o + 1) \in {-1, 0, 1}
      BY <1>4, <1>18
  <2>5. Larger(o + 1, h) = Larger(h, o + 1)
      BY <1>4, <1>18 DEF Larger
  <2>6. CASE j = 0
    <3>1. i = 1
        BY <1>1, <2>6
    <3>2. Reheight(child[y])' = g /\ Bias(y)' = (o + 1) - h
        BY <1>18, <2>3, <2>5, <2>6, <3>1 DEF Reheight, Bias
    <3> QED BY <2>1, <2>4, <3>2 DEF Steady
  <2>7. CASE j = 1
    <3>1. i = 0
        BY <1>1, <2>7
    <3>2. Reheight(child[y])' = g /\ Bias(y)' = h - (o + 1)
        BY <1>18, <2>3, <2>7, <3>1 DEF Reheight, Bias
    <3> QED BY <2>1, <2>4, <3>2 DEF Steady
  <2> QED BY <2>6, <2>7 DEF Sides
<1>21. Balanced'
  <2> SUFFICES ASSUME NEW z \in Kept, z \notin Unsteady' PROVE Steady(z)'
      BY <1>12 DEF Balanced
  <2>1. CASE z \in D
      BY <1>9, <1>16, <1>19, <1>20, <2>1
  <2>2. CASE z \notin D
    <3>1. path # <<>> => z # Head(path)
        BY <1>3 DEF Unsteady
    <3>2. \A s \in Sides : place = Rotation(s) => s = j
      <4>1. "balance" \notin {Rotation(s) : s \in Sides}
          BY Rotations
      <4> QED BY <1>3, <4>1, RotationsDiffer
    <3>3. z \notin Unsteady
        BY <1>1, <1>9, <2>2, <3>1, <3>2 DEF Unsteady
    <3> QED BY <1>12, <2>2, <3>3
  <2> QED BY <2>1, <2>2
<1>22. ReturnHeights'
  <2>1. PICK d \in {o + 2, o + 3} : Expects(d)
      BY <1>4
  <2>2. Expects(d)' /\ d \in Nat
      BY <1>4, <1>12, <2>1
  <2>3. HeightOf(at)' = g
      BY <1>4, <1>5, <1>15 DEF HeightOf
  <2>4. d - g \in {-1, 0, 1}
      BY <1>4, <1>18, <2>1
  <2> QED BY <2>2, <2>3, <2>4 DEF ReturnHeights
<1>23. BalanceHeights' /\ TurnHeights'
    BY <1>3, Rotations DEF BalanceHeights, TurnHeights
<1> QED BY <1>5, <1>12, <1>14, <1>21, <1>22, <1>23 DEF IInv, Heights

LEMMA TurnChildStep == ASSUME IInv, NEW j \in Sides, TurnChild(1 - j, j) PROVE IInv'
<1>1. PICK y, i, m, b, r, p, q, o : /\ y = child[at][j] /\ i = 1 - j /\ m = child[y][i]
                                    /\ b = child[at][i] /\ r = child[y][j]
                                    /\ p = child[m][j] /\ q = child[m][i] /\ o = HeightOf(b)
    OBVIOUS
<1>2. PICK h, g : h = Larger(HeightOf(r), HeightOf(p)) + 1 /\ g = Larger(h, HeightOf(q)) + 1
    OBVIOUS
<1>3. /\ place = "balance" /\ Leans(j) /\ LeansBack(j) /\ place' = Rotation(j)
      /\ UNCHANGED <<key, root, live, op, wanted, given, at, path, gone, low, next>>
    BY DEF TurnChild, callVars, goneVars
<1>4. /\ Balancing /\ y # Null /\ m # Null /\ o \in Nat
      /\ height[at] = o + 3 /\ HeightOf(r) = o /\ HeightOf(m) = o + 1
      /\ \A s \in Sides : HeightOf(child[m][s]) \in Nat /\ HeightOf(child[m][s]) \in {o, o - 1}
      /\ m \in Kept /\ m \in Nodes
      /\ \E d \in {o + 2, o + 3} : Expects(d)
    BY <1>1, <1>3, ReadyChild
<1>5. /\ TypeOK'
      /\ y \in Nodes /\ m # y /\ m # at /\ y # at
      /\ \A x \in Nodes, s \in Sides :
            child'[x][s] = IF x = y /\ s = i THEN p
                           ELSE IF x = m /\ s = j THEN y
                           ELSE IF x = at /\ s = j THEN m ELSE child[x][s]
      /\ \A x \in Nodes : height'[x] = IF x = y THEN h ELSE IF x = m THEN g ELSE height[x]
  <2>1. Twice(j, y, m, h, g)
      BY <1>1, <1>2 DEF Twice
  <2>2. /\ TypeOK'
        /\ y \in Nodes /\ m # y /\ m # at /\ y # at
        /\ \A x \in Nodes, s \in Sides :
              child'[x][s] = IF x = y /\ s = 1 - j THEN child[m][j]
                             ELSE IF x = m /\ s = j THEN y
                             ELSE IF x = at /\ s = j THEN m ELSE child[x][s]
        /\ \A x \in Nodes : height'[x] = IF x = y THEN h ELSE IF x = m THEN g ELSE height[x]
      BY <2>1, TurnChildLinks
  <2> QED BY <1>1, <2>2
<1>6. /\ op \in {"insert", "erase"} /\ at # Null /\ at \in Kept /\ at \in Nodes
      /\ i \in Sides /\ i # j /\ 1 - i = j /\ b \in Kept \cup {Null}
      /\ \A s \in Sides : Nd[at][s] = child[at][s]
    BY <1>1, <1>4, BalancedNode, SideFacts
<1>7. /\ y \in Kept /\ Root # y /\ Nd[at][j] = y
      /\ \A n \in 1..Len(path) : y # path[n]
      /\ \A s \in Sides : Nd[y][s] = child[y][s]
      /\ r \in Kept \cup {Null} /\ r # at /\ r # y
    BY <1>1, <1>4, <1>6, BalancedChild
<1>8. \A n \in 1..Len(path) : at # path[n] /\ m # path[n]
  <2>1. CASE path = <<>>
      BY <2>1
  <2>2. CASE path # <<>>
    <3>1. PICK w, k : w = <<at>> \o path /\ k = Len(path) + 1
        OBVIOUS
    <3>2. Way(Kept, Root, Nd, key, wanted, w, k)
        BY <1>6, <3>1, AtWay
    <3>3. w[1] = at /\ \A n \in 1..Len(path) : n + 1 \in 1..k /\ w[n + 1] = path[n]
        BY <1>6, <3>1, Typed, PathFacts
    <3>4. \A n \in 1..k : y # w[n]
      <4>1. \A n \in 1..k : n = 1 \/ (n - 1 \in 1..Len(path) /\ w[n] = path[n - 1])
        <5>1. ASSUME NEW n \in 1..k, n # 1 PROVE n - 1 \in 1..Len(path) /\ (n - 1) + 1 = n
            BY <2>2, <3>1, <5>1, Around
        <5> QED BY <3>3, <5>1
      <4> QED BY <1>5, <1>7, <3>3, <4>1
    <3>5. Nd[y][i] = m /\ m # w[1]
        BY <1>1, <1>5, <1>6, <1>7, <3>3
    <3>6. \A n \in 1..k : m # w[n]
        BY <1>4, <1>6, <1>7, <3>2, <3>4, <3>5, Shapes, OffTheWay
    <3> QED BY <1>6, <2>2, <3>3, <3>6, Around
  <2> QED BY <2>1, <2>2
<1>9. \A s \in Sides : Nd[m][s] = child[m][s]
    BY <1>4, <1>8, Around, OwnLinks
<1>10. Nd[y][i] = m
    BY <1>1, <1>6, <1>7
<1>11. /\ p \in Kept \cup {Null} /\ p # m /\ p # y
       /\ q \in Kept \cup {Null} /\ q # m /\ q # y
  <2>1. p = Nd[m][j] /\ q = Nd[m][i]
      BY <1>1, <1>6, <1>9
  <2>2. p \in Kept \cup {Null} /\ q \in Kept \cup {Null}
      BY <1>4, <1>6, <2>1, Shapes DEF Shape
  <2>3. p # m /\ q # m
      BY <1>4, <1>6, <2>1, Shapes, ChildSide
  <2>4. p # y /\ q # y
      BY <1>4, <1>5, <1>6, <1>7, <2>1, Shapes DEF Shape
  <2> QED BY <2>2, <2>3, <2>4
<1>12. p # at /\ q # at /\ b # at /\ b # y /\ b # m /\ r # m
  <2>1. ASSUME NEW s \in Sides PROVE Nd[m][s] # at
    <3>1. path # <<>> => m # Head(path)
        BY <1>8, Around
    <3> QED BY <1>4, <1>6, <3>1, Parent
  <2>2. p # at /\ q # at
      BY <1>1, <1>6, <1>9, <2>1
  <2>3. b # at
      BY <1>1, <1>6, Shapes, ChildSide
  <2>4. b = Nd[at][i] /\ r = Nd[y][j]
      BY <1>1, <1>6, <1>7
  <2>5. b # y /\ b # m /\ r # m
      BY <1>4, <1>5, <1>6, <1>7, <1>10, <2>4, Shapes DEF Shape
  <2> QED BY <2>2, <2>3, <2>5
<1>13. PICK D : D = {at, y, m}
    OBVIOUS
<1>14. Apart(D)
  <2>1. \A n \in 1..Len(path) : path[n] \notin D
      BY <1>7, <1>8, <1>13
  <2>2. ASSUME NEW z \in Kept \ D, NEW u \in Sides PROVE Nd[z][u] # y /\ Nd[z][u] # m
      BY <1>4, <1>6, <1>7, <1>10, <1>13, <2>2, Shapes DEF Shape
  <2> QED BY <1>4, <1>6, <1>7, <1>13, <2>1, <2>2 DEF Apart
<1>15. \A z \in Kept \ D : /\ height'[z] = height[z]
                           /\ \A u \in Sides : child'[z][u] = child[z][u]
    BY <1>5, <1>13, Keyed
<1>16. place' # "call" /\ at' \in Kept /\ at' = at
    BY <1>3, <1>6, Rotations
<1>17. /\ Kept' = Kept /\ Frames' /\ Places' /\ Called' /\ Replacing' /\ Sought'
       /\ \A d : Expects(d) => Expects(d)'
       /\ \A z \in Kept \ D : z \notin Unsteady => Steady(z)'
       /\ \A z \in Kept \ D, u \in Sides : Nd'[z][u] = IF Nd[z][u] = at THEN at' ELSE Nd[z][u]
       /\ \A z \in D, u \in Sides : Nd'[z][u] = child'[z][u] /\ Nd[z][u] = child[z][u]
    BY <1>3, <1>4, <1>5, <1>14, <1>15, <1>16, TurnKeeps
<1>18. Root' = Root
    BY <1>3 DEF Root
<1>19. TreeInv'
  <2>1. /\ Nd'[at][i] = Nd[at][i] /\ Nd'[at][j] = m
        /\ Nd'[y][i] = Nd[m][j] /\ Nd'[y][j] = Nd[y][j]
        /\ Nd'[m][j] = y /\ Nd'[m][i] = Nd[m][i]
    <3>1. at \in D /\ y \in D /\ m \in D
        BY <1>13
    <3>2. /\ child'[at][i] = child[at][i] /\ child'[at][j] = m
          /\ child'[y][i] = p /\ child'[y][j] = child[y][j]
          /\ child'[m][j] = y /\ child'[m][i] = child[m][i]
        BY <1>4, <1>5, <1>6
    <3> QED BY <1>1, <1>6, <1>17, <3>1, <3>2
  <2>2. Relinked(Kept \ {y, m}, Nd, Nd', y, m)
    <3> SUFFICES ASSUME NEW z \in Kept \ {y, m}, NEW u \in Sides
                 PROVE  Nd'[z][u] = IF Nd[z][u] = y THEN m ELSE Nd[z][u]
        BY DEF Relinked
    <3>1. CASE z = at
        BY <1>1, <1>4, <1>6, <1>7, <1>12, <2>1, <3>1 DEF Sides
    <3>2. CASE z # at
      <4>1. z \in Kept \ D
          BY <1>13, <3>2
      <4>2. Nd[z][u] # y
          BY <1>6, <1>7, <3>2, <1>4, Shapes DEF Shape
      <4> QED BY <1>16, <1>17, <4>1, <4>2
    <3> QED BY <3>1, <3>2
  <2>3. Rotated(Kept, Root, Nd, y, m, i, Root', Nd')
      BY <1>4, <1>6, <1>7, <1>10, <1>18, <2>1, <2>2 DEF Rotated
  <2>4. SearchTree(Kept, Root', Nd', key)
      BY <2>3, Shapes, RotationTree
  <2> QED BY <1>3, <1>17, <2>4 DEF TreeInv
<1>20. PICK v, w : v = HeightOf(p) /\ w = HeightOf(q)
    OBVIOUS
<1>21. /\ HeightOf(b)' = o /\ HeightOf(r)' = o /\ HeightOf(p)' = v /\ HeightOf(q)' = w
       /\ HeightOf(y)' = h /\ height'[y] = h /\ height'[m] = g
  <2>1. \A z \in (Kept \cup {Null}) \ D : HeightOf(z)' = HeightOf(z)
      BY <1>15 DEF HeightOf
  <2>2. b \notin D /\ r \notin D /\ p \notin D /\ q \notin D
      BY <1>7, <1>11, <1>12, <1>13
  <2>3. height'[y] = h /\ height'[m] = g
      BY <1>4, <1>5
  <2> QED BY <1>1, <1>4, <1>6, <1>7, <1>11, <1>20, <2>1, <2>2, <2>3 DEF HeightOf
<1>22. /\ v \in Nat /\ w \in Nat /\ v \in {o, o - 1} /\ w \in {o, o - 1}
       /\ h = Larger(o, v) + 1 /\ h = o + 1 /\ g = o + 2
  <2>1. v \in Nat /\ w \in Nat /\ v \in {o, o - 1} /\ w \in {o, o - 1}
      BY <1>1, <1>4, <1>6, <1>20
  <2>2. h = Larger(o, v) + 1 /\ g = Larger(h, w) + 1
      BY <1>2, <1>4, <1>20
  <2>3. h = o + 1
      BY <1>4, <2>1, <2>2 DEF Larger
  <2>4. g = o + 2
      BY <1>4, <2>1, <2>2, <2>3 DEF Larger
  <2> QED BY <2>1, <2>2, <2>3, <2>4
<1>23. /\ child'[y][i] = p /\ child'[y][j] = r /\ child'[m][j] = y /\ child'[m][i] = q
       /\ child'[at][i] = b /\ child'[at][j] = m
    BY <1>1, <1>4, <1>5, <1>6
<1>24. Steady(y)'
  <2>1. HeightOf(child[y][i])' = v /\ HeightOf(child[y][j])' = o
      BY <1>21, <1>23 DEF HeightOf
  <2>2. Larger(v, o) = Larger(o, v) /\ v - o \in {-1, 0, 1} /\ o - v \in {-1, 0, 1}
      BY <1>4, <1>22 DEF Larger
  <2>3. CASE j = 0
    <3>1. i = 1
        BY <1>1, <2>3
    <3>2. Reheight(child[y])' = h /\ Bias(y)' = o - v
        BY <1>22, <2>1, <2>3, <3>1 DEF Reheight, Bias
    <3> QED BY <1>21, <2>2, <3>2 DEF Steady
  <2>4. CASE j = 1
    <3>1. i = 0
        BY <1>1, <2>4
    <3>2. Reheight(child[y])' = h /\ Bias(y)' = v - o
        BY <1>22, <2>1, <2>2, <2>4, <3>1 DEF Reheight, Bias
    <3> QED BY <1>21, <2>2, <3>2 DEF Steady
  <2> QED BY <2>3, <2>4 DEF Sides
<1>25. Balanced'
  <2> SUFFICES ASSUME NEW z \in Kept, z \notin Unsteady' PROVE Steady(z)'
      BY <1>17 DEF Balanced
  <2>1. z # at /\ z # m
      BY <1>3, <1>16, <1>23, Rotations DEF Unsteady
  <2>2. CASE z = y
      BY <1>24, <2>2
  <2>3. CASE z # y
    <3>1. path # <<>> => z # Head(path)
        BY <1>3, <1>16 DEF Unsteady
    <3>2. z \notin Unsteady
        BY <1>3, <2>1, <3>1, Rotations DEF Unsteady
    <3> QED BY <1>13, <1>17, <2>1, <2>3, <3>2
  <2> QED BY <2>2, <2>3
<1>26. TurnHeights'
  <2> SUFFICES ASSUME NEW u \in Sides, place' = Rotation(u)
               PROVE  (LET y_ == child[at][u]
                           o_ == HeightOf(child[at][1 - u])
                       IN  /\ y_ # Null /\ height[y_] = o_ + 2
                           /\ HeightOf(child[y_][u]) = o_ + 1
                           /\ HeightOf(child[y_][1 - u]) - o_ \in {-1, 0}
                           /\ \E d \in {o_ + 2, o_ + 3} : Expects(d))'
      BY DEF TurnHeights, Rotation
  <2>1. u = j
      BY <1>3, RotationsDiffer
  <2>2. PICK a : a = at
      OBVIOUS
  <2>3. child'[a][j] = m /\ child'[a][1 - j] = b /\ child'[m][1 - j] = q
      BY <1>1, <1>23, <2>2
  <2>4. HeightOf(child[a][1 - j])' = o /\ HeightOf(child[m][j])' = o + 1
      BY <1>21, <1>22, <1>23, <2>3 DEF HeightOf
  <2>5. HeightOf(child[m][1 - j])' = w
      BY <1>21, <2>3 DEF HeightOf
  <2>6. \E d \in {o + 2, o + 3} : Expects(d)'
      BY <1>4, <1>17
  <2>7. height'[m] = o + 2 /\ w - o \in {-1, 0}
      BY <1>4, <1>21, <1>22
  <2> QED BY <1>4, <1>16, <2>1, <2>2, <2>3, <2>4, <2>5, <2>6, <2>7
<1>27. ReturnHeights' /\ BalanceHeights'
    BY <1>3, Rotations DEF ReturnHeights, BalanceHeights
<1> QED BY <1>5, <1>17, <1>19, <1>25, <1>26, <1>27 DEF IInv, Heights

----------------------------------------------------------------------------
(* The tree is well-formed, always                                         *)

LEMMA InitStep == Init => IInv
<1> SUFFICES ASSUME Init PROVE IInv
    OBVIOUS
<1>1. TypeOK
  <2>1. IsFiniteSet({}) /\ Cardinality({}) = 0
      BY FS_EmptySet
  <2>2. 0 \in 0..N
      BY Numbers
  <2>3. path \in Seq(Nodes)
      BY DEF Init
  <2> QED BY <2>1, <2>2, <2>3 DEF Init, TypeOK, Links
<1>2. Kept = {} /\ Root = Null
    BY DEF Init, Kept, Root
<1>3. TreeInv
  <2>1. Shape(Kept, Root, Nd, key)
      BY <1>2 DEF Shape
  <2>2. Searchable(Kept, Root, Nd, key)
      BY <1>2 DEF Searchable
  <2> QED BY <2>1, <2>2 DEF TreeInv, SearchTree
<1>4. Frames /\ Called /\ Sought
    BY DEF Init, Frames, Called, Sought
<1>5. Places /\ Replacing
    BY DEF Init, Places, Replacing
<1>6. Heights
  <2>1. Balanced
      BY <1>2 DEF Balanced
  <2>2. ReturnHeights /\ BalanceHeights
      BY DEF Init, ReturnHeights, BalanceHeights
  <2>3. TurnHeights
      BY DEF Init, TurnHeights, Rotation
  <2> QED BY <2>1, <2>2, <2>3 DEF Heights
<1> QED BY <1>1, <1>3, <1>4, <1>5, <1>6 DEF IInv

LEMMA StepKeeps == IInv /\ [Next]_vars => IInv'
<1> SUFFICES ASSUME IInv, [Next]_vars PROVE IInv'
    OBVIOUS
<1>1. ASSUME NEW a \in Keys, Find(a) PROVE IInv'
  <2>1. Begin("find", a, Nothing)
      BY <1>1 DEF Find
  <2> QED BY <2>1, BeginStep
<1>2. ASSUME NEW a \in Keys, Erase(a) PROVE IInv'
  <2>1. Begin("erase", a, Nothing)
      BY <1>2 DEF Erase
  <2> QED BY <2>1, BeginStep
<1>3. ASSUME NEW a \in Keys, NEW b \in Values, Insert(a, b) PROVE IInv'
  <2>1. /\ Begin("insert", a, b)
        /\ (\E x \in live : key[x] = a) \/ (size < N /\ size \notin live)
      BY <1>3 DEF Insert
  <2> QED BY <2>1, BeginStep
<1>4. CASE Searching
    BY <1>4, SeekStep, FoundStep, DescendStep, GoLeftStep DEF Searching
<1>5. CASE Changing
    BY <1>5, CreateStep, OverwriteStep, MissingStep, EraseLastStep, EraseInnerStep, UnlinkStep
       DEF Changing
<1>6. ASSUME NEW j \in Sides, TurnChild(1 - j, j) \/ Turn(1 - j, j) PROVE IInv'
    BY <1>6, TurnStep, TurnChildStep
<1>7. CASE Ascend \/ Replace \/ Returned \/ Settle
    BY <1>7, AscendStep, ReplaceStep, ReturnedStep, SettleStep
<1>8. CASE UNCHANGED vars
  <2>1. UNCHANGED <<child, height, key, value, root, size, live, result, op, wanted, given, at,
                    place, path, gone, low, next>>
      BY <1>8 DEF vars, nodeVars, callVars, goneVars
  <2>2. TypeOK'
      BY <2>1 DEF IInv, TypeOK
  <2>3. Kept' = Kept /\ Root' = Root
      BY <2>1 DEF Kept, Root
  <2>4. \A x \in Nodes, s \in Sides : Nd'[x][s] = Nd[x][s]
      BY <2>1 DEF Nd, Link, Side
  <2>5. TreeInv'
      BY <2>1, <2>3, <2>4, Keyed, QuietTree
  <2>6. Nd' = Nd
      BY <2>1 DEF Nd, Link, Side
  <2>7. Frames' /\ Called' /\ Places' /\ Replacing' /\ Sought'
      BY <2>1, <2>3, <2>6 DEF IInv, Frames, Called, Places, Replacing, Sought, Side
  <2>8. Unsteady' = Unsteady
      BY <2>1 DEF Unsteady
  <2>9. \A x : Steady(x) => Steady(x)'
      BY <2>1 DEF Steady, Reheight, Bias, HeightOf
  <2>10. Balanced'
      BY <2>3, <2>8, <2>9 DEF IInv, Heights, Balanced
  <2>11. ASSUME NEW d, Expects(d) PROVE Expects(d)'
      BY <2>1, <2>11 DEF Expects, HeightOf, Side
  <2>12. ReturnHeights'
      BY <2>1, <2>11 DEF IInv, Heights, ReturnHeights, HeightOf
  <2>13. BalanceHeights'
      BY <2>1, <2>11 DEF IInv, Heights, BalanceHeights, Reheight, Bias, HeightOf
  <2>14. TurnHeights'
      BY <2>1, <2>11 DEF IInv, Heights, TurnHeights, HeightOf
  <2> QED BY <2>2, <2>5, <2>7, <2>10, <2>12, <2>13, <2>14 DEF IInv, Heights
<1> QED BY <1>1, <1>2, <1>3, <1>4, <1>5, <1>6, <1>7, <1>8 DEF Next, Returning

LEMMA SearchesEnd == IInv => SearchesMeet
<1> SUFFICES ASSUME IInv, NEW t \in Kept, NEW S \in SUBSET Kept,
                    Root = Null \/ Root \in S, Searched(key[t], S)
             PROVE  t \in S
    BY DEF SearchesMeet, Meets
<1>1. Follows(Nd, key, key[t], S)
  <2> SUFFICES ASSUME NEW x \in S, key[x] # key[t]
               PROVE  Nd[x][Toward(key[t], key[x])] \in S \cup {Null}
      BY DEF Follows
  <2>1. x \in Nodes
      BY Keyed
  <2>2. Link(x)[Toward(key[t], key[x])] \in S \cup {Null}
      BY DEF Searched, Toward
  <2> QED BY <2>1, <2>2 DEF Nd
<1> QED BY <1>1, Shapes DEF SearchTree, Searchable

LEMMA WellFormed == IInv => TreeWellFormed
<1> SUFFICES ASSUME IInv PROVE TreeWellFormed
    OBVIOUS
<1>1. \A x \in Kept : Nd[x] = Link(x) /\ x \in Nodes
    BY Keyed DEF Nd
<1>2. Shape(Kept, Root, Nd, key)
    BY Shapes
<1>3. LinkedOnce
  <2>1. Root \in Kept \cup {Null}
      BY <1>2 DEF Shape
  <2>2. \A x \in Kept, s \in Sides : Nd[x][s] \in (Kept \cup {Null}) \ ({Root} \ {Null})
      BY <1>2 DEF Shape
  <2>3. \A x, y \in Kept, s, u \in Sides :
           Nd[x][s] = Nd[y][u] /\ Nd[x][s] # Null => x = y /\ s = u
      BY <1>2 DEF Shape
  <2>4. \A x \in Kept, s \in Sides : Link(x)[s] \in (Kept \cup {Null}) \ ({Root} \ {Null})
      BY <1>1, <2>2
  <2>5. \A x, y \in Kept, s, u \in Sides :
           Link(x)[s] = Link(y)[u] /\ Link(x)[s] # Null => x = y /\ s = u
    <3> SUFFICES ASSUME NEW x \in Kept, NEW y \in Kept, NEW s \in Sides, NEW u \in Sides,
                        Link(x)[s] = Link(y)[u], Link(x)[s] # Null
                 PROVE  x = y /\ s = u
        OBVIOUS
    <3>1. Nd[x] = Link(x) /\ Nd[y] = Link(y)
        BY <1>1
    <3> QED BY <2>3, <3>1
  <2> QED BY <2>1, <2>4, <2>5 DEF LinkedOnce
<1>4. KeysDiffer
    BY <1>2 DEF Shape, KeysDiffer
<1> QED BY <1>3, <1>4, SearchesEnd DEF TreeWellFormed, IInv, Heights

\* After every call, return and rotation, the tree is a balanced search tree:
\* each node has one parent, and a search for its key from the root meets it.
THEOREM TreeCorrect == Spec => []TreeWellFormed
<1>1. Spec => []IInv
    BY InitStep, StepKeeps, PTL DEF Spec
<1> QED BY <1>1, WellFormed, PTL

----------------------------------------------------------------------------
(* The tree is a map                                                       *)

\* No two nodes have the same key, the one included that moves up to the place
\* of another.
LEMMA LiveKeys ==
    IInv => /\ \A x, y \in live : key[x] = key[y] => x = y
            /\ \A x \in live : key[x] \in Keys /\ value[x] \in Values
<1> SUFFICES ASSUME IInv PROVE \A x, y \in live : key[x] = key[y] => x = y
    BY DEF IInv, TypeOK
<1> SUFFICES ASSUME NEW x \in live, NEW y \in live, key[x] = key[y], x # y PROVE FALSE
    OBVIOUS
<1>1. x # next /\ y # next => x \in Kept /\ y \in Kept
    BY DEF Kept
<1>2. ASSUME NEW z \in live, NEW t \in live, z = next, t # next, key[t] = key[z] PROVE FALSE
  <2>1. next # Null /\ t \in Kept /\ t # gone
    <3>1. t \in Nodes /\ next \in Nodes /\ t \in Kept
        BY <1>2, Typed DEF Kept
    <3>2. gone \notin live
        BY <1>2, Typed DEF IInv, Replacing
    <3> QED BY <3>1, <3>2, Typed
  <2>2. key[t] < wanted \/ key[next] < key[t]
      BY <2>1 DEF IInv, Replacing
  <2>3. wanted < key[next] /\ key[t] = key[next]
      BY <1>2, <2>1 DEF IInv, Replacing
  <2>4. key[t] \in Int /\ wanted \in Int
    <3>1. op # "none"
        BY <2>1 DEF IInv, Replacing, Places
    <3> QED BY <2>1, <3>1, Keyed, Wanted
  <2> QED BY <2>2, <2>3, <2>4
<1>3. x # next \/ y # next
    OBVIOUS
<1>4. CASE x = next
    BY <1>2, <1>4
<1>5. CASE y = next
    BY <1>2, <1>5
<1>6. CASE x # next /\ y # next
    BY <1>1, <1>6, Shapes DEF Shape
<1> QED BY <1>4, <1>5, <1>6

LEMMA ContentsFacts ==
    IInv => /\ DOMAIN Contents = Keys /\ Contents = [a \in Keys |-> Contents[a]]
            /\ \A x \in live : key[x] \in Keys /\ Contents[key[x]] = value[x]
            /\ \A a \in Keys : (\A x \in live : key[x] # a) => Contents[a] = Nothing
<1> SUFFICES ASSUME IInv
             PROVE  /\ DOMAIN Contents = Keys /\ Contents = [a \in Keys |-> Contents[a]]
                    /\ \A x \in live : key[x] \in Keys /\ Contents[key[x]] = value[x]
                    /\ \A a \in Keys : (\A x \in live : key[x] # a) => Contents[a] = Nothing
    OBVIOUS
<1>1. DOMAIN Contents = Keys /\ Contents = [a \in Keys |-> Contents[a]]
    BY DEF Contents
<1>2. ASSUME NEW x \in live PROVE key[x] \in Keys /\ Contents[key[x]] = value[x]
  <2>1. key[x] \in Keys
      BY LiveKeys
  <2>2. PICK z : z = CHOOSE y \in live : key[y] = key[x]
      OBVIOUS
  <2>3. z \in live /\ key[z] = key[x]
      BY <2>2
  <2>4. Contents[key[x]] = value[z]
      BY <2>1, <2>2 DEF Contents
  <2> QED BY <2>1, <2>3, <2>4, LiveKeys
<1>3. ASSUME NEW a \in Keys, \A x \in live : key[x] # a PROVE Contents[a] = Nothing
    BY <1>3 DEF Contents
<1> QED BY <1>1, <1>2, <1>3

LEMMA ContentsNext ==
    IInv' => /\ DOMAIN Contents' = Keys /\ Contents' = [a \in Keys |-> Contents'[a]]
             /\ \A x \in live' : key'[x] \in Keys /\ Contents'[key'[x]] = value'[x]
             /\ \A a \in Keys : (\A x \in live' : key'[x] # a) => Contents'[a] = Nothing
<1>1. (IInv => /\ DOMAIN Contents = Keys /\ Contents = [a \in Keys |-> Contents[a]]
               /\ \A x \in live : key[x] \in Keys /\ Contents[key[x]] = value[x]
               /\ \A a \in Keys : (\A x \in live : key[x] # a) => Contents[a] = Nothing)'
    BY ContentsFacts, PTL
<1> QED BY <1>1

\* What a step does that changes the nodes with key k alone.
LEMMA ContentsChange ==
    ASSUME IInv, IInv', NEW k, NEW v \in Values \cup {Nothing},
           \A x \in live : key[x] # k => x \in live' /\ key'[x] = key[x] /\ value'[x] = value[x],
           \A x \in live' : key'[x] # k => x \in live /\ key[x] = key'[x],
           \A x \in live' : key'[x] = k => value'[x] = v,
           v = Nothing \/ \E x \in live' : key'[x] = k
    PROVE  Contents' = [Contents EXCEPT ![k] = v]
<1>1. DOMAIN Contents = Keys /\ Contents = [a \in Keys |-> Contents[a]]
    BY ContentsFacts
<1>2. DOMAIN Contents' = Keys /\ Contents' = [a \in Keys |-> Contents'[a]]
    BY ContentsNext
<1>3. ASSUME NEW a \in Keys, a # k PROVE Contents'[a] = Contents[a]
  <2>1. CASE \E x \in live : key[x] = a
    <3>1. PICK x \in live : key[x] = a
        BY <2>1
    <3>2. x \in live' /\ key'[x] = a /\ value'[x] = value[x]
        BY <1>3, <3>1
    <3>3. Contents[a] = value[x] /\ Contents'[a] = value'[x]
        BY <3>1, <3>2, ContentsFacts, ContentsNext
    <3> QED BY <3>2, <3>3
  <2>2. CASE \A x \in live : key[x] # a
    <3>1. \A x \in live' : key'[x] # a
        BY <1>3, <2>2
    <3> QED BY <2>2, <3>1, ContentsFacts, ContentsNext
  <2> QED BY <2>1, <2>2
<1>4. ASSUME k \in Keys PROVE Contents'[k] = v
  <2>1. CASE \E x \in live' : key'[x] = k
      BY <2>1, ContentsNext
  <2>2. CASE \A x \in live' : key'[x] # k
      BY <1>4, <2>2, ContentsNext
  <2> QED BY <2>1, <2>2
<1>5. \A a \in Keys : Contents'[a] = [Contents EXCEPT ![k] = v][a]
    BY <1>1, <1>3, <1>4
<1>6. [Contents EXCEPT ![k] = v] = [a \in Keys |-> [Contents EXCEPT ![k] = v][a]]
    BY <1>1
<1> QED BY <1>2, <1>5, <1>6

\* Nothing that a user can see.
LEMMA ContentsStay ==
    ASSUME IInv, IInv', live' = live,
           \A x \in live : key'[x] = key[x] /\ value'[x] = value[x]
    PROVE  Contents' = Contents
<1>1. DOMAIN Contents = Keys /\ Contents = [a \in Keys |-> Contents[a]]
    BY ContentsFacts
<1>2. DOMAIN Contents' = Keys /\ Contents' = [a \in Keys |-> Contents'[a]]
    BY ContentsNext
<1>3. ASSUME NEW a \in Keys PROVE Contents'[a] = Contents[a]
  <2>1. CASE \E x \in live : key[x] = a
      BY <2>1, ContentsFacts, ContentsNext
  <2>2. CASE \A x \in live : key[x] # a
    <3>1. \A x \in live' : key'[x] # a
        BY <2>2
    <3> QED BY <2>2, <3>1, ContentsFacts, ContentsNext
  <2> QED BY <2>1, <2>2
<1> QED BY <1>1, <1>2, <1>3

\* erase() gives its key no value.
Forgets == op = "erase" => given = Nothing

LEMMA ForgetsStep == Forgets /\ [Next]_vars => Forgets'
<1>1. ASSUME Forgets, UNCHANGED <<op, given>> PROVE Forgets'
    BY <1>1 DEF Forgets
<1>2. CASE \E a \in Keys : Find(a) \/ Erase(a) \/ \E b \in Values : Insert(a, b)
    BY <1>2 DEF Find, Erase, Insert, Begin, Forgets
<1>3. ASSUME Finish PROVE Forgets'
    BY <1>3 DEF Finish, Forgets
<1>4. ASSUME Forgets, Searching PROVE Forgets'
    BY <1>1, <1>3, <1>4 DEF Searching, Seek, Found, NotFound, Descend, GoLeft, callVars
<1>5. ASSUME Forgets, Changing PROVE Forgets'
    BY <1>1, <1>5 DEF Changing, Create, Overwrite, Missing, EraseLast, EraseInner, Unlink, callVars
<1>6. ASSUME Forgets, Returning PROVE Forgets'
    BY <1>1, <1>3, <1>6 DEF Returning, Ascend, Replace, Returned, Settle, TurnChild, Turn, callVars
<1>7. ASSUME Forgets, UNCHANGED vars PROVE Forgets'
    BY <1>1, <1>7 DEF vars, callVars
<1> QED BY <1>2, <1>4, <1>5, <1>6, <1>7 DEF Next

\* Both values of Done are truth values.
LEMMA DoneIs == Done /\ Done' => Done' = Done
BY DEF Done

\* The step at which insert() or erase() takes effect on the map.
LEMMA TakesEffect ==
    ASSUME op \in {"insert", "erase"}, ~Done, Done', UNCHANGED callVars,
           Contents' = [Contents EXCEPT ![wanted] = given], result' = Contents[wanted]
    PROVE  Map!Next
BY DEF Map!Next, Map!Assign, callVars

LEMMA ChangingIsMap ==
    ASSUME IInv, IInv', Forgets, Changing PROVE Map!Next \/ UNCHANGED Map!vars
<1>1. CASE Create
  <2>1. /\ op = "insert" /\ op # "none" /\ wanted \in Keys /\ given \in Values
        /\ size \in Nodes /\ size \notin live /\ \A x \in live : key[x] # wanted
      BY <1>1, RoomThere DEF Create, Calling, IInv, Places
  <2>2. /\ key'[size] = wanted /\ value'[size] = given /\ live' = live \cup {size}
        /\ \A x \in live : key'[x] = key[x] /\ value'[x] = value[x]
      BY <1>1, <2>1, Typed DEF Create
  <2>3. Contents' = [Contents EXCEPT ![wanted] = given]
      BY <2>1, <2>2, ContentsChange
  <2>4. result' = Contents[wanted]
      BY <1>1, <2>1, ContentsFacts DEF Create
  <2>5. ~Done /\ Done' /\ UNCHANGED callVars
      BY <1>1 DEF Create, Calling, Return, Done
  <2> QED BY <2>1, <2>3, <2>4, <2>5, TakesEffect
<1>2. CASE Overwrite
  <2>1. /\ op = "insert" /\ op # "none" /\ wanted \in Keys /\ given \in Values
        /\ at \in live /\ at \in Nodes /\ key[at] = wanted
      BY <1>2, Doomed DEF Overwrite, Calling, IInv, Places
  <2>2. /\ value'[at] = given /\ live' = live /\ key' = key
        /\ \A x \in live : x # at => value'[x] = value[x]
      BY <1>2, <2>1, Typed DEF Overwrite
  <2>3. \A x \in live : key[x] = wanted => x = at
      BY <2>1, LiveKeys
  <2>4. Contents' = [Contents EXCEPT ![wanted] = given]
      BY <2>1, <2>2, <2>3, ContentsChange
  <2>5. result' = Contents[wanted]
      BY <1>2, <2>1, ContentsFacts DEF Overwrite
  <2>6. ~Done /\ Done' /\ UNCHANGED callVars
      BY <1>2 DEF Overwrite, Calling, Return, Done
  <2> QED BY <2>1, <2>4, <2>5, <2>6, TakesEffect
<1>3. CASE Missing
  <2>1. /\ op = "erase" /\ wanted \in Keys /\ given = Nothing
        /\ \A x \in live : key[x] # wanted
      BY <1>3, Absent DEF Missing, Calling, IInv, Places, Forgets
  <2>2. Contents' = [Contents EXCEPT ![wanted] = given]
    <3>1. live' = live /\ key' = key /\ value' = value
        BY <1>3 DEF Missing, nodeVars
    <3> QED BY <2>1, <3>1, ContentsChange
  <2>3. result' = Contents[wanted]
      BY <1>3, <2>1, ContentsFacts DEF Missing
  <2>4. ~Done /\ Done' /\ UNCHANGED callVars
      BY <1>3 DEF Missing, Calling, Return, Done
  <2> QED BY <2>1, <2>2, <2>3, <2>4, TakesEffect
<1>4. ASSUME EraseLast \/ EraseInner
      PROVE  Map!Next
  <2>1. /\ op = "erase" /\ wanted \in Keys /\ given = Nothing
        /\ at \in live /\ at \in Nodes /\ key[at] = wanted
      BY <1>4, Doomed DEF EraseLast, EraseInner, Calling, IInv, Places, Forgets
  <2>2. /\ live' = live \ {at} /\ result' = value[at]
        /\ \A x \in live : x # at => key'[x] = key[x] /\ value'[x] = value[x]
      BY <1>4, Typed DEF EraseLast, EraseInner, Destroy, Blank, nodeVars
  <2>3. \A x \in live : key[x] = wanted => x = at
      BY <2>1, LiveKeys
  <2>4. Contents' = [Contents EXCEPT ![wanted] = given]
      BY <2>1, <2>2, <2>3, ContentsChange
  <2>5. result' = Contents[wanted]
      BY <2>1, <2>2, ContentsFacts
  <2>6. ~Done /\ Done' /\ UNCHANGED callVars
    <3>1. at # Null
        BY <1>4 DEF EraseLast, EraseInner
    <3> QED BY <1>4, <3>1 DEF EraseLast, EraseInner, Calling, Return, Done
  <2> QED BY <2>1, <2>4, <2>5, <2>6, TakesEffect
<1>5. CASE Unlink
  <2>1. Contents' = Contents /\ result' = result /\ UNCHANGED callVars
      BY <1>5, ContentsStay DEF Unlink, nodeVars
  <2>2. Done /\ Done'
      BY <1>5 DEF Unlink, Return, Done
  <2> QED BY <2>1, <2>2, DoneIs DEF Map!vars, callVars
<1> QED BY <1>1, <1>2, <1>3, <1>4, <1>5 DEF Changing

LEMMA SearchingIsMap ==
    ASSUME IInv, IInv', Searching PROVE Map!Next \/ UNCHANGED Map!vars
<1>1. Contents' = Contents
    BY ContentsStay DEF Searching, Seek, Found, NotFound, Descend, GoLeft, nodeVars
<1>2. CASE Found
  <2>1. /\ op = "find" /\ at # Null /\ wanted \in Keys /\ at \in live /\ key[at] = wanted
      BY <1>2 DEF Found, Calling, IInv, Places, Kept
  <2>2. result' = Contents[wanted]
      BY <1>2, <2>1, ContentsFacts DEF Found
  <2>3. Map!End
      BY <1>2 DEF Found, Calling, Finish, goneVars, Done, Map!End
  <2> QED BY <1>1, <2>1, <2>2, <2>3 DEF Map!Next, Map!Find
<1>3. CASE NotFound
  <2>1. /\ op = "find" /\ wanted \in Keys /\ at = Null /\ gone = Null /\ next = Null
      BY <1>3 DEF NotFound, Calling, IInv, Places, Replacing
  <2>2. ASSUME NEW x \in live, key[x] = wanted PROVE FALSE
    <3>1. x \in Kept
        BY <2>1, Whole
    <3>2. Follows(Nd, key, wanted, {}) /\ {} \in SUBSET Kept
        BY DEF Follows
    <3> QED BY <2>1, <2>2, <3>1, <3>2 DEF IInv, Sought
  <2>3. result' = Contents[wanted]
      BY <1>3, <2>1, <2>2, ContentsFacts DEF NotFound
  <2>4. Map!End
      BY <1>3 DEF NotFound, Calling, Finish, goneVars, Done, Map!End
  <2> QED BY <1>1, <2>1, <2>3, <2>4 DEF Map!Next, Map!Find
<1>4. CASE Seek \/ Descend \/ GoLeft
  <2>1. UNCHANGED <<result, callVars, place, gone>>
      BY <1>4 DEF Seek, Descend, GoLeft, goneVars
  <2> QED BY <1>1, <2>1 DEF Map!vars, callVars, Done
<1> QED BY <1>2, <1>3, <1>4 DEF Searching

\* A replaced node is none of the constructed ones when its key is forgotten.
LEMMA ReturningStays ==
    ASSUME IInv, IInv', Returning PROVE UNCHANGED <<Contents, result>>
<1>1. ASSUME live' = live, key' = key, value' = value, result' = result
      PROVE  UNCHANGED <<Contents, result>>
    BY <1>1, ContentsStay
<1>2. CASE Ascend
    BY <1>1, <1>2 DEF Ascend
<1>3. CASE Replace
  <2>1. gone # Null /\ gone \notin live
    <3>1. path # <<>> /\ Head(path) = gone
        BY <1>3 DEF Replace
    <3>2. gone # Null
        BY <3>1, Around, Typed
    <3> QED BY <3>2 DEF IInv, Replacing
  <2>2. /\ live' = live /\ result' = result
        /\ \A x \in live : key'[x] = key[x] /\ value'[x] = value[x]
      BY <1>3, <2>1, Typed DEF Replace
  <2> QED BY <2>2, ContentsStay
<1>4. CASE Returned \/ Settle
    BY <1>1, <1>4 DEF Returned, Settle, nodeVars
<1>5. ASSUME NEW j \in Sides, TurnChild(1 - j, j) \/ Turn(1 - j, j)
      PROVE  UNCHANGED <<Contents, result>>
    BY <1>1, <1>5 DEF TurnChild, Turn
<1> QED BY <1>2, <1>3, <1>4, <1>5 DEF Returning

\* Only the return to the user ends an operation that has taken effect.
LEMMA ReturningIsMap ==
    ASSUME IInv, IInv', Returning PROVE Map!Next \/ UNCHANGED Map!vars
<1>1. UNCHANGED <<Contents, result>>
    BY ReturningStays
<1>2. CASE Returned
  <2>1. gone = Null
    <3>1. path = <<>> /\ Len(path) = 0
        BY <1>2 DEF Returned
    <3> QED BY <3>1 DEF IInv, Replacing
  <2>2. Done /\ Map!End
      BY <1>2, <2>1 DEF Returned, Finish, goneVars, Done, Map!End
  <2> QED BY <1>1, <2>2 DEF Map!Next, Map!Return
<1>3. ASSUME place # "call", place' # "call", UNCHANGED callVars PROVE UNCHANGED Map!vars
  <2>1. Done /\ Done'
      BY <1>3 DEF Done
  <2> QED BY <1>1, <1>3, <2>1, DoneIs DEF Map!vars, callVars
<1>4. \A j : Rotation(j) # "call"
    BY DEF Rotation
<1>5. CASE Ascend \/ Replace \/ Settle
    BY <1>3, <1>5 DEF Ascend, Replace, Settle, BalanceWith
<1>6. ASSUME NEW j \in Sides, TurnChild(1 - j, j) \/ Turn(1 - j, j) PROVE UNCHANGED Map!vars
  <2>1. place # "call" /\ place' # "call" /\ UNCHANGED callVars
      BY <1>4, <1>6 DEF TurnChild, Turn, Return
  <2> QED BY <1>3, <2>1
<1> QED BY <1>2, <1>5, <1>6 DEF Returning

\* insert(), erase() and find() are those of a map: each takes effect once, on
\* the key it was called with, and returns what that key had before, whatever
\* the rotations have moved in between (avl_tree.hpp, lines 66-100).
THEOREM TreeIsMap == Spec => ImplementsMap
<1>1. Init => Map!Init /\ Forgets
    BY DEF Init, Map!Init, Contents, Done, Forgets
<1>2. ASSUME IInv, IInv', Forgets, [Next]_vars PROVE [Map!Next]_Map!vars
  <2>1. CASE \E a \in Keys : Find(a) \/ Erase(a) \/ \E b \in Values : Insert(a, b)
    <3>1. UNCHANGED <<live, key, value, result, place, gone>>
        BY <2>1 DEF Find, Erase, Insert, Begin, nodeVars, goneVars
    <3>2. UNCHANGED <<Contents, result, Done>>
        BY <1>2, <3>1, ContentsStay DEF Done
    <3>3. \E a \in Keys : \/ Map!Call("find", a, Nothing) \/ Map!Call("erase", a, Nothing)
                          \/ \E b \in Values : Map!Call("insert", a, b)
        BY <2>1, <3>2 DEF Find, Erase, Insert, Begin, Map!Call
    <3> QED BY <3>3 DEF Map!Next
  <2>2. CASE Searching
      BY <1>2, <2>2, SearchingIsMap
  <2>3. CASE Changing
      BY <1>2, <2>3, ChangingIsMap
  <2>4. CASE Returning
      BY <1>2, <2>4, ReturningIsMap
  <2>5. CASE UNCHANGED vars
    <3>1. UNCHANGED <<live, key, value, result, place, gone, callVars>>
        BY <2>5 DEF vars, nodeVars, goneVars
    <3> QED BY <1>2, <3>1, ContentsStay DEF Map!vars, callVars, Done
  <2> QED BY <1>2, <2>1, <2>2, <2>3, <2>4, <2>5 DEF Next
<1>3. Spec => []IInv
    BY InitStep, StepKeeps, PTL DEF Spec
<1> QED BY <1>1, <1>2, <1>3, ForgetsStep, PTL DEF Spec, ImplementsMap, Map!Spec

----------------------------------------------------------------------------
(* The height of a search tree                                             *)

\* S contains, with a node, its children.
Downward(c, S) == \A z \in S, s \in Sides : c[z][s] \in S \cup {Null}

\* The nodes below x, and x.
Below(M, c, x) == {y \in M : \A S \in SUBSET M : x \in S /\ Downward(c, S) => y \in S}

HeightIn(H, x) == IF x = Null THEN 0 ELSE H[x]

\* Every node is one higher than the higher of its children, which differ by one
\* at most.
HeightsFit(M, c, H) ==
    \A x \in M :
        /\ H[x] \in Nat
        /\ H[x] = Larger(HeightIn(H, c[x][0]), HeightIn(H, c[x][1])) + 1
        /\ HeightIn(H, c[x][0]) - HeightIn(H, c[x][1]) \in {-1, 0, 1}

LEMMA BelowFacts ==
    ASSUME NEW M, NEW c, Downward(c, M), NEW x \in M
    PROVE  /\ x \in Below(M, c, x) /\ Below(M, c, x) \subseteq M
           /\ Downward(c, Below(M, c, x))
           /\ \A S \in SUBSET M : x \in S /\ Downward(c, S) => Below(M, c, x) \subseteq S
<1>1. x \in Below(M, c, x) /\ Below(M, c, x) \subseteq M
    BY DEF Below
<1>2. ASSUME NEW z \in Below(M, c, x), NEW s \in Sides, c[z][s] # Null
      PROVE  c[z][s] \in Below(M, c, x)
  <2>1. c[z][s] \in M
      BY <1>1, <1>2 DEF Downward
  <2>2. ASSUME NEW S \in SUBSET M, x \in S, Downward(c, S) PROVE c[z][s] \in S
    <3>1. z \in S
        BY <2>2 DEF Below
    <3> QED BY <1>2, <2>2, <3>1 DEF Downward
  <2> QED BY <2>1, <2>2 DEF Below
<1>3. Downward(c, Below(M, c, x))
    BY <1>2 DEF Downward
<1> QED BY <1>1, <1>3 DEF Below

\* What is below x, but x, is a child of something that is.
LEMMA BelowHasParent ==
    ASSUME NEW M, NEW c, Downward(c, M), NEW x \in M, NEW z \in Below(M, c, x), z # x
    PROVE  \E y \in Below(M, c, x), s \in Sides : c[y][s] = z
<1> SUFFICES ASSUME \A y \in Below(M, c, x), s \in Sides : c[y][s] # z PROVE FALSE
    OBVIOUS
<1> DEFINE S == Below(M, c, x) \ {z}
<1>1. S \in SUBSET M /\ x \in S
    BY BelowFacts
<1>2. Downward(c, S)
  <2> SUFFICES ASSUME NEW y \in S, NEW s \in Sides PROVE c[y][s] \in S \cup {Null}
      BY DEF Downward
  <2> QED BY BelowFacts DEF Downward
<1>3. Below(M, c, x) \subseteq S
  <2> HIDE DEF S
  <2> QED BY <1>1, <1>2, BelowFacts
<1> QED BY <1>3

LEMMA BelowIsLower ==
    ASSUME NEW M, NEW c, NEW H, Null \notin M, Downward(c, M), HeightsFit(M, c, H),
           NEW x \in M, NEW s \in Sides, c[x][s] # Null
    PROVE  H[c[x][s]] < H[x] /\ c[x][s] \in M
<1>1. c[x][s] \in M /\ H[c[x][s]] \in Nat
    BY DEF Downward, HeightsFit
<1>2. /\ HeightIn(H, c[x][0]) \in Nat /\ HeightIn(H, c[x][1]) \in Nat
      /\ H[x] = Larger(HeightIn(H, c[x][0]), HeightIn(H, c[x][1])) + 1
  <2>1. \A u \in Sides : HeightIn(H, c[x][u]) \in Nat
      BY DEF Downward, HeightsFit, HeightIn
  <2> QED BY <2>1 DEF Sides, HeightsFit
<1>3. HeightIn(H, c[x][s]) = H[c[x][s]]
    BY DEF HeightIn
<1> QED BY <1>1, <1>2, <1>3 DEF Sides, Larger

\* The nodes below x are lower, so that x is not below its children.
LEMMA BelowAreLower ==
    ASSUME NEW M, NEW c, NEW H, Null \notin M, Downward(c, M), HeightsFit(M, c, H),
           NEW x \in M, NEW z \in Below(M, c, x)
    PROVE  H[z] <= H[x]
<1> DEFINE S == {y \in M : H[y] <= H[x]}
<1>1. S \in SUBSET M /\ x \in S
    BY DEF HeightsFit
<1>2. Downward(c, S)
  <2> SUFFICES ASSUME NEW y \in S, NEW s \in Sides, c[y][s] # Null PROVE c[y][s] \in S
      BY DEF Downward
  <2>1. H[c[y][s]] < H[y] /\ c[y][s] \in M /\ H[y] <= H[x]
      BY BelowIsLower
  <2>2. H[c[y][s]] \in Nat /\ H[y] \in Nat /\ H[x] \in Nat
      BY <2>1 DEF HeightsFit
  <2> QED BY <2>1, <2>2
<1>3. Below(M, c, x) \subseteq S
  <2> HIDE DEF S
  <2> QED BY <1>1, <1>2, BelowFacts
<1> QED BY <1>3

\* No node is below both children of one node.
LEMMA BelowApart ==
    ASSUME NEW M, NEW R, NEW c, NEW K, NEW H, Shape(M, R, c, K), Downward(c, M),
           HeightsFit(M, c, H), NEW x \in M, c[x][0] # Null, c[x][1] # Null
    PROVE  Below(M, c, c[x][0]) \cap Below(M, c, c[x][1]) = {}
<1>1. PICK l, r : l = c[x][0] /\ r = c[x][1]
    OBVIOUS
<1>2. Null \notin M /\ 0 \in Sides /\ 1 \in Sides
    BY DEF Shape, Sides
<1>3. l \in M /\ r \in M /\ H[l] < H[x] /\ H[r] < H[x]
    BY <1>1, <1>2, BelowIsLower
<1>4. x \notin Below(M, c, l) /\ x \notin Below(M, c, r)
  <2>1. H[l] \in Nat /\ H[r] \in Nat /\ H[x] \in Nat
      BY <1>3 DEF HeightsFit
  <2> QED BY <1>2, <1>3, <2>1, BelowAreLower
<1>5. \A y, z \in M, s, u \in Sides : c[y][s] = c[z][u] /\ c[y][s] # Null => y = z /\ s = u
    BY DEF Shape
<1> DEFINE S == Below(M, c, l) \ Below(M, c, r)
<1>6. l \in S
  <2> SUFFICES ASSUME l \in Below(M, c, r) PROVE FALSE
      BY <1>3, BelowFacts
  <2>1. l # r
      BY <1>1, <1>2, <1>5
  <2>2. PICK y \in Below(M, c, r), s \in Sides : c[y][s] = l
      BY <1>3, <2>1, BelowHasParent
  <2>3. y \in M
      BY <1>3, <2>2, BelowFacts
  <2> QED BY <1>1, <1>2, <1>4, <1>5, <2>2, <2>3
<1>7. Downward(c, S)
  <2> SUFFICES ASSUME NEW z \in S, NEW s \in Sides, c[z][s] # Null, c[z][s] \in Below(M, c, r)
               PROVE  FALSE
    <3>1. Downward(c, Below(M, c, l))
        BY <1>3, BelowFacts
    <3> QED BY <3>1 DEF Downward
  <2>1. z \in M /\ z # x
      BY <1>3, <1>4, BelowFacts
  <2>2. c[z][s] # r
      BY <1>1, <1>2, <1>5, <2>1
  <2>3. PICK y \in Below(M, c, r), u \in Sides : c[y][u] = c[z][s]
      BY <1>3, <2>2, BelowHasParent
  <2>4. y = z
      BY <1>3, <1>5, <2>1, <2>3, BelowFacts
  <2> QED BY <2>3, <2>4
<1>8. Below(M, c, l) \subseteq S
  <2>1. S \in SUBSET M
      BY <1>3, BelowFacts
  <2> HIDE DEF S
  <2> QED BY <1>3, <1>6, <1>7, <2>1, BelowFacts
<1> QED BY <1>1, <1>8

----------------------------------------------------------------------------
\* The subsets of 1..n + 1 are those of 1..n, and those with n + 1 added.
LEMMA Doubling ==
    ASSUME NEW n \in Nat
    PROVE  2^0 = 1 /\ 2^n \in Nat /\ 2^(n + 1) = 2 * 2^n
<1> DEFINE P == SUBSET (1..n)
           Q == SUBSET (1..n + 1)
           f == [X \in P |-> X \cup {n + 1}]
           T == {X \in Q : n + 1 \in X}
<1>1. IsFiniteSet(P) /\ Cardinality(P) = 2^n /\ Cardinality(P) \in Nat
  <2>1. IsFiniteSet(1..n) /\ Cardinality(1..n) = n
    <3>1. 1 \in Int /\ n \in Int
        OBVIOUS
    <3> QED BY <3>1, FS_Interval
  <2> QED BY <2>1, FS_SUBSET, FS_CardinalityType
<1>2. Cardinality(Q) = 2^(n + 1)
  <2>1. IsFiniteSet(1..n + 1) /\ Cardinality(1..n + 1) = n + 1
    <3>1. 1 \in Int /\ n + 1 \in Int /\ n + 1 >= 1
        OBVIOUS
    <3> QED BY <3>1, FS_Interval
  <2> QED BY <2>1, FS_SUBSET
<1>3. IsFiniteSet(T) /\ Cardinality(T) = Cardinality(P)
  <2>1. f \in [P -> T]
    <3> SUFFICES ASSUME NEW X \in P PROVE X \cup {n + 1} \in T
        OBVIOUS
    <3>1. 1..n \subseteq 1..n + 1 /\ n + 1 \in 1..n + 1
        OBVIOUS
    <3> QED BY <3>1
  <2>2. \A X, Y \in P : f[X] = f[Y] => X = Y
    <3> SUFFICES ASSUME NEW X \in P, NEW Y \in P, X \cup {n + 1} = Y \cup {n + 1} PROVE X = Y
        OBVIOUS
    <3>1. n + 1 \notin X /\ n + 1 \notin Y
      <4>1. n + 1 \notin 1..n
          OBVIOUS
      <4> QED BY <4>1
    <3> QED BY <3>1
  <2>3. \A Y \in T : \E X \in P : f[X] = Y
    <3> SUFFICES ASSUME NEW Y \in T PROVE \E X \in P : f[X] = Y
        OBVIOUS
    <3>1. Y \ {n + 1} \in P
      <4>1. \A z \in 1..n + 1 : z # n + 1 => z \in 1..n
          OBVIOUS
      <4> QED BY <4>1
    <3>2. (Y \ {n + 1}) \cup {n + 1} = Y
        OBVIOUS
    <3> QED BY <3>1, <3>2
  <2> HIDE DEF f, P, T
  <2>4. f \in Bijection(P, T)
      BY <2>1, <2>2, <2>3 DEF Bijection, Injection, Surjection, IsInjective
  <2> QED BY <1>1, <2>4, FS_Bijection DEF ExistsBijection
<1>4. Q = P \cup T /\ P \cap T = {}
  <2>1. 1..n \subseteq 1..n + 1 /\ n + 1 \notin 1..n /\ \A z \in 1..n + 1 : z # n + 1 => z \in 1..n
      OBVIOUS
  <2>2. ASSUME NEW X \in Q PROVE X \in P \cup T
    <3>1. CASE n + 1 \in X
        BY <3>1
    <3>2. CASE n + 1 \notin X
        BY <2>1, <3>2
    <3> QED BY <3>1, <3>2
  <2>3. ASSUME NEW X \in P PROVE X \in Q /\ X \notin T
    <3>1. n + 1 \notin X
        BY <2>1
    <3> QED BY <2>1, <3>1
  <2>4. T \subseteq Q
      OBVIOUS
  <2> HIDE DEF P, Q, T
  <2> QED BY <2>2, <2>3, <2>4
<1>5. Cardinality(P \cup T) = Cardinality(P) + Cardinality(T)
  <2> HIDE DEF P, T
  <2>1. Cardinality(P \cup T) = Cardinality(P) + Cardinality(T) - Cardinality(P \cap T)
      BY <1>1, <1>3, FS_Union
  <2>2. P \cap T = {} /\ Cardinality({}) = 0
      BY <1>4, FS_EmptySet
  <2>3. Cardinality(P) \in Nat /\ Cardinality(T) \in Nat
      BY <1>1, <1>3
  <2>4. Cardinality(P \cap T) = 0
      BY <2>2
  <2> QED BY <2>1, <2>3, <2>4
<1>6. 2^0 = 1
    OBVIOUS
<1> HIDE DEF P, Q, T
<1>7. 2^(n + 1) = Cardinality(P) + Cardinality(P) /\ 2^n = Cardinality(P)
    BY <1>1, <1>2, <1>3, <1>4, <1>5
<1>8. PICK u \in Nat : u = Cardinality(P)
    BY <1>1
<1> QED BY <1>6, <1>7, <1>8

LEMMA Squares ==
    ASSUME NEW a \in Nat, NEW b \in Nat, NEW p \in Nat, p <= a * a, p <= b * b
    PROVE  4 * p <= (a + b) * (a + b)
<1>1. p <= a * b
  <2>1. CASE a <= b
    <3>1. a * a <= a * b
        BY <2>1
    <3> QED BY <3>1
  <2>2. CASE b <= a
    <3>1. b * b <= a * b
        BY <2>2
    <3> QED BY <3>1
  <2> QED BY <2>1, <2>2
<1>2. (a + b) * (a + b) = a * a + 2 * (a * b) + b * b
    OBVIOUS
<1>3. a * a \in Nat /\ b * b \in Nat /\ a * b \in Nat
    OBVIOUS
<1> QED BY <1>1, <1>2, <1>3
\* A non-empty set of numbers has a least one.
LEMMA LeastNumber ==
    ASSUME NEW T \in SUBSET Nat, T # {}
    PROVE  \E m \in T : \A n \in T : m <= n
<1> DEFINE upTo(m) == 0..m
           Ts == {upTo(m) : m \in T}
<1>1. \A m \in T : IsFiniteSet(upTo(m)) /\ upTo(m) \in SUBSET Nat
  <2> SUFFICES ASSUME NEW m \in T PROVE IsFiniteSet(0..m) /\ 0..m \in SUBSET Nat
      OBVIOUS
  <2>1. 0 \in Int /\ m \in Int
      OBVIOUS
  <2> QED BY <2>1, FS_Interval
<1>2. Ts \subseteq FiniteSubsetsOf(Nat) /\ Ts # {}
    BY <1>1 DEF FiniteSubsetsOf
<1>3. PICK X \in Ts : \A Y \in Ts : ~ (<<Y, X>> \in StrictSubsetOrdering(Nat))
  <2> HIDE DEF Ts
  <2> QED BY <1>2, FS_StrictSubsetOrderingWellFounded, WFMin
<1>4. PICK m \in T : X = upTo(m)
    BY <1>3
<1>5. ASSUME NEW n \in T, n < m PROVE FALSE
  <2>1. upTo(n) \in Ts /\ upTo(n) \subseteq upTo(m) /\ m \in upTo(m) \ upTo(n)
      BY <1>5
  <2>2. <<upTo(n), upTo(m)>> \in StrictSubsetOrdering(Nat)
      BY <1>1, <2>1 DEF StrictSubsetOrdering
  <2> QED BY <1>3, <1>4, <2>1, <2>2
<1> QED BY <1>5

\* A tree of height n has at least 2^(n/2) - 1 nodes: of a lowest node of which
\* this were not true, the children are lower.
LEMMA TreeIsLow ==
    ASSUME NEW M, NEW R, NEW c, NEW K, NEW H, IsFiniteSet(M), Shape(M, R, c, K),
           Downward(c, M), HeightsFit(M, c, H), NEW x \in M
    PROVE  LET n == Cardinality(Below(M, c, x))
           IN  n \in Nat /\ 2^H[x] <= (n + 1) * (n + 1)
<1> DEFINE Size(y) == IF y = Null THEN 0 ELSE Cardinality(Below(M, c, y))
           Low(y) == 2^HeightIn(H, y) <= (Size(y) + 1) * (Size(y) + 1)
           wrong == {H[y] : y \in {z \in M : ~Low(z)}}
<1>1. \A y \in M \cup {Null} : HeightIn(H, y) \in Nat /\ (y # Null => HeightIn(H, y) = H[y])
    BY DEF HeightsFit, HeightIn
<1>2. ASSUME NEW y \in M
      PROVE  IsFiniteSet(Below(M, c, y)) /\ Below(M, c, y) \subseteq M
  <2>1. Below(M, c, y) \subseteq M
      BY BelowFacts
  <2> QED BY <2>1, FS_Subset
<1>3. \A y \in M \cup {Null} : Size(y) \in Nat
    BY <1>2, FS_CardinalityType
<1>4. ASSUME NEW y \in M
      PROVE  Size(y) >= Size(c[y][0]) + Size(c[y][1]) + 1
  <2>1. PICK l, r : l = c[y][0] /\ r = c[y][1]
      OBVIOUS
  <2>2. Null \notin M /\ l \in M \cup {Null} /\ r \in M \cup {Null} /\ y # Null
      BY <2>1 DEF Shape, Downward, Sides
  <2> DEFINE under(z) == IF z = Null THEN {} ELSE Below(M, c, z)
  <2>3. ASSUME NEW s \in Sides
        PROVE  /\ IsFiniteSet(under(c[y][s])) /\ Cardinality(under(c[y][s])) = Size(c[y][s])
               /\ under(c[y][s]) \subseteq Below(M, c, y) /\ y \notin under(c[y][s])
    <3>1. CASE c[y][s] = Null
        BY <3>1, FS_EmptySet
    <3>2. CASE c[y][s] # Null
      <4>1. H[c[y][s]] < H[y] /\ c[y][s] \in M
          BY <2>2, <3>2, BelowIsLower
      <4>2. H[c[y][s]] \in Nat /\ H[y] \in Nat
          BY <4>1 DEF HeightsFit
      <4>3. y \notin Below(M, c, c[y][s])
          BY <2>2, <4>1, <4>2, BelowAreLower
      <4>4. c[y][s] \in Below(M, c, y) /\ Downward(c, Below(M, c, y)) /\ Below(M, c, y) \subseteq M
        <5>1. y \in Below(M, c, y) /\ Downward(c, Below(M, c, y)) /\ Below(M, c, y) \subseteq M
            BY BelowFacts
        <5> QED BY <3>2, <5>1 DEF Downward
      <4>5. Below(M, c, c[y][s]) \subseteq Below(M, c, y)
          BY <4>1, <4>4, BelowFacts
      <4> QED BY <1>2, <3>2, <4>1, <4>3, <4>5
    <3> QED BY <3>1, <3>2
  <2>4. under(l) \cap under(r) = {}
      BY <2>1, <2>2, BelowApart
  <2>5. PICK X, Y : X = under(l) /\ Y = under(r)
      OBVIOUS
  <2>6. /\ IsFiniteSet(X) /\ IsFiniteSet(Y) /\ X \cap Y = {}
        /\ Cardinality(X) = Size(l) /\ Cardinality(Y) = Size(r)
        /\ X \subseteq Below(M, c, y) /\ Y \subseteq Below(M, c, y) /\ y \notin X /\ y \notin Y
      BY <2>1, <2>3, <2>4, <2>5 DEF Sides
  <2> HIDE DEF Size, under
  <2>7. /\ IsFiniteSet(X \cup Y)
        /\ Cardinality(X \cup Y) = Cardinality(X) + Cardinality(Y) - Cardinality({})
      BY <2>6, FS_Union
  <2>8. Cardinality({}) = 0 /\ Size(l) \in Nat /\ Size(r) \in Nat
      BY <1>3, <2>2, FS_EmptySet
  <2>9. Cardinality(X \cup Y \cup {y}) = Cardinality(X \cup Y) + 1
      BY <2>6, <2>7, FS_AddElement
  <2>10. X \cup Y \cup {y} \subseteq Below(M, c, y)
      BY <2>6, BelowFacts
  <2>11. Cardinality(X \cup Y \cup {y}) <= Cardinality(Below(M, c, y))
      BY <1>2, <2>10, FS_Subset
  <2>12. Size(y) = Cardinality(Below(M, c, y))
      BY <2>2 DEF Size
  <2> QED BY <2>1, <2>6, <2>7, <2>8, <2>9, <2>11, <2>12
<1>5. ASSUME wrong # {} PROVE FALSE
  <2>1. wrong \in SUBSET Nat
      BY DEF HeightsFit
  <2>2. PICK n \in wrong : \A m \in wrong : n <= m
    <3> HIDE DEF wrong
    <3> QED BY <1>5, <2>1, LeastNumber
  <2>3. PICK y \in M : ~Low(y) /\ H[y] = n
      BY <2>2
  <2>4. \A z \in M : H[z] < n => Low(z)
    <3> SUFFICES ASSUME NEW z \in M, H[z] < n, ~Low(z) PROVE FALSE
        OBVIOUS
    <3>1. H[z] \in wrong /\ H[z] \in Nat /\ n \in Nat
        BY <2>1
    <3> HIDE DEF wrong, Low
    <3> QED BY <2>2, <3>1
  <2>5. PICK l, r : l = c[y][0] /\ r = c[y][1]
      OBVIOUS
  <2>6. l \in M \cup {Null} /\ r \in M \cup {Null} /\ Null \notin M
      BY <2>5 DEF Shape, Downward, Sides
  <2>7. PICK a \in Nat, b \in Nat : a = HeightIn(H, l) /\ b = HeightIn(H, r)
      BY <1>1, <2>6
  <2>8. n = Larger(a, b) + 1 /\ a - b \in {-1, 0, 1}
      BY <2>3, <2>5, <2>7 DEF HeightsFit
  <2>9. PICK u \in Nat, v \in Nat, w \in Nat : u = Size(l) /\ v = Size(r) /\ w = Size(y)
      BY <1>3, <2>6
  <2>10. w >= u + v + 1
      BY <1>4, <2>5, <2>9
  <2>11. 2^a <= (u + 1) * (u + 1) /\ 2^b <= (v + 1) * (v + 1)
    <3>1. ASSUME NEW z \in {l, r} PROVE 2^HeightIn(H, z) <= (Size(z) + 1) * (Size(z) + 1)
      <4>1. CASE z = Null
        <5>1. 2^0 <= (0 + 1) * (0 + 1)
            BY Doubling
        <5> QED BY <4>1, <5>1 DEF HeightIn
      <4>2. CASE z # Null
        <5>1. z \in M /\ HeightIn(H, z) = H[z] /\ H[z] \in Nat
            BY <1>1, <2>6, <4>2
        <5>2. H[z] < n
            BY <2>7, <2>8, <5>1 DEF Larger
        <5> QED BY <2>4, <5>1, <5>2
      <4> QED BY <4>1, <4>2
    <3> HIDE DEF Size
    <3> QED BY <2>7, <2>9, <3>1
  <2>12. 2^n <= (w + 1) * (w + 1)
    <3>1. CASE n = 1
      <4>1. 2^1 = 2
        <5>1. 2^(0 + 1) = 2 * 2^0 /\ 2^0 = 1
            BY Doubling
        <5> QED BY <5>1
      <4>2. w >= 1
          BY <2>10
      <4>3. (w + 1) * (w + 1) >= 2
        <5>1. (w + 1) * (w + 1) = w * w + 2 * w + 1 /\ w * w \in Nat
            OBVIOUS
        <5> QED BY <4>2, <5>1
      <4> QED BY <3>1, <4>1, <4>3
    <3>2. CASE n # 1
      <4>1. PICK m \in Nat : n = m + 2 /\ a \in {m, m + 1} /\ b \in {m, m + 1}
        <5>1. n \in Nat /\ n >= 2 /\ n - 2 \in Nat /\ n = (n - 2) + 2
            BY <2>8, <3>2 DEF Larger
        <5>2. a \in {n - 2, n - 1} /\ b \in {n - 2, n - 1}
            BY <2>8, <5>1 DEF Larger
        <5>3. n - 1 = (n - 2) + 1
            BY <5>1
        <5> QED BY <5>1, <5>2, <5>3
      <4>2. PICK p \in Nat : p = 2^m
          BY Doubling
      <4>3. 2^(m + 1) = 2 * p /\ 2^((m + 1) + 1) = 2 * 2^(m + 1)
          BY <4>2, Doubling
      <4>4. 2^n = 4 * p
        <5>1. n = (m + 1) + 1
            BY <4>1
        <5> QED BY <4>3, <5>1
      <4>5. 2^a \in {p, 2 * p} /\ 2^b \in {p, 2 * p}
          BY <4>1, <4>2, <4>3
      <4>6. p <= (u + 1) * (u + 1) /\ p <= (v + 1) * (v + 1)
        <5>1. PICK s \in Nat, t \in Nat : s = (u + 1) * (u + 1) /\ t = (v + 1) * (v + 1)
            OBVIOUS
        <5>2. p <= 2 * p
            OBVIOUS
        <5> QED BY <2>11, <4>5, <5>1, <5>2
      <4>7. 4 * p <= ((u + 1) + (v + 1)) * ((u + 1) + (v + 1))
          BY <4>6, Squares
      <4>8. ((u + 1) + (v + 1)) * ((u + 1) + (v + 1)) <= (w + 1) * (w + 1)
        <5>1. PICK d \in Nat : w + 1 = d + ((u + 1) + (v + 1))
          <6>1. w + 1 - ((u + 1) + (v + 1)) \in Nat
              BY <2>10
          <6>2. w + 1 = (w + 1 - ((u + 1) + (v + 1))) + ((u + 1) + (v + 1))
              OBVIOUS
          <6> QED BY <6>1, <6>2
        <5>2. PICK e \in Nat : e = (u + 1) + (v + 1)
            OBVIOUS
        <5>3. (d + e) * (d + e) = d * d + 2 * (d * e) + e * e /\ d * d \in Nat /\ d * e \in Nat
              /\ e * e \in Nat
            OBVIOUS
        <5> QED BY <5>1, <5>2, <5>3
      <4>9. PICK f \in Nat, g \in Nat : /\ f = (w + 1) * (w + 1)
                                       /\ g = ((u + 1) + (v + 1)) * ((u + 1) + (v + 1))
          OBVIOUS
      <4> QED BY <4>4, <4>7, <4>8, <4>9
    <3> QED BY <3>1, <3>2
  <2>13. HeightIn(H, y) = n /\ Size(y) = w
      BY <1>1, <2>3, <2>6, <2>9
  <2> QED BY <2>3, <2>12, <2>13
<1>6. Low(x)
    BY <1>5
<1>7. x # Null
    BY DEF Shape
<1> QED BY <1>1, <1>3, <1>6, <1>7

----------------------------------------------------------------------------
(* How long an operation takes                                             *)

\* Between operations the tree that the constructed nodes make is balanced.
LEMMA LowTree == IInv => Shallow
<1> SUFFICES ASSUME IInv, op = "none", root # Null
             PROVE  2^HeightOf(root) <= (size + 1) * (size + 1)
  <2>1. ASSUME IInv, root = Null PROVE 2^HeightOf(root) <= (size + 1) * (size + 1)
    <3>1. size \in Nat
        BY <2>1, Numbers DEF IInv, TypeOK
    <3>2. 1 <= (size + 1) * (size + 1)
      <4>1. (size + 1) * (size + 1) = size * size + 2 * size + 1 /\ size * size \in Nat
          BY <3>1
      <4> QED BY <3>1, <4>1
    <3>3. 2^0 = 1
        OBVIOUS
    <3> QED BY <2>1, <3>2, <3>3 DEF HeightOf
  <2> QED BY <2>1 DEF Shallow
<1>1. path = <<>> /\ place = "call" /\ gone = Null /\ next = Null /\ at = Null
    BY DEF IInv, Places, Replacing
<1>2. Kept = live /\ Root = root /\ live \subseteq Nodes
    BY <1>1, Whole, CallLinks, Typed
<1>3. Shape(live, root, Nd, key) /\ Downward(Nd, live) /\ root \in live
    BY <1>2, Shapes DEF Shape, Downward
<1>4. \A x \in live : x \notin Unsteady
    BY <1>1, Rotations DEF Unsteady
<1>5. HeightsFit(live, Nd, height)
  <2> SUFFICES ASSUME NEW x \in live
               PROVE  /\ height[x] \in Nat
                      /\ height[x] = Larger(HeightIn(height, Nd[x][0]), HeightIn(height, Nd[x][1])) + 1
                      /\ HeightIn(height, Nd[x][0]) - HeightIn(height, Nd[x][1]) \in {-1, 0, 1}
      BY DEF HeightsFit
  <2>1. Nd[x][0] = child[x][0] /\ Nd[x][1] = child[x][1] /\ height[x] \in Nat
      BY <1>1, <1>2, CallLinks, Typed
  <2> QED BY <1>2, <1>4, <2>1, SteadyNode DEF HeightIn, HeightOf
<1>6. IsFiniteSet(live) /\ size = Cardinality(live)
    BY DEF IInv, TypeOK
<1>7. PICK n : n = Cardinality(Below(live, Nd, root))
    OBVIOUS
<1>8. n \in Nat /\ 2^height[root] <= (n + 1) * (n + 1)
    BY <1>3, <1>5, <1>6, <1>7, TreeIsLow
<1>9. n <= size /\ size \in Nat
  <2>1. Below(live, Nd, root) \subseteq live
      BY <1>3, BelowFacts
  <2> QED BY <1>6, <1>7, <2>1, FS_Subset, FS_CardinalityType
<1>10. (n + 1) * (n + 1) <= (size + 1) * (size + 1)
  <2>1. PICK d \in Nat : size + 1 = (n + 1) + d
    <3>1. size - n \in Nat /\ size + 1 = (n + 1) + (size - n)
        BY <1>8, <1>9
    <3> QED BY <3>1
  <2>2. PICK m \in Nat : m = n + 1
      BY <1>8
  <2>3. (m + d) * (m + d) = m * m + 2 * (m * d) + d * d /\ m * m \in Nat /\ m * d \in Nat
        /\ d * d \in Nat
      OBVIOUS
  <2> QED BY <2>1, <2>2, <2>3
<1>11. 2^height[root] \in Nat
  <2>1. height[root] \in Nat
      BY <1>2, <1>3, Typed
  <2> QED BY <2>1, Doubling
<1>12. PICK a \in Nat, b \in Nat, p \in Nat :
          a = (n + 1) * (n + 1) /\ b = (size + 1) * (size + 1) /\ p = 2^height[root]
  <2>1. (n + 1) * (n + 1) \in Nat /\ (size + 1) * (size + 1) \in Nat
    <3>1. \A k \in Nat : (k + 1) * (k + 1) \in Nat
        OBVIOUS
    <3> QED BY <1>8, <1>9, <3>1
  <2> QED BY <1>11, <2>1
<1>13. p <= b
    BY <1>8, <1>10, <1>12
<1> QED BY <1>12, <1>13 DEF HeightOf

\* While the calls go down, a node is higher than its children.
LEMMA HigherThanChild ==
    ASSUME IInv, place = "call", op # "none", at # Null, NEW s \in Sides
    PROVE  /\ HeightOf(child[at][s]) \in Nat /\ HeightOf(at) \in Nat
           /\ HeightOf(child[at][s]) < HeightOf(at)
<1>1. at \in Kept /\ at \notin Unsteady
    BY Rotations DEF IInv, Places, Unsteady
<1>2. /\ height[at] = Larger(HeightOf(child[at][s]), HeightOf(child[at][1 - s])) + 1
      /\ HeightOf(child[at][s]) \in Nat /\ HeightOf(child[at][1 - s]) \in Nat
      /\ HeightOf(at) = height[at]
    BY <1>1, SteadySides
<1> QED BY <1>2 DEF Larger

LEMMA StepsAt ==
    ASSUME IInv, op # "none"
    PROVE  /\ Len(path) \in Nat /\ HeightOf(at) \in Nat
           /\ place = "call" => StepsLeft = 3 * Len(path) + 4 * HeightOf(at) + 2
           /\ place = "return" => StepsLeft = 3 * Len(path) + 1
           /\ place = "balance" => StepsLeft = 3 * Len(path) + 3
           /\ place \in {"right_rotate", "left_rotate"} => StepsLeft = 3 * Len(path) + 2
           /\ StepsLeft \in Nat /\ StepsLeft > 0
<1>1. Len(path) \in Nat /\ HeightOf(at) \in Nat
    BY Typed, PathFacts, HeightNat
<1>2. place = "call" => StepsLeft = 3 * Len(path) + 4 * HeightOf(at) + 2
    BY <1>1 DEF StepsLeft
<1>3. place = "return" => StepsLeft = 3 * Len(path) + 1
    BY <1>1 DEF StepsLeft
<1>4. place = "balance" => StepsLeft = 3 * Len(path) + 3
    BY <1>1 DEF StepsLeft
<1>5. place \in {"right_rotate", "left_rotate"} => StepsLeft = 3 * Len(path) + 2
    BY <1>1 DEF StepsLeft
<1>6. place \in {"call", "return", "balance", "right_rotate", "left_rotate"}
    BY DEF IInv, TypeOK
<1> QED BY <1>1, <1>2, <1>3, <1>4, <1>5, <1>6

\* A call that goes on in a child leaves four steps less for the level, of which
\* its return will take three.
LEMMA SearchingLeaves ==
    ASSUME IInv, IInv', Searching PROVE op # "none" /\ StepsLeft' < StepsLeft
<1>1. CASE Found \/ NotFound
  <2>1. op # "none" /\ op' = "none"
      BY <1>1 DEF Found, NotFound, Calling, Finish
  <2> QED BY <2>1, StepsAt DEF StepsLeft
<1>2. ASSUME NEW s \in Sides, at # Null, op # "none", op' = op, place = "call", place' = "call",
             at' = child[at][s], height' = height,
             path' = path \/ Len(path') = Len(path) + 1
      PROVE  op # "none" /\ StepsLeft' < StepsLeft
  <2>1. /\ HeightOf(child[at][s]) \in Nat /\ HeightOf(at) \in Nat
        /\ HeightOf(child[at][s]) < HeightOf(at)
      BY <1>2, HigherThanChild
  <2>2. HeightOf(at)' = HeightOf(child[at][s])
      BY <1>2 DEF HeightOf
  <2>3. Len(path) \in Nat /\ StepsLeft = 3 * Len(path) + 4 * HeightOf(at) + 2
      BY <1>2, StepsAt
  <2>4. StepsLeft' = 3 * Len(path') + 4 * HeightOf(at)' + 2
    <3>1. Len(path') \in Nat /\ HeightOf(at)' \in Nat
        BY <1>2, <2>1, <2>2, <2>3
    <3> QED BY <1>2, <3>1 DEF StepsLeft
  <2>5. PICK a \in Nat, b \in Nat, n \in Nat : a = HeightOf(at)' /\ b = HeightOf(at) /\ n = Len(path)
      BY <2>1, <2>2, <2>3
  <2>6. a < b /\ Len(path') \in {n, n + 1}
      BY <1>2, <2>1, <2>2, <2>5
  <2>7. StepsLeft = 3 * n + 4 * b + 2 /\ StepsLeft' = 3 * Len(path') + 4 * a + 2
      BY <2>3, <2>4, <2>5
  <2> QED BY <1>2, <2>6, <2>7
<1>3. CASE Seek
    BY <1>2, <1>3, Sided DEF Seek, Calling, nodeVars, callVars
<1>4. CASE Descend
  <2>1. at \in Nodes /\ path \in Seq(Nodes)
      BY <1>4, Doomed, Typed DEF Descend
  <2>2. Len(path') = Len(path) + 1
      BY <1>4, <2>1, PathFacts DEF Descend
  <2> QED BY <1>2, <1>4, <2>2, Sided DEF Descend, Calling, nodeVars, callVars
<1>5. CASE GoLeft
  <2>1. gone # Null /\ op = "erase" /\ at # Null /\ 0 \in Sides
      BY <1>5 DEF GoLeft, IInv, Places, Replacing, Sides
  <2>2. at \in Nodes /\ path \in Seq(Nodes)
      BY <2>1, Beyond, Typed
  <2>3. Len(path') = Len(path) + 1
      BY <1>5, <2>2, PathFacts DEF GoLeft
  <2> QED BY <1>2, <1>5, <2>1, <2>3 DEF GoLeft, nodeVars, callVars
<1> QED BY <1>1, <1>3, <1>4, <1>5 DEF Searching

LEMMA ChangingLeaves ==
    ASSUME IInv, IInv', Changing PROVE op # "none" /\ StepsLeft' < StepsLeft
<1>1. op # "none" /\ op' = op /\ place = "call"
    BY DEF Changing, Create, Overwrite, Missing, EraseLast, EraseInner, Unlink, Calling, callVars,
           IInv, Places
<1>2. Len(path) \in Nat /\ HeightOf(at) \in Nat /\ StepsLeft = 3 * Len(path) + 4 * HeightOf(at) + 2
    BY <1>1, StepsAt
<1>3. ASSUME place' = "return", path' = path PROVE StepsLeft' < StepsLeft
  <2>1. StepsLeft' = 3 * Len(path') + 1
      BY <1>1, <1>3 DEF StepsLeft
  <2> QED BY <1>2, <1>3, <2>1
<1>4. CASE EraseInner
  <2>1. at # Null /\ at \in Nodes /\ path \in Seq(Nodes) /\ 1 \in Sides
      BY <1>4, Doomed, Typed DEF EraseInner
  <2>2. Len(path') = Len(path) + 1 /\ place' = "call"
      BY <1>1, <1>4, <2>1, PathFacts DEF EraseInner
  <2>3. HeightOf(child[at][1]) \in Nat /\ HeightOf(child[at][1]) < HeightOf(at)
      BY <1>1, <2>1, HigherThanChild
  <2>4. HeightOf(at)' = HeightOf(child[at][1])
      BY <1>4 DEF EraseInner, HeightOf, nodeVars
  <2>5. StepsLeft' = 3 * Len(path') + 4 * HeightOf(at)' + 2
    <3>1. Len(path') \in Nat /\ HeightOf(at)' \in Nat
        BY <1>2, <2>2, <2>3, <2>4
    <3> QED BY <1>1, <2>2, <3>1 DEF StepsLeft
  <2>6. PICK a \in Nat, b \in Nat, n \in Nat : a = HeightOf(at)' /\ b = HeightOf(at) /\ n = Len(path)
      BY <1>2, <2>3, <2>4
  <2>7. a < b
      BY <2>3, <2>4, <2>6
  <2>8. StepsLeft = 3 * n + 4 * b + 2 /\ StepsLeft' = 3 * (n + 1) + 4 * a + 2
      BY <1>2, <2>2, <2>5, <2>6
  <2> QED BY <1>1, <2>7, <2>8
<1>5. CASE Create \/ Overwrite \/ Missing \/ EraseLast \/ Unlink
    BY <1>1, <1>3, <1>5 DEF Create, Overwrite, Missing, EraseLast, Unlink, Return
<1> QED BY <1>1, <1>4, <1>5 DEF Changing

\* On the way back a call is balanced in at most two rotations.
LEMMA ReturningLeaves ==
    ASSUME IInv, IInv', Returning PROVE op # "none" /\ StepsLeft' < StepsLeft
<1>1. op # "none"
  <2>1. place # "call"
      BY Rotations DEF Returning, Ascend, Replace, Returned, Settle, TurnChild, Turn
  <2> QED BY <2>1 DEF IInv, Places
<1>2. CASE Returned
  <2>1. op' = "none"
      BY <1>2 DEF Returned, Finish
  <2> QED BY <1>1, <2>1, StepsAt DEF StepsLeft
<1>3. Len(path) \in Nat /\ path \in Seq(Nodes)
    BY Typed, PathFacts
<1>4. CASE Ascend \/ Replace
  <2>1. /\ place = "return" /\ path # <<>> /\ path' = Tail(path) /\ place' = "balance" /\ op' = op
      BY <1>4 DEF Ascend, Replace, BalanceWith, callVars
  <2>2. Len(path') = Len(path) - 1
      BY <1>3, <2>1, PathFacts
  <2>3. StepsLeft = 3 * Len(path) + 1 /\ StepsLeft' = 3 * Len(path') + 3
      BY <1>1, <2>1, StepsAt DEF StepsLeft
  <2> QED BY <1>1, <1>3, <2>2, <2>3
<1>5. CASE Settle
  <2>1. place = "balance" /\ place' = "return" /\ path' = path /\ op' = op
      BY <1>5 DEF Settle, callVars
  <2>2. StepsLeft = 3 * Len(path) + 3 /\ StepsLeft' = 3 * Len(path) + 1
      BY <1>1, <2>1, StepsAt DEF StepsLeft
  <2> QED BY <1>1, <1>3, <2>2
<1>6. ASSUME NEW j \in Sides, TurnChild(1 - j, j) PROVE StepsLeft' < StepsLeft
  <2>1. /\ place = "balance" /\ place' \in {"right_rotate", "left_rotate"} /\ path' = path /\ op' = op
      BY <1>6, Rotations DEF TurnChild, callVars
  <2>2. StepsLeft = 3 * Len(path) + 3 /\ StepsLeft' = 3 * Len(path) + 2
      BY <1>1, <2>1, StepsAt DEF StepsLeft
  <2> QED BY <1>3, <2>2
<1>7. ASSUME NEW j \in Sides, Turn(1 - j, j) PROVE StepsLeft' < StepsLeft
  <2>1. /\ place \in {"balance", "right_rotate", "left_rotate"} /\ place' = "return"
        /\ path' = path /\ op' = op
      BY <1>7, Rotations DEF Turn, Return, callVars
  <2>2. StepsLeft \in {3 * Len(path) + 3, 3 * Len(path) + 2} /\ StepsLeft' = 3 * Len(path) + 1
      BY <1>1, <2>1, StepsAt DEF StepsLeft
  <2> QED BY <1>3, <2>2
<1> QED BY <1>1, <1>2, <1>4, <1>5, <1>6, <1>7 DEF Returning

\* find, insert and erase take O(lg n) steps, as the comments on them say, in a
\* tree of any size: the height is at most 2 lg(n + 1), a call takes at most four
\* steps for every level, its return included, and every step leaves fewer.
THEOREM TreeIsFast == Spec => LogarithmicTime
<1>1. Spec => []IInv
    BY InitStep, StepKeeps, PTL DEF Spec
<1>2. ASSUME IInv, IInv', [Next]_vars
      PROVE  [IF op = "none" THEN Shallow /\ StepsLeft' <= 4 * HeightOf(root) + 2
              ELSE StepsLeft' < StepsLeft]_vars
  <2>1. CASE Searching \/ Changing \/ Returning
      BY <1>2, <2>1, SearchingLeaves, ChangingLeaves, ReturningLeaves
  <2>2. ASSUME NEW a, NEW b, NEW name \in {"find", "insert", "erase"}, Begin(name, a, b)
        PROVE  op = "none" /\ StepsLeft' <= 4 * HeightOf(root) + 2
    <3>1. /\ op = "none" /\ op' # "none" /\ at' = root /\ path' = path /\ place' = place
          /\ height' = height
        BY <2>2 DEF Begin, nodeVars
    <3>2. path = <<>> /\ place = "call" /\ HeightOf(root) \in Nat
        BY <1>2, <3>1, HeightNat, Typed DEF IInv, Places
    <3>3. StepsLeft' = 3 * Len(path') + 4 * HeightOf(at)' + 2
        BY <1>2, <3>1, <3>2 DEF StepsLeft, HeightOf
    <3>4. HeightOf(at)' = HeightOf(root) /\ Len(path') = 0
        BY <3>1, <3>2 DEF HeightOf
    <3> QED BY <3>1, <3>2, <3>3, <3>4
  <2>3. ASSUME \E a \in Keys : Find(a) \/ Erase(a) \/ \E b \in Values : Insert(a, b)
        PROVE  op = "none" /\ StepsLeft' <= 4 * HeightOf(root) + 2
      BY <2>2, <2>3 DEF Find, Erase, Insert
  <2>4. Shallow
      BY <1>2, LowTree
  <2>5. CASE \E a \in Keys : Find(a) \/ Erase(a) \/ \E b \in Values : Insert(a, b)
      BY <2>3, <2>4, <2>5
  <2>6. CASE UNCHANGED vars
      BY <2>6
  <2> QED BY <1>2, <2>1, <2>5, <2>6 DEF Next
<1> QED BY <1>1, <1>2, PTL DEF Spec, LogarithmicTime

=============================================================================
