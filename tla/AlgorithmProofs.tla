-------------------------- MODULE AlgorithmProofs --------------------------
(***************************************************************************)
(* Proofs about Padding, for messages of any length: the padding is the    *)
(* one the comments describe, in whole chunks, and no two messages have    *)
(* the same padding although only 32 bits of the length are written.       *)
(*                                                                         *)
(* Proofs about IntroSort, for arrays of any length and keys: the scans    *)
(* of partition__ stay inside their range without a bound check, quicksort *)
(* visits the ranges in the order of their elements, heap sort takes the   *)
(* largest element of what is left, and the call returns a sorted          *)
(* permutation of what it was given.                                       *)
(***************************************************************************)
EXTENDS IntroSort, Padding, SequenceTheorems, FiniteSetTheorems, TLAPS

----------------------------------------------------------------------------
(* The padding *)

\* The octets of a chunk and of the length, of SHA-1 and SHA-256, and of SHA-384
\* and SHA-512.
Classes == {<<64, 8>>, <<128, 16>>}

\* What is added leaves room for the marker and the length, fills the last
\* chunk, and is less than one chunk more than that.
LEMMA PadlenFacts ==
    ASSUME NEW n \in Nat, NEW chunk, NEW field, <<chunk, field>> \in Classes
    PROVE  /\ Padlen(n, chunk, field + 1) \in field + 1..chunk + field
           /\ (n + Padlen(n, chunk, field + 1)) % chunk = 0
           /\ chunk \in Nat \ {0} /\ field \in 8..16
<1>1. CASE chunk = 64 /\ field = 8
  <2>1. n % 64 \in 0..63
      OBVIOUS
  <2>2. (n + (64 - (n % 64))) % 64 = 0
      OBVIOUS
  <2>3. (n + (64 - (n % 64)) + 64) % 64 = 0
      OBVIOUS
  <2> QED BY <1>1, <2>1, <2>2, <2>3 DEF Padlen
<1>2. CASE chunk = 128 /\ field = 16
  <2>1. n % 128 \in 0..127
      OBVIOUS
  <2>2. (n + (128 - (n % 128))) % 128 = 0
      OBVIOUS
  <2>3. (n + (128 - (n % 128)) + 128) % 128 = 0
      OBVIOUS
  <2> QED BY <1>2, <2>1, <2>2, <2>3 DEF Padlen
<1> QED BY <1>1, <1>2 DEF Classes

\* The length of the padding.
PaddedLength(msg, chunk, field) == Len(msg) + Padlen(Len(msg), chunk, field + 1)

\* The padding, octet by octet.
LEMMA PaddedFacts ==
    ASSUME NEW S, NEW msg \in Seq(S), NEW chunk, NEW field,
           <<chunk, field>> \in Classes,
           NEW n, n = Len(msg), NEW len, len = PaddedLength(msg, chunk, field),
           NEW out, out = Padded(msg, chunk, field + 1)
    PROVE  /\ n \in Nat /\ len \in Nat /\ field \in 8..16 /\ chunk \in Nat \ {0}
           /\ len >= n + field + 1 /\ len <= n + field + chunk
           /\ len % chunk = 0
           /\ DOMAIN out = 1..len
           /\ \A q \in 1..n : out[q] = msg[q]
           /\ out[n + 1] = 128
           /\ \A q \in n + 2..len - 4 : out[q] = 0
           /\ \A q \in len - 3..len : out[q] = LengthOctet(n, len - q)
<1>1. n \in Nat
    OBVIOUS
<1>2. /\ Padlen(n, chunk, field + 1) \in field + 1..chunk + field
      /\ (n + Padlen(n, chunk, field + 1)) % chunk = 0
      /\ chunk \in Nat \ {0} /\ field \in 8..16
    BY <1>1, PadlenFacts
<1>3. len = n + Padlen(n, chunk, field + 1)
    BY DEF PaddedLength
<1>4. len \in Nat /\ len >= n + field + 1 /\ len <= n + field + chunk /\ len % chunk = 0
    BY <1>1, <1>2, <1>3
<1>5. out = [q \in 1..len |-> IF q > len - 4 THEN LengthOctet(n, len - q)
                            ELSE IF q <= n THEN msg[q]
                            ELSE IF q = n + 1 THEN 128
                            ELSE 0]
    BY <1>3 DEF Padded
<1>6. DOMAIN out = 1..len
    BY <1>5
<1>7. \A q \in 1..n : out[q] = msg[q]
  <2>1. ASSUME NEW q \in 1..n PROVE out[q] = msg[q]
    <3>1. q \in 1..len /\ ~(q > len - 4) /\ q <= n
        BY <1>1, <1>2, <1>4
    <3> QED BY <1>5, <3>1
  <2> QED BY <2>1
<1>8. out[n + 1] = 128
  <2>1. ASSUME NEW q \in Int, q = n + 1 PROVE out[q] = 128
    <3>1. q \in 1..len /\ ~(q > len - 4) /\ ~(q <= n)
        BY <1>1, <1>2, <1>4, <2>1
    <3> QED BY <1>5, <2>1, <3>1
  <2> QED BY <1>1, <2>1
<1>9. \A q \in n + 2..len - 4 : out[q] = 0
  <2>1. ASSUME NEW q \in n + 2..len - 4 PROVE out[q] = 0
    <3>1. q \in Int /\ q >= n + 2 /\ q <= len - 4
        BY <1>1, <1>4
    <3>2. q \in 1..len /\ ~(q > len - 4) /\ ~(q <= n) /\ q # n + 1
        BY <1>1, <1>4, <3>1
    <3> QED BY <1>5, <3>2
  <2> QED BY <2>1
<1>10. \A q \in len - 3..len : out[q] = LengthOctet(n, len - q)
  <2>1. ASSUME NEW q \in len - 3..len PROVE out[q] = LengthOctet(n, len - q)
    <3>1. q \in 1..len /\ q > len - 4
        BY <1>1, <1>2, <1>4
    <3> QED BY <1>5, <3>1
  <2> QED BY <2>1
<1> QED BY <1>1, <1>2, <1>4, <1>6, <1>7, <1>8, <1>9, <1>10

\* hash() walks over padded_msg.size() / chunk chunks: the padding is whole
\* chunks, starts with the message, and is not a chunk longer than it must be.
THEOREM PaddingFillsChunks ==
    ASSUME NEW S, NEW msg \in Seq(S), NEW chunk, NEW field,
           <<chunk, field>> \in Classes
    PROVE  LET out == Padded(msg, chunk, field + 1)
               len == PaddedLength(msg, chunk, field)
           IN  /\ DOMAIN out = 1..len
               /\ len % chunk = 0
               /\ len - chunk < Len(msg) + 1 + field
               /\ \A q \in 1..Len(msg) : out[q] = msg[q]
<1> DEFINE len == PaddedLength(msg, chunk, field)
           out == Padded(msg, chunk, field + 1)
<1>1. /\ Len(msg) \in Nat /\ len \in Nat /\ field \in 8..16 /\ chunk \in Nat \ {0}
      /\ len <= Len(msg) + field + chunk /\ len % chunk = 0 /\ DOMAIN out = 1..len
      /\ \A q \in 1..Len(msg) : out[q] = msg[q]
    BY PaddedFacts
<1> HIDE DEF len, out
<1>2. len - chunk < Len(msg) + 1 + field
    BY <1>1
<1> QED BY <1>1, <1>2 DEF len, out

\* The marker tells where a message ends: no padding of a shorter message is
\* that of a longer one, whatever the octets of the length say.
LEMMA MarkerTellsLength ==
    ASSUME NEW S, NEW msg1 \in Seq(S), NEW msg2 \in Seq(S), NEW chunk, NEW field,
           <<chunk, field>> \in Classes,
           Padded(msg1, chunk, field + 1) = Padded(msg2, chunk, field + 1)
    PROVE  ~(Len(msg1) < Len(msg2))
<1> DEFINE n1 == Len(msg1)
           n2 == Len(msg2)
           len1 == PaddedLength(msg1, chunk, field)
           len2 == PaddedLength(msg2, chunk, field)
           out == Padded(msg1, chunk, field + 1)
<1> SUFFICES ASSUME n1 < n2 PROVE FALSE
    OBVIOUS
<1>1. /\ n1 \in Nat /\ len1 \in Nat /\ field \in 8..16 /\ DOMAIN out = 1..len1
      /\ \A q \in n1 + 2..len1 - 4 : out[q] = 0
    BY PaddedFacts
<1>2. /\ n2 \in Nat /\ len2 \in Nat /\ DOMAIN out = 1..len2 /\ out[n2 + 1] = 128
      /\ len2 >= n2 + field + 1
    BY PaddedFacts
<1> HIDE DEF n1, n2, len1, len2, out
<1>3. len1 = len2
    BY <1>1, <1>2
<1>4. n2 + 1 \in n1 + 2..len1 - 4
    BY <1>1, <1>2, <1>3
<1>5. out[n2 + 1] = 0
    BY <1>1, <1>4
<1> QED BY <1>2, <1>5

\* Two messages never have the same padding, although only the low 32 bits of
\* the length are written (line 180 of sha256.hpp): hash() tells messages apart
\* unless the compression confuses them.
THEOREM PaddingTellsMessagesApart ==
    ASSUME NEW S, NEW msg1 \in Seq(S), NEW msg2 \in Seq(S), NEW chunk, NEW field,
           <<chunk, field>> \in Classes,
           Padded(msg1, chunk, field + 1) = Padded(msg2, chunk, field + 1)
    PROVE  msg1 = msg2
<1> DEFINE out == Padded(msg1, chunk, field + 1)
<1>1. Len(msg1) \in Nat /\ Len(msg2) \in Nat
    OBVIOUS
<1>2. ~(Len(msg1) < Len(msg2))
    BY MarkerTellsLength
<1>3. ~(Len(msg2) < Len(msg1))
    BY MarkerTellsLength
<1>4. Len(msg1) = Len(msg2)
    BY <1>1, <1>2, <1>3
<1>5. \A q \in 1..Len(msg1) : out[q] = msg1[q]
    BY PaddedFacts
<1>6. \A q \in 1..Len(msg2) : out[q] = msg2[q]
    BY PaddedFacts
<1>7. \A q \in 1..Len(msg1) : msg1[q] = msg2[q]
    BY <1>4, <1>5, <1>6
<1> QED BY <1>4, <1>7, SeqEqual

\* Less than a chunk of zeros: how many is determined by what they fill up.
LEMMA ZerosAreUnique ==
    /\ \A base \in Nat, y \in 0..63, z \in 0..63 :
          (base + y) % 64 = 0 /\ (base + z) % 64 = 0 => y = z
    /\ \A base \in Nat, y \in 0..127, z \in 0..127 :
          (base + y) % 128 = 0 /\ (base + z) % 128 = 0 => y = z
<1>1. ASSUME NEW base \in Nat, NEW y \in 0..63, NEW z \in 0..63,
             (base + y) % 64 = 0, (base + z) % 64 = 0
      PROVE  y = z
  <2>1. ASSUME NEW b \in Nat, b % 64 = 0, NEW d \in 1..63
        PROVE  (b + d) % 64 # 0
      BY <2>1
  <2>2. ~(y < z)
    <3>1. y < z => (base + y) + (z - y) = base + z /\ z - y \in 1..63 /\ base + y \in Nat
        OBVIOUS
    <3> QED BY <1>1, <2>1, <3>1
  <2>3. ~(z < y)
    <3>1. z < y => (base + z) + (y - z) = base + y /\ y - z \in 1..63 /\ base + z \in Nat
        OBVIOUS
    <3> QED BY <1>1, <2>1, <3>1
  <2> QED BY <2>2, <2>3
<1>2. ASSUME NEW base \in Nat, NEW y \in 0..127, NEW z \in 0..127,
             (base + y) % 128 = 0, (base + z) % 128 = 0
      PROVE  y = z
  <2>1. ASSUME NEW b \in Nat, b % 128 = 0, NEW d \in 1..127
        PROVE  (b + d) % 128 # 0
      BY <2>1
  <2>2. ~(y < z)
    <3>1. y < z => (base + y) + (z - y) = base + z /\ z - y \in 1..127 /\ base + y \in Nat
        OBVIOUS
    <3> QED BY <1>2, <2>1, <3>1
  <2>3. ~(z < y)
    <3>1. z < y => (base + z) + (y - z) = base + y /\ y - z \in 1..127 /\ base + z \in Nat
        OBVIOUS
    <3> QED BY <1>2, <2>1, <3>1
  <2> QED BY <2>2, <2>3
<1> QED BY <1>1, <1>2

\* Two sequences in a row, element by element, and three.
LEMMA TwoInARow ==
    ASSUME NEW T, NEW s \in Seq(T), NEW t \in Seq(T), NEW w, w = s \o t
    PROVE  /\ w \in Seq(T) /\ Len(w) = Len(s) + Len(t)
           /\ \A q \in 1..Len(s) : w[q] = s[q]
           /\ \A q \in 1..Len(t) : w[Len(s) + q] = t[q]
    OBVIOUS

LEMMA ThreeInARow ==
    ASSUME NEW T, NEW s \in Seq(T), NEW t \in Seq(T), NEW u \in Seq(T),
           NEW front, front = s \o t, NEW whole, whole = front \o u
    PROVE  /\ whole \in Seq(T) /\ Len(whole) = Len(s) + Len(t) + Len(u)
           /\ \A q \in 1..Len(s) : whole[q] = s[q]
           /\ \A q \in 1..Len(t) : whole[Len(s) + q] = t[q]
           /\ \A q \in 1..Len(u) : whole[Len(s) + Len(t) + q] = u[q]
<1>1. /\ front \in Seq(T) /\ Len(front) = Len(s) + Len(t)
      /\ \A q \in 1..Len(s) : front[q] = s[q]
      /\ \A q \in 1..Len(t) : front[Len(s) + q] = t[q]
    BY TwoInARow
<1>2. /\ whole \in Seq(T) /\ Len(whole) = Len(front) + Len(u)
      /\ \A q \in 1..Len(front) : whole[q] = front[q]
      /\ \A q \in 1..Len(u) : whole[Len(front) + q] = u[q]
    BY <1>1, TwoInARow
<1>3. Len(s) \in Nat /\ Len(t) \in Nat /\ Len(u) \in Nat
    OBVIOUS
<1>4. ASSUME NEW q \in 1..Len(t) PROVE whole[Len(s) + q] = t[q]
  <2>1. Len(s) + q \in 1..Len(front)
      BY <1>1, <1>3
  <2> QED BY <1>1, <1>2, <2>1
<1>5. ASSUME NEW q \in 1..Len(s) PROVE whole[q] = s[q]
  <2>1. q \in 1..Len(front)
      BY <1>1, <1>3
  <2> QED BY <1>1, <1>2, <2>1
<1>6. \A q \in 1..Len(u) : whole[Len(s) + Len(t) + q] = u[q]
    BY <1>1, <1>2
<1> QED BY <1>1, <1>2, <1>3, <1>4, <1>5, <1>6

\* The length in bits is below 2^32: the code writes no more of it than that.
FitsField(msg) == (8 * Len(msg)) \div 65536 < 65536

\* The padding is the one the comments describe: the marker, as few zeros as
\* make whole chunks, the length, for every message of fewer than 2^29 octets.
THEOREM PaddingFollowsStandard ==
    ASSUME NEW S, NEW msg \in Seq(S), NEW chunk, NEW field,
           <<chunk, field>> \in Classes,
           FitsField(msg)
    PROVE  Padded(msg, chunk, field + 1) = Standard(msg, chunk, field)
<1> DEFINE n == Len(msg)
           len == PaddedLength(msg, chunk, field)
           out == Padded(msg, chunk, field + 1)
           Fills(z) == (n + 1 + z + field) % chunk = 0
           zeros == CHOOSE z \in 0..chunk - 1 : Fills(z)
           least == len - n - 1 - field
           head == msg \o <<128>>
           middle == [q \in 1..zeros |-> 0]
           last == [q \in 1..field |-> Octet(8 * n, field - q)]
<1>1. /\ n \in Nat /\ len \in Nat /\ field \in 8..16 /\ chunk \in {64, 128}
      /\ len >= n + field + 1 /\ len <= n + field + chunk
      /\ len % chunk = 0
      /\ DOMAIN out = 1..len
      /\ (8 * n) \div 65536 < 65536
    BY PaddedFacts DEF Classes, FitsField
<1>2. /\ \A q \in 1..n : out[q] = msg[q]
      /\ out[n + 1] = 128
      /\ \A q \in n + 2..len - 4 : out[q] = 0
      /\ \A q \in len - 3..len : out[q] = LengthOctet(n, len - q)
    BY PaddedFacts
<1>3. out = [q \in 1..len |-> out[q]]
    BY <1>1 DEF Padded, PaddedLength
<1> HIDE DEF n, len, out
<1>4. least \in 0..chunk - 1 /\ Fills(least)
  <2>1. n + 1 + least + field = len
      BY <1>1
  <2> QED BY <1>1, <2>1
<1>5. zeros \in 0..chunk - 1 /\ Fills(zeros)
    BY <1>4
<1> HIDE DEF zeros, least
<1>6. zeros = least
  <2> DEFINE base == n + 1 + field
  <2>1. base \in Nat /\ zeros \in Int /\ least \in Int
      BY <1>1, <1>4, <1>5
  <2>2. n + 1 + zeros + field = base + zeros /\ n + 1 + least + field = base + least
      BY <1>1, <2>1
  <2>3. (base + zeros) % chunk = 0 /\ (base + least) % chunk = 0
      BY <1>4, <1>5, <2>2
  <2>4. zeros \in 0..chunk - 1 /\ least \in 0..chunk - 1 /\ chunk \in {64, 128}
      BY <1>1, <1>4, <1>5
  <2> HIDE DEF base, Fills
  <2>5. CASE chunk = 64
    <3>1. (base + zeros) % 64 = 0 /\ (base + least) % 64 = 0
        BY <2>3, <2>5
    <3>2. zeros \in 0..63 /\ least \in 0..63
        BY <2>4, <2>5
    <3> QED BY <2>1, <3>1, <3>2, ZerosAreUnique
  <2>6. CASE chunk = 128
    <3>1. (base + zeros) % 128 = 0 /\ (base + least) % 128 = 0
        BY <2>3, <2>6
    <3>2. zeros \in 0..127 /\ least \in 0..127
        BY <2>4, <2>6
    <3> QED BY <2>1, <3>1, <3>2, ZerosAreUnique
  <2> QED BY <2>4, <2>5, <2>6
<1>7. /\ head \in Seq(S \cup {128}) /\ Len(head) = n + 1
      /\ \A q \in 1..n : head[q] = msg[q]
      /\ head[n + 1] = 128
    BY <1>1 DEF n
<1>8. zeros \in Nat /\ zeros <= 127
    BY <1>1, <1>5
<1>9. /\ middle \in Seq({0}) /\ Len(middle) = zeros
      /\ \A q \in 1..zeros : middle[q] = 0
    BY <1>8
<1>10. /\ last \in Seq(Int) /\ Len(last) = field
       /\ \A q \in 1..field : last[q] = Octet(8 * n, field - q)
  <2>1. \A q \in 1..field : Octet(8 * n, field - q) \in Int
      BY <1>1 DEF Octet
  <2> QED BY <1>1, <2>1
<1> HIDE DEF head, middle, last
<1> DEFINE front == head \o middle
           whole == front \o last
           T == (S \cup {128}) \cup Int
<1>11. head \in Seq(T) /\ middle \in Seq(T) /\ last \in Seq(T)
    BY <1>7, <1>9, <1>10
<1>12. /\ whole \in Seq(T) /\ Len(whole) = Len(head) + Len(middle) + Len(last)
       /\ \A q \in 1..Len(head) : whole[q] = head[q]
       /\ \A q \in 1..Len(middle) : whole[Len(head) + q] = middle[q]
       /\ \A q \in 1..Len(last) : whole[Len(head) + Len(middle) + q] = last[q]
  <2>1. front = head \o middle /\ whole = front \o last
      OBVIOUS
  <2> HIDE DEF front, whole, T
  <2> QED BY <1>11, <2>1, ThreeInARow
<1> HIDE DEF front, whole, T
<1>13. Len(whole) = len
    BY <1>1, <1>6, <1>7, <1>8, <1>9, <1>10, <1>12 DEF least
<1>14. ASSUME NEW q \in 1..len PROVE out[q] = whole[q]
  <2>1. CASE q <= n
    <3>1. q \in 1..n /\ q \in 1..Len(head)
        BY <1>1, <1>7, <2>1
    <3> QED BY <1>2, <1>7, <1>12, <3>1
  <2>2. CASE q = n + 1
    <3>1. q \in 1..Len(head)
        BY <1>1, <1>7, <2>2
    <3> QED BY <1>2, <1>7, <1>12, <2>2, <3>1
  <2>3. CASE q >= n + 2 /\ q <= n + 1 + zeros
    <3> DEFINE z == q - n - 1
    <3>1. q \in n + 2..len - 4 /\ z \in 1..zeros /\ q = (n + 1) + z
        BY <1>1, <1>6, <1>8, <2>3 DEF least
    <3> HIDE DEF z
    <3>2. out[q] = 0 /\ middle[z] = 0
        BY <1>2, <1>9, <3>1
    <3> QED BY <1>7, <1>9, <1>12, <3>1, <3>2
  <2>4. CASE q >= n + 2 + zeros
    <3> DEFINE z == q - n - 1 - zeros
    <3>1. z \in 1..field /\ field - z = len - q /\ q = (n + 1) + zeros + z
        BY <1>1, <1>6, <1>8, <2>4 DEF least
    <3> HIDE DEF z
    <3>2. whole[q] = Octet(8 * n, len - q)
        BY <1>7, <1>9, <1>10, <1>12, <3>1
    <3>3. CASE q <= len - 4
      <4>1. q \in n + 2..len - 4 /\ len - q > 3
          BY <1>1, <1>8, <2>4, <3>3
      <4> QED BY <1>1, <1>2, <3>2, <4>1 DEF Octet
    <3>4. CASE q > len - 4
      <4>1. q \in len - 3..len /\ ~(len - q > 3)
          BY <1>1, <3>4
      <4> QED BY <1>2, <3>2, <4>1 DEF Octet, LengthOctet
    <3> QED BY <1>1, <3>3, <3>4
  <2>5. \/ q <= n \/ q = n + 1 \/ (q >= n + 2 /\ q <= n + 1 + zeros)
        \/ q >= n + 2 + zeros
      BY <1>1, <1>8
  <2> QED BY <2>1, <2>2, <2>3, <2>4, <2>5
<1>15. whole = [q \in 1..len |-> whole[q]]
    BY <1>12, <1>13
<1>16. out = whole
    BY <1>3, <1>14, <1>15
<1>17. Standard(msg, chunk, field) = whole
    BY DEF Standard, whole, front, head, middle, last, zeros, n
<1> QED BY <1>16, <1>17 DEF out

----------------------------------------------------------------------------
(* The sort *)

USE LengthAssumption, KeysAssumption, CutoffAssumption, DepthAssumption

----------------------------------------------------------------------------
(* Facts about the operators *)

\* The first range is left behind.
LEMMA TailFacts ==
    ASSUME NEW S, NEW s \in Seq(S), s # <<>>
    PROVE  /\ Tail(s) \in Seq(S)
           /\ Len(Tail(s)) = Len(s) - 1
           /\ DOMAIN Tail(s) = 1..Len(s) - 1
           /\ \A m \in 1..Len(s) - 1 : Tail(s)[m] = s[m + 1]
    OBVIOUS

\* The first range is split in two.
LEMMA SplitFacts ==
    ASSUME NEW S, NEW s \in Seq(S), s # <<>>, NEW l \in S, NEW r \in S
    PROVE  LET t == <<l, r>> \o Tail(s)
           IN  /\ t \in Seq(S)
               /\ DOMAIN t = 1..Len(s) + 1
               /\ t[1] = l /\ t[2] = r
               /\ \A m \in 3..Len(s) + 1 : t[m] = s[m - 1]
    OBVIOUS

\* The pivot is one of the three elements it is taken from.
LEMMA MedianIsOneOfThem ==
    ASSUME NEW x, NEW y, NEW z
    PROVE  median_of_3(x, y, z) \in {x, y, z}
    BY DEF median_of_3

LEMMA nlzType ==
    ASSUME NEW v
    PROVE  nlz(v) \in Nat
<1> DEFINE above == {e \in 0..31 : e = 31 \/ v < 2^e}
<1>1. IsFiniteSet(0..31)
  <2>1. 0 \in Int /\ 31 \in Int
      OBVIOUS
  <2> QED BY <2>1, FS_Interval, Zenon
<1>2. IsFiniteSet(above)
    BY <1>1, FS_Subset
<1> QED BY <1>2, FS_CardinalityType DEF nlz

\* An array that holds every element once.
Once == \A x, y \in Positions : A[x] = A[y] => x = y

\* Two elements change places.
LEMMA SwapFacts ==
    ASSUME A \in [Positions -> Positions], Once,
           NEW x \in Positions, NEW y \in Positions, A' = Swapped(x, y)
    PROVE  /\ A' \in [Positions -> Positions]
           /\ A'[x] = A[y] /\ A'[y] = A[x]
           /\ \A z \in Positions \ {x, y} : A'[z] = A[z]
           /\ Once'
    BY DEF Swapped, Once

\* An element moves down to the position k.
LEMMA MoveFacts ==
    ASSUME A \in [Positions -> Positions], Once,
           j \in Positions, NEW k \in 0..j, A' = MovedDown(k)
    PROVE  /\ A' \in [Positions -> Positions]
           /\ A'[k] = A[j]
           /\ \A x \in Positions : x < k \/ x > j => A'[x] = A[x]
           /\ \A x \in k + 1..j : A'[x] = A[x - 1]
           /\ Once'
<1>1. /\ A' \in [Positions -> Positions]
      /\ A'[k] = A[j]
      /\ \A x \in Positions : x < k \/ x > j => A'[x] = A[x]
      /\ \A x \in k + 1..j : A'[x] = A[x - 1]
    BY DEF MovedDown, Positions
<1> DEFINE from(x) == IF x < k \/ x > j THEN x ELSE IF x = k THEN j ELSE x - 1
<1>2. ASSUME NEW x \in Positions
      PROVE  from(x) \in Positions /\ A'[x] = A[from(x)]
  <2> x \in Int /\ k \in Int /\ j \in Int /\ N \in Int
      BY DEF Positions
  <2>1. CASE x < k \/ x > j
      BY <2>1, <1>1
  <2>2. CASE x = k
      BY <2>2, <1>1
  <2>3. CASE x > k /\ x <= j
    <3>1. from(x) = x - 1 /\ x \in k + 1..j
        BY <2>3
    <3>2. x - 1 \in Positions
        BY <2>3 DEF Positions
    <3> QED BY <3>1, <3>2, <1>1
  <2> QED BY <2>1, <2>2, <2>3
<1>3. \A x, y \in Positions : from(x) = from(y) => x = y
    BY DEF Positions
<1>4. ASSUME NEW x \in Positions, NEW y \in Positions, A'[x] = A'[y]
      PROVE  x = y
  <2>1. A[from(x)] = A[from(y)] /\ from(x) \in Positions /\ from(y) \in Positions
      BY <1>2, <1>4
  <2>2. from(x) = from(y)
    <3> HIDE DEF from
    <3> QED BY <2>1 DEF Once
  <2> QED BY <1>3, <2>2
<1> QED BY <1>1, <1>4 DEF Once

----------------------------------------------------------------------------
(* The inductive invariant *)

\* The ranges are ranges, one behind the other.
Disjoint ==
    /\ \A m \in DOMAIN work : work[m].lo <= work[m].hi
    /\ \A m, n \in DOMAIN work : m < n => work[m].hi <= work[n].lo

\* Where the sort is.
ScanningDown == at = "scan down"
Inserting == at = "insert"
Done == at = "done"

\* What i has passed is not above the pivot and what j has passed not below;
\* each will meet an element it cannot pass.
Scanned ==
    Partitioning =>
      /\ work # <<>>
      /\ i \in lo..hi - 1 /\ j \in lo..hi - 1
      /\ \A x \in lo..i - 1 : ~cmp(pivot, A[x])
      /\ \A x \in j + 1..hi - 1 : ~cmp(A[x], pivot)
      /\ \E x \in i..hi - 1 : ~cmp(A[x], pivot)
      /\ \E x \in lo..j : ~cmp(pivot, A[x])
      /\ ScanningDown => ~cmp(A[i], pivot)

\* Heap sort stays in its range.
HeapInside ==
    Heaping => /\ work # <<>>
               /\ i \in 0..hi - lo
               /\ p \in 0..hi - lo - 1
               /\ size \in 0..hi - lo

\* The insertion sort has put the first j elements in order.
Inserted ==
    /\ Inserting =>
          /\ work = <<>>
          /\ j \in 1..N
          /\ \A x, y \in 0..j - 1 : x < y => ~cmp(A[y], A[x])
    /\ Done => \A x, y \in Positions : x < y => ~cmp(A[y], A[x])

IInv == TypeOK /\ Once /\ Disjoint /\ Scanned /\ HeapInside
        /\ VisitsInOrder /\ Inserted

LEMMA WorkFacts ==
    ASSUME TypeOK
    PROVE  /\ DOMAIN work = 1..Len(work) /\ Len(work) \in Nat
           /\ \A m \in DOMAIN work : /\ work[m].lo \in 0..N
                                     /\ work[m].hi \in 0..N
                                     /\ \A x \in work[m].lo..work[m].hi - 1 :
                                           x \in Positions
<1>1. work \in Seq(Ranges)
    BY DEF TypeOK
<1>2. /\ DOMAIN work = 1..Len(work) /\ Len(work) \in Nat
      /\ \A m \in DOMAIN work : work[m] \in Ranges
    BY <1>1
<1> QED BY <1>2 DEF Ranges, Positions

LEMMA HeadFacts ==
    ASSUME TypeOK, work # <<>>
    PROVE  /\ Head(work) = work[1] /\ 1 \in DOMAIN work
           /\ lo = work[1].lo /\ hi = work[1].hi /\ limit = work[1].limit
           /\ lo \in 0..N /\ hi \in 0..N /\ limit \in Int
           /\ \A x \in lo..hi - 1 : x \in Positions
<1>0. work \in Seq(Ranges)
    BY DEF TypeOK
<1>1. Head(work) = work[1] /\ 1 \in DOMAIN work /\ work[1] \in Ranges
    BY <1>0
<1>2. lo = work[1].lo /\ hi = work[1].hi /\ limit = work[1].limit
    BY <1>1 DEF lo, hi, limit
<1>3. lo \in 0..N /\ hi \in 0..N /\ limit \in Int
    BY <1>1, <1>2 DEF Ranges
<1> QED BY <1>1, <1>2, <1>3 DEF Positions

\* The keys of two elements are in one order or the other.
LEMMA Comparable ==
    ASSUME TypeOK, NEW x \in Positions, NEW y \in Positions, NEW z \in Positions
    PROVE  /\ cmp(x, y) => ~cmp(y, x)
           /\ ~cmp(y, x) /\ ~cmp(z, y) => ~cmp(z, x)
           /\ ~cmp(x, x)
<1>1. key[x] \in Int /\ key[y] \in Int /\ key[z] \in Int
    BY DEF TypeOK
<1> QED BY <1>1 DEF cmp

LEMMA InitIInv == Init => IInv
<1> SUFFICES ASSUME Init
             PROVE  IInv
    OBVIOUS
<1>1. TypeOK
  <2>1. work \in Seq(Ranges)
      BY DEF Init
  <2>2. (CHOOSE k \in Keys : TRUE) \in Keys
      OBVIOUS
  <2>3. at \in Places
      BY DEF Init, Places
  <2> QED BY <2>1, <2>2, <2>3 DEF Init, TypeOK, Positions
<1>2. Once
    BY DEF Init, Once
<1>3. Disjoint /\ VisitsInOrder
    BY DEF Init, Disjoint, VisitsInOrder
<1>4. ~Partitioning /\ ~Heaping /\ ~Inserting /\ ~Done
    BY DEF Init, Partitioning, Heaping, Inserting, Done
<1> QED BY <1>1, <1>2, <1>3, <1>4 DEF IInv, Scanned, HeapInside, Inserted

\* Changing the places of two elements of the current range disturbs no order
\* between that range and the others, nor between two others.
LEMMA ExchangeKeepsOrder ==
    ASSUME TypeOK, Once, Disjoint, VisitsInOrder, work # <<>>,
           NEW x \in lo..hi - 1, NEW y \in lo..hi - 1,
           A' = Swapped(x, y), UNCHANGED <<key, work>>
    PROVE  VisitsInOrder'
<1>1. x \in Positions /\ y \in Positions
    BY HeadFacts
<1>2. /\ A'[x] = A[y] /\ A'[y] = A[x]
      /\ \A z \in Positions \ {x, y} : A'[z] = A[z]
    BY <1>1, SwapFacts DEF TypeOK
<1>3. \A z \in Positions : \E u \in Positions :
         A'[z] = A[u] /\ (z \in {x, y} => u \in {x, y}) /\ (z \notin {x, y} => u = z)
    BY <1>1, <1>2
<1>4. ASSUME NEW m \in DOMAIN work, NEW z \in work[m].lo..work[m].hi - 1
      PROVE  \E u \in work[m].lo..work[m].hi - 1 : A'[z] = A[u]
  <2>1. work[m].lo \in 0..N /\ work[m].hi \in 0..N /\ z \in Positions
      BY WorkFacts
  <2>2. CASE m = 1
    <3>1. PICK u \in Positions :
             A'[z] = A[u] /\ (z \in {x, y} => u \in {x, y}) /\ (z \notin {x, y} => u = z)
        BY <1>3, <2>1
    <3>2. u \in work[m].lo..work[m].hi - 1
        BY <3>1, <2>2, HeadFacts
    <3> QED BY <3>1, <3>2
  <2>3. CASE m # 1
    <3>1. 1 \in DOMAIN work /\ 1 < m
        BY <2>3, WorkFacts, HeadFacts
    <3>2. hi <= work[m].lo
        BY <3>1, HeadFacts DEF Disjoint
    <3>3. z \notin {x, y}
        BY <3>2, <2>1, HeadFacts
    <3> QED BY <3>3, <2>1, <1>2
  <2> QED BY <2>2, <2>3
<1>5. ASSUME NEW m \in DOMAIN work, NEW n \in DOMAIN work, m < n,
             NEW v \in work[m].lo..work[m].hi - 1,
             NEW w \in work[n].lo..work[n].hi - 1
      PROVE  ~(key[A'[w]] < key[A'[v]])
    BY <1>4, <1>5 DEF VisitsInOrder, cmp
<1> QED BY <1>5 DEF VisitsInOrder, cmp

----------------------------------------------------------------------------
(* What each step does to the invariant *)


LEMMA CallStep == IInv /\ Call => IInv'
<1> SUFFICES ASSUME IInv, Call
             PROVE  IInv'
    OBVIOUS
<1> TypeOK /\ Once
    BY DEF IInv
<1> DEFINE whole == [lo |-> 0, hi |-> N, limit |-> (31 - nlz(N)) * Depth]
<1>1. whole \in Ranges
    BY nlzType DEF Ranges
<1>2. /\ work' = <<whole>> /\ key' \in [Positions -> Keys]
      /\ UNCHANGED <<A, i, j, pivot, p, size>>
    BY DEF Call
<1>3. whole.lo = 0 /\ whole.hi = N
    OBVIOUS
<1> HIDE DEF whole
<1>4. work' \in Seq(Ranges) /\ DOMAIN work' = {1} /\ work'[1] = whole
    BY <1>1, <1>2
<1>5. at' \in Places /\ ~Partitioning' /\ ~Heaping' /\ ~Inserting' /\ ~Done'
    BY DEF Call, Places, Partitioning, Heaping, Inserting, Done
<1>6. TypeOK'
    BY <1>2, <1>4, <1>5 DEF TypeOK
<1>7. Disjoint' /\ VisitsInOrder'
    BY <1>3, <1>4 DEF Disjoint, VisitsInOrder
<1>8. Once'
    BY <1>2 DEF Once
<1> QED BY <1>5, <1>6, <1>7, <1>8 DEF IInv, Scanned, HeapInside, Inserted

\* The ranges behind the first, which is not visited again.
LEMMA NextRange ==
    ASSUME IInv, work # <<>>, work' = Tail(work),
           UNCHANGED <<key, A, i, j, pivot, p, size>>, at' \in Places
    PROVE  TypeOK' /\ Once' /\ Disjoint' /\ VisitsInOrder'
<1> TypeOK /\ Once /\ Disjoint /\ VisitsInOrder
    BY DEF IInv
<1>1. work \in Seq(Ranges)
    BY DEF TypeOK
<1>2. /\ work' \in Seq(Ranges)
      /\ DOMAIN work' = 1..Len(work) - 1
      /\ \A m \in 1..Len(work) - 1 : work'[m] = work[m + 1]
    BY <1>1, TailFacts
<1>3. DOMAIN work = 1..Len(work) /\ Len(work) \in Nat
    BY WorkFacts
<1>4. TypeOK'
    BY <1>2 DEF TypeOK
<1>5. /\ \A m \in DOMAIN work' : m + 1 \in DOMAIN work /\ work'[m] = work[m + 1]
      /\ \A m, n \in DOMAIN work' : m < n => m + 1 < n + 1
    BY <1>2, <1>3
<1>6. Disjoint'
    BY <1>5 DEF Disjoint
<1>7. VisitsInOrder'
    BY <1>5 DEF VisitsInOrder, cmp
<1> QED BY <1>4, <1>6, <1>7 DEF Once

LEMMA LeaveShortStep == IInv /\ LeaveShort => IInv'
<1> SUFFICES ASSUME IInv, LeaveShort
             PROVE  IInv'
    OBVIOUS
<1>1. at' \in Places /\ ~Partitioning' /\ ~Heaping' /\ ~Inserting' /\ ~Done'
    BY DEF LeaveShort, Places, Partitioning, Heaping, Inserting, Done
<1>2. TypeOK' /\ Once' /\ Disjoint' /\ VisitsInOrder'
    BY <1>1, NextRange DEF LeaveShort
<1> QED BY <1>1, <1>2 DEF IInv, Scanned, HeapInside, Inserted

\* A step that moves no element and visits no other range.
LEMMA NothingMoves ==
    ASSUME IInv, UNCHANGED <<key, A, work>>
    PROVE  /\ Once' /\ Disjoint' /\ VisitsInOrder'
           /\ lo' = lo /\ hi' = hi
           /\ TypeOK' <=> /\ at' \in Places /\ i' \in Int /\ j' \in Int
                          /\ pivot' \in Positions /\ p' \in Nat /\ size' \in Nat
    BY DEF IInv, TypeOK, Once, Disjoint, VisitsInOrder, cmp, lo, hi

LEMMA StartPartitionStep == IInv /\ StartPartition => IInv'
<1> SUFFICES ASSUME IInv, StartPartition
             PROVE  IInv'
    OBVIOUS
<1> TypeOK
    BY DEF IInv
<1>0. /\ work # <<>> /\ hi - lo >= k_ /\ i' = lo /\ j' = hi - 1
      /\ UNCHANGED <<key, A, work, p, size>>
    BY DEF StartPartition
<1>1. /\ at' \in Places /\ Partitioning' /\ ~ScanningDown'
      /\ ~Heaping' /\ ~Inserting' /\ ~Done'
    BY DEF StartPartition, Places, Partitioning, ScanningDown, Heaping,
           Inserting, Done
<1> DEFINE mid == lo + (hi - 1 - lo) \div 2
<1>2. /\ lo \in Int /\ hi \in Int /\ lo < hi
      /\ \A x \in lo..hi - 1 : x \in Positions
    BY <1>0, HeadFacts
<1>3. {lo, mid, hi - 1} \subseteq lo..hi - 1
    BY <1>2
<1>4. PICK x \in lo..hi - 1 : pivot' = A[x]
  <2>1. pivot' = median_of_3(A[lo], A[mid], A[hi - 1])
      BY DEF StartPartition
  <2>2. pivot' \in {A[lo], A[mid], A[hi - 1]}
      BY <2>1, MedianIsOneOfThem, Zenon
  <2> QED BY <1>3, <2>2, Zenon
<1> HIDE DEF mid
<1>5. x \in Positions /\ pivot' \in Positions
    BY <1>2, <1>4 DEF TypeOK
<1>6. ~cmp(pivot', A[x])
    BY <1>4, <1>5, Comparable
<1>7. TypeOK' /\ Once' /\ Disjoint' /\ VisitsInOrder' /\ lo' = lo /\ hi' = hi
    BY <1>0, <1>1, <1>2, <1>5, NothingMoves DEF TypeOK
<1>8. Scanned'
  <2>1. i' \in lo..hi - 1 /\ j' \in lo..hi - 1
      BY <1>0, <1>2
  <2>2. x \in i'..hi - 1 /\ x \in lo..j'
      BY <1>0, <1>2, <1>4
  <2>3. lo..i' - 1 = {} /\ j' + 1..hi - 1 = {}
      BY <1>0, <1>2
  <2> QED BY <1>0, <1>1, <1>4, <1>6, <1>7, <2>1, <2>2, <2>3 DEF Scanned, cmp
<1> QED BY <1>1, <1>7, <1>8 DEF IInv, HeapInside, Inserted

LEMMA ScanUpStep == IInv /\ ScanUp => IInv'
<1> SUFFICES ASSUME IInv, ScanUp
             PROVE  IInv'
    OBVIOUS
<1> TypeOK /\ Scanned
    BY DEF IInv
<1>0. UNCHANGED <<key, A, work, j, pivot, p, size>>
    BY DEF ScanUp
<1>1. /\ Partitioning /\ at' \in Places /\ Partitioning'
      /\ ~Heaping' /\ ~Inserting' /\ ~Done'
    BY DEF ScanUp, Places, Partitioning, Heaping, Inserting, Done
<1>2. work # <<>> /\ i \in lo..hi - 1 /\ j \in lo..hi - 1
    BY <1>1 DEF Scanned
<1>3. /\ lo \in Int /\ hi \in Int
      /\ i \in Positions /\ A[i] \in Positions /\ pivot \in Positions
    BY <1>2, HeadFacts DEF TypeOK
<1>4. Once' /\ Disjoint' /\ VisitsInOrder' /\ lo' = lo /\ hi' = hi
    BY <1>0, NothingMoves
<1>5. CASE cmp(A[i], pivot)
  <2>1. i' = i + 1 /\ ~ScanningDown'
      BY <1>5 DEF ScanUp, ScanningDown
  <2>2. PICK x \in i..hi - 1 : ~cmp(A[x], pivot)
      BY <1>1 DEF Scanned
  <2>3. x \in i'..hi - 1 /\ i' \in lo..hi - 1
      BY <1>2, <1>3, <1>5, <2>1, <2>2
  <2>4. ~cmp(pivot, A[i])
      BY <1>3, <1>5, Comparable
  <2>5. \A z \in lo..i' - 1 : ~cmp(pivot, A[z])
      BY <1>1, <1>2, <1>3, <2>1, <2>4 DEF Scanned
  <2>6. Scanned'
      BY <1>0, <1>1, <1>2, <1>4, <2>1, <2>2, <2>3, <2>5 DEF Scanned, cmp
  <2>7. TypeOK'
      BY <1>0, <1>1, <1>3, <2>1, NothingMoves DEF TypeOK
  <2> QED BY <1>1, <1>4, <2>6, <2>7 DEF IInv, HeapInside, Inserted
<1>6. CASE ~cmp(A[i], pivot)
  <2>1. i' = i
      BY <1>6 DEF ScanUp
  <2>2. Scanned'
      BY <1>0, <1>1, <1>2, <1>4, <1>6, <2>1 DEF Scanned, cmp
  <2>3. TypeOK'
      BY <1>0, <1>1, <1>3, <2>1, NothingMoves DEF TypeOK
  <2> QED BY <1>1, <1>4, <2>2, <2>3 DEF IInv, HeapInside, Inserted
<1> QED BY <1>5, <1>6

LEMMA ScanDownStep == IInv /\ ScanDown => IInv'
<1> SUFFICES ASSUME IInv, ScanDown
             PROVE  IInv'
    OBVIOUS
<1> TypeOK /\ Scanned
    BY DEF IInv
<1>0. /\ cmp(pivot, A[j]) /\ j' = j - 1
      /\ UNCHANGED <<key, A, work, at, i, pivot, p, size>>
    BY DEF ScanDown
<1>1. /\ Partitioning /\ ScanningDown /\ Partitioning' /\ ScanningDown'
      /\ ~Heaping' /\ ~Inserting' /\ ~Done'
    BY DEF ScanDown, Partitioning, ScanningDown, Heaping, Inserting, Done
<1>2. work # <<>> /\ i \in lo..hi - 1 /\ j \in lo..hi - 1
    BY <1>1 DEF Scanned
<1>3. /\ lo \in Int /\ hi \in Int
      /\ j \in Positions /\ A[j] \in Positions /\ pivot \in Positions
    BY <1>2, HeadFacts DEF TypeOK
<1>4. TypeOK' /\ Once' /\ Disjoint' /\ VisitsInOrder' /\ lo' = lo /\ hi' = hi
    BY <1>0, <1>3, NothingMoves DEF TypeOK
<1>5. PICK x \in lo..j : ~cmp(pivot, A[x])
    BY <1>1 DEF Scanned
<1>6. x \in lo..j' /\ j' \in lo..hi - 1
    BY <1>0, <1>2, <1>3, <1>5
<1>7. ~cmp(A[j], pivot)
    BY <1>0, <1>3, Comparable
<1>8. \A z \in j' + 1..hi - 1 : ~cmp(A[z], pivot)
    BY <1>0, <1>1, <1>2, <1>3, <1>7 DEF Scanned
<1>9. Scanned'
    BY <1>0, <1>1, <1>2, <1>4, <1>5, <1>6, <1>8 DEF Scanned, cmp
<1> QED BY <1>1, <1>4, <1>9 DEF IInv, HeapInside, Inserted

\* Two elements of the current range change places.
LEMMA ExchangeInside ==
    ASSUME IInv, work # <<>>, NEW x \in lo..hi - 1, NEW y \in lo..hi - 1,
           A' = Swapped(x, y), UNCHANGED <<key, work>>
    PROVE  /\ Once' /\ Disjoint' /\ VisitsInOrder'
           /\ lo' = lo /\ hi' = hi
           /\ A'[x] = A[y] /\ A'[y] = A[x]
           /\ \A z \in lo..hi - 1 : z # x /\ z # y => A'[z] = A[z]
           /\ TypeOK' <=> /\ at' \in Places /\ i' \in Int /\ j' \in Int
                          /\ pivot' \in Positions /\ p' \in Nat /\ size' \in Nat
<1> TypeOK /\ Once /\ Disjoint /\ VisitsInOrder
    BY DEF IInv
<1>1. x \in Positions /\ y \in Positions /\ \A z \in lo..hi - 1 : z \in Positions
    BY HeadFacts
<1>2. /\ A' \in [Positions -> Positions] /\ Once'
      /\ A'[x] = A[y] /\ A'[y] = A[x]
      /\ \A z \in lo..hi - 1 : z # x /\ z # y => A'[z] = A[z]
    BY <1>1, SwapFacts DEF TypeOK
<1>3. VisitsInOrder'
    BY ExchangeKeepsOrder
<1>4. Disjoint' /\ lo' = lo /\ hi' = hi
    BY DEF Disjoint, lo, hi
<1> QED BY <1>2, <1>3, <1>4 DEF TypeOK

LEMMA ExchangeStep == IInv /\ Exchange => IInv'
<1> SUFFICES ASSUME IInv, Exchange
             PROVE  IInv'
    OBVIOUS
<1> TypeOK /\ Scanned
    BY DEF IInv
<1>0. /\ ~cmp(pivot, A[j]) /\ i < j /\ A' = Swapped(i, j)
      /\ i' = i + 1 /\ j' = j - 1
      /\ UNCHANGED <<key, work, pivot, p, size>>
    BY DEF Exchange
<1>1. /\ Partitioning /\ ScanningDown /\ Partitioning' /\ ~ScanningDown'
      /\ ~Heaping' /\ ~Inserting' /\ ~Done' /\ at' \in Places
    BY DEF Exchange, Partitioning, ScanningDown, Heaping, Inserting, Done, Places
<1>2. work # <<>> /\ i \in lo..hi - 1 /\ j \in lo..hi - 1 /\ ~cmp(A[i], pivot)
    BY <1>1 DEF Scanned
<1>3. lo \in Int /\ hi \in Int /\ pivot \in Positions
    BY <1>2, HeadFacts DEF TypeOK
<1>4. /\ Once' /\ Disjoint' /\ VisitsInOrder' /\ lo' = lo /\ hi' = hi
      /\ A'[i] = A[j] /\ A'[j] = A[i]
      /\ \A z \in lo..hi - 1 : z # i /\ z # j => A'[z] = A[z]
    BY <1>0, <1>2, ExchangeInside
<1>5. TypeOK'
    BY <1>0, <1>1, <1>2, <1>3, ExchangeInside DEF TypeOK
<1>6. ~cmp(pivot, A'[i]) /\ ~cmp(A'[j], pivot)
    BY <1>0, <1>2, <1>4
<1>7. i' \in lo..hi - 1 /\ j' \in lo..hi - 1 /\ j \in i'..hi - 1 /\ i \in lo..j'
    BY <1>0, <1>2, <1>3
<1>8. \A x \in lo..i' - 1 : ~cmp(pivot, A'[x])
  <2> SUFFICES ASSUME NEW x \in lo..i' - 1
               PROVE  ~cmp(pivot, A'[x])
      OBVIOUS
  <2>1. CASE x = i
      BY <2>1, <1>6
  <2>2. CASE x # i
    <3>1. x \in lo..i - 1 /\ x \in lo..hi - 1 /\ x # j
        BY <2>2, <1>0, <1>2, <1>3
    <3> QED BY <3>1, <2>2, <1>1, <1>4 DEF Scanned
  <2> QED BY <2>1, <2>2
<1>9. \A x \in j' + 1..hi - 1 : ~cmp(A'[x], pivot)
  <2> SUFFICES ASSUME NEW x \in j' + 1..hi - 1
               PROVE  ~cmp(A'[x], pivot)
      OBVIOUS
  <2>1. CASE x = j
      BY <2>1, <1>6
  <2>2. CASE x # j
    <3>1. x \in j + 1..hi - 1 /\ x \in lo..hi - 1 /\ x # i
        BY <2>2, <1>0, <1>2, <1>3
    <3> QED BY <3>1, <2>2, <1>1, <1>4 DEF Scanned
  <2> QED BY <2>1, <2>2
<1>10. Scanned'
    BY <1>0, <1>1, <1>2, <1>4, <1>6, <1>7, <1>8, <1>9 DEF Scanned, cmp
<1> QED BY <1>1, <1>4, <1>5, <1>10 DEF IInv, HeapInside, Inserted

\* The parts of a partition: what is before j is not above the pivot, what is
\* behind it not below.
LEMMA EndPartitionStep == IInv /\ EndPartition => IInv'
<1> SUFFICES ASSUME IInv, EndPartition
             PROVE  IInv'
    OBVIOUS
<1> TypeOK /\ Once /\ Disjoint /\ VisitsInOrder /\ Scanned
    BY DEF IInv
<1> DEFINE left == [lo |-> lo, hi |-> j, limit |-> limit - 1]
           right == [lo |-> j + 1, hi |-> hi, limit |-> limit - 1]
<1>0. /\ ~cmp(pivot, A[j]) /\ i >= j
      /\ work' = <<left, right>> \o Tail(work)
      /\ UNCHANGED <<key, A, i, j, pivot, p, size>>
    BY DEF EndPartition
<1>1. /\ Partitioning /\ ScanningDown /\ ~Partitioning'
      /\ ~Heaping' /\ ~Inserting' /\ ~Done' /\ at' \in Places
    BY DEF EndPartition, Partitioning, ScanningDown, Heaping, Inserting, Done, Places
<1>2. work # <<>> /\ i \in lo..hi - 1 /\ j \in lo..hi - 1
    BY <1>1 DEF Scanned
<1>3. /\ lo \in 0..N /\ hi \in 0..N /\ limit \in Int /\ pivot \in Positions
      /\ \A x \in lo..hi - 1 : x \in Positions
      /\ 1 \in DOMAIN work /\ lo = work[1].lo /\ hi = work[1].hi
    BY <1>2, HeadFacts DEF TypeOK
<1>4. left \in Ranges /\ right \in Ranges
    BY <1>2, <1>3 DEF Ranges
<1>5. /\ left.lo = lo /\ left.hi = j
      /\ right.lo = j + 1 /\ right.hi = hi
    OBVIOUS
<1> HIDE DEF left, right
<1>6. DOMAIN work = 1..Len(work) /\ Len(work) \in Nat /\ work \in Seq(Ranges)
    BY WorkFacts DEF TypeOK
<1>7. /\ work' \in Seq(Ranges) /\ DOMAIN work' = 1..Len(work) + 1
      /\ work'[1] = left /\ work'[2] = right
      /\ \A m \in 3..Len(work) + 1 : work'[m] = work[m - 1]
    BY <1>0, <1>2, <1>4, <1>6, SplitFacts
<1>8. TypeOK'
    BY <1>0, <1>1, <1>7 DEF TypeOK
<1>9. ASSUME NEW x \in lo..j - 1, NEW y \in j + 1..hi - 1
      PROVE  ~cmp(A[y], A[x])
  <2>1. x \in Positions /\ y \in Positions
      BY <1>2, <1>3
  <2>2. ~cmp(pivot, A[x]) /\ ~cmp(A[y], pivot)
      BY <1>0, <1>1, <1>2, <1>3 DEF Scanned
  <2>3. A[x] \in Positions /\ A[y] \in Positions
      BY <2>1 DEF TypeOK
  <2> QED BY <2>2, <2>3, <1>3, Comparable
\* Every new range lies in an old one, in the same order.
<1> DEFINE old(m) == IF m = 1 THEN 1 ELSE m - 1
<1>10. ASSUME NEW m \in DOMAIN work'
       PROVE  /\ old(m) \in DOMAIN work
              /\ work'[m].lo \in Int /\ work'[m].hi \in Int
              /\ work[old(m)].lo <= work'[m].lo
              /\ work'[m].lo <= work'[m].hi
              /\ work'[m].hi <= work[old(m)].hi
  <2>1. CASE m = 1
      BY <2>1, <1>2, <1>3, <1>5, <1>7
  <2>2. CASE m = 2
      BY <2>2, <1>2, <1>3, <1>5, <1>7
  <2>3. CASE m \in 3..Len(work) + 1
    <3>1. m - 1 \in DOMAIN work /\ work'[m] = work[m - 1] /\ old(m) = m - 1
        BY <2>3, <1>6, <1>7
    <3> QED BY <3>1, WorkFacts DEF Disjoint
  <2> QED BY <2>1, <2>2, <2>3, <1>6, <1>7
<1>11. ASSUME NEW m \in DOMAIN work', NEW n \in DOMAIN work', m < n
       PROVE  old(m) < old(n) \/ (m = 1 /\ n = 2)
    BY <1>6, <1>7, <1>11
<1>12. ASSUME NEW m \in DOMAIN work', NEW n \in DOMAIN work', m < n
       PROVE  work'[m].hi <= work'[n].lo
  <2>1. CASE old(m) < old(n)
    <3> HIDE DEF old
    <3>1. work[old(m)].hi <= work[old(n)].lo
        BY <2>1, <1>10 DEF Disjoint
    <3>2. /\ work[old(m)].hi \in Int /\ work[old(n)].lo \in Int
        BY <1>10, WorkFacts
    <3> QED BY <3>1, <3>2, <1>10
  <2>2. CASE m = 1 /\ n = 2
      BY <2>2, <1>2, <1>3, <1>5, <1>7
  <2> QED BY <2>1, <2>2, <1>11, <1>12
<1>13. ASSUME NEW m \in DOMAIN work', NEW n \in DOMAIN work', m < n,
              NEW x \in work'[m].lo..work'[m].hi - 1,
              NEW y \in work'[n].lo..work'[n].hi - 1
       PROVE  ~cmp(A[y], A[x])
  <2>1. CASE old(m) < old(n)
    <3> HIDE DEF old
    <3>1. /\ x \in work[old(m)].lo..work[old(m)].hi - 1
          /\ y \in work[old(n)].lo..work[old(n)].hi - 1
      <4>1. /\ work[old(m)].lo \in Int /\ work[old(m)].hi \in Int
            /\ work[old(n)].lo \in Int /\ work[old(n)].hi \in Int
          BY <1>10, WorkFacts
      <4> QED BY <4>1, <1>10
    <3> QED BY <3>1, <2>1, <1>10 DEF VisitsInOrder
  <2>2. CASE m = 1 /\ n = 2
      BY <2>2, <1>5, <1>7, <1>9
  <2> QED BY <2>1, <2>2, <1>11, <1>13
<1>14. Disjoint'
    BY <1>10, <1>12 DEF Disjoint
<1>15. VisitsInOrder'
    BY <1>0, <1>13 DEF VisitsInOrder, cmp
<1>16. Once'
    BY <1>0 DEF Once
<1> QED BY <1>1, <1>8, <1>14, <1>15, <1>16 DEF IInv, Scanned, HeapInside, Inserted

LEMMA StartHeapStep == IInv /\ StartHeap => IInv'
<1> SUFFICES ASSUME IInv, StartHeap
             PROVE  IInv'
    OBVIOUS
<1> TypeOK
    BY DEF IInv
<1>0. /\ work # <<>> /\ hi - lo >= k_ /\ size' = hi - lo
      /\ i' = (hi - lo) \div 2 /\ p' = (hi - lo) \div 2
      /\ UNCHANGED <<key, A, work, j, pivot>>
    BY DEF StartHeap
<1>1. at' \in Places /\ ~Partitioning' /\ ~Inserting' /\ ~Done'
    BY DEF StartHeap, Places, Partitioning, Inserting, Done
<1>2. lo \in Int /\ hi \in Int
    BY <1>0, HeadFacts
<1>3. /\ (hi - lo) \div 2 \in 0..hi - lo - 1
      /\ hi - lo \in Nat
    BY <1>0, <1>2
<1>4. Once' /\ Disjoint' /\ VisitsInOrder' /\ lo' = lo /\ hi' = hi
    BY <1>0, NothingMoves
<1>5. i' \in 0..hi - lo /\ p' \in 0..hi - lo - 1 /\ size' \in 0..hi - lo
    BY <1>0, <1>2, <1>3
<1>6. TypeOK'
    BY <1>0, <1>1, <1>2, <1>3, NothingMoves DEF TypeOK
<1>7. HeapInside'
    BY <1>0, <1>4, <1>5 DEF HeapInside
<1> QED BY <1>1, <1>4, <1>6, <1>7 DEF IInv, Scanned, Inserted

LEMMA SiftStep == IInv /\ Sift => IInv'
<1> SUFFICES ASSUME IInv, Sift
             PROVE  IInv'
    OBVIOUS
<1> TypeOK /\ HeapInside
    BY DEF IInv
<1>0. /\ 2 * p + 1 < size
      /\ A' = Swapped(lo + p, lo + Child) /\ p' = Child
      /\ UNCHANGED <<key, work, at, i, j, pivot, size>>
    BY DEF Sift, Sinks
<1>1. Heaping /\ at' \in Places /\ ~Partitioning' /\ ~Inserting' /\ ~Done'
    BY DEF Sift, Heaping, Places, Partitioning, Inserting, Done
<1>2. /\ work # <<>> /\ i \in 0..hi - lo /\ p \in 0..hi - lo - 1
      /\ size \in 0..hi - lo
    BY <1>1 DEF HeapInside
<1>3. lo \in Int /\ hi \in Int
    BY <1>2, HeadFacts
<1>4. Child \in 0..size - 1
    BY <1>0, <1>2, <1>3 DEF Child
<1>5. lo + p \in lo..hi - 1 /\ lo + Child \in lo..hi - 1
  <2> HIDE DEF Child
  <2> QED BY <1>2, <1>3, <1>4
<1>6. /\ Once' /\ Disjoint' /\ VisitsInOrder' /\ lo' = lo /\ hi' = hi
      /\ TypeOK' <=> /\ at' \in Places /\ i' \in Int /\ j' \in Int
                     /\ pivot' \in Positions /\ p' \in Nat /\ size' \in Nat
    BY <1>0, <1>2, <1>5, ExchangeInside
<1>7. TypeOK'
    BY <1>0, <1>1, <1>2, <1>3, <1>4, <1>6 DEF TypeOK
<1>8. HeapInside'
    BY <1>0, <1>2, <1>3, <1>4, <1>6 DEF HeapInside
<1> QED BY <1>1, <1>6, <1>7, <1>8 DEF IInv, Scanned, Inserted

LEMMA BuildStep == IInv /\ Build => IInv'
<1> SUFFICES ASSUME IInv, Build
             PROVE  IInv'
    OBVIOUS
<1> TypeOK /\ HeapInside
    BY DEF IInv
<1>0. UNCHANGED <<key, A, work, j, pivot>>
    BY DEF Build
<1>1. Heaping /\ at' \in Places /\ ~Partitioning' /\ ~Inserting' /\ ~Done'
    BY DEF Build, Heaping, Places, Partitioning, Inserting, Done
<1>2. /\ work # <<>> /\ i \in 0..hi - lo /\ p \in 0..hi - lo - 1
      /\ size \in 0..hi - lo
    BY <1>1 DEF HeapInside
<1>3. lo \in Int /\ hi \in Int
    BY <1>2, HeadFacts
<1>4. Once' /\ Disjoint' /\ VisitsInOrder' /\ lo' = lo /\ hi' = hi
    BY <1>0, NothingMoves
<1>5. \/ i > 0 /\ i' = i - 1 /\ p' = i - 1 /\ size' = size
      \/ i' = hi - lo /\ p' = 0 /\ size' = 0
    BY DEF Build
<1>6. i' \in 0..hi - lo /\ p' \in 0..hi - lo - 1 /\ size' \in 0..hi - lo
    BY <1>2, <1>3, <1>5
<1>7. TypeOK'
    BY <1>0, <1>1, <1>3, <1>6, NothingMoves DEF TypeOK
<1>8. HeapInside'
    BY <1>0, <1>2, <1>4, <1>6 DEF HeapInside
<1> QED BY <1>1, <1>4, <1>7, <1>8 DEF IInv, Scanned, Inserted

LEMMA ExtractStep == IInv /\ Extract => IInv'
<1> SUFFICES ASSUME IInv, Extract
             PROVE  IInv'
    OBVIOUS
<1> TypeOK /\ HeapInside
    BY DEF IInv
<1>0. /\ i > 1 /\ A' = Swapped(lo, lo + i - 1)
      /\ i' = i - 1 /\ p' = 0 /\ size' = i - 1
      /\ UNCHANGED <<key, work, at, j, pivot>>
    BY DEF Extract
<1>1. Heaping /\ at' \in Places /\ ~Partitioning' /\ ~Inserting' /\ ~Done'
    BY DEF Extract, Heaping, Places, Partitioning, Inserting, Done
<1>2. work # <<>> /\ i \in 0..hi - lo /\ p \in 0..hi - lo - 1
    BY <1>1 DEF HeapInside
<1>3. lo \in Int /\ hi \in Int
    BY <1>2, HeadFacts
<1>4. /\ lo \in lo..hi - 1 /\ lo + i - 1 \in lo..hi - 1
      /\ i' \in 0..hi - lo /\ p' \in 0..hi - lo - 1 /\ size' \in 0..hi - lo
    BY <1>0, <1>2, <1>3
<1>5. /\ Once' /\ Disjoint' /\ VisitsInOrder' /\ lo' = lo /\ hi' = hi
      /\ TypeOK' <=> /\ at' \in Places /\ i' \in Int /\ j' \in Int
                     /\ pivot' \in Positions /\ p' \in Nat /\ size' \in Nat
    BY <1>0, <1>2, <1>4, ExchangeInside
<1>6. TypeOK'
    BY <1>0, <1>1, <1>3, <1>4, <1>5 DEF TypeOK
<1>7. HeapInside'
    BY <1>0, <1>2, <1>4, <1>5 DEF HeapInside
<1> QED BY <1>1, <1>5, <1>6, <1>7 DEF IInv, Scanned, Inserted

LEMMA EndHeapStep == IInv /\ EndHeap => IInv'
<1> SUFFICES ASSUME IInv, EndHeap
             PROVE  IInv'
    OBVIOUS
<1>1. /\ Heaping /\ at' \in Places /\ ~Partitioning' /\ ~Heaping'
      /\ ~Inserting' /\ ~Done'
    BY DEF EndHeap, Heaping, Places, Partitioning, Inserting, Done
<1>2. work # <<>>
    BY <1>1 DEF IInv, HeapInside
<1>3. TypeOK' /\ Once' /\ Disjoint' /\ VisitsInOrder'
    BY <1>1, <1>2, NextRange DEF EndHeap
<1> QED BY <1>1, <1>3 DEF IInv, Scanned, HeapInside, Inserted

LEMMA StartInsertionStep == IInv /\ StartInsertion => IInv'
<1> SUFFICES ASSUME IInv, StartInsertion
             PROVE  IInv'
    OBVIOUS
<1>0. work = <<>> /\ j' = 1 /\ UNCHANGED <<key, A, work, i, pivot, p, size>>
    BY DEF StartInsertion
<1>1. at' \in Places /\ ~Partitioning' /\ ~Heaping' /\ ~Done'
    BY DEF StartInsertion, Places, Partitioning, Heaping, Done
<1>2. TypeOK' /\ Once' /\ Disjoint' /\ VisitsInOrder'
    BY <1>0, <1>1, NothingMoves DEF IInv, TypeOK
<1>3. Inserted'
    BY <1>0, <1>1 DEF Inserted
<1> QED BY <1>1, <1>2, <1>3 DEF IInv, Scanned, HeapInside

\* The element at j is put behind the last that is not above it.
LEMMA InsertStep == IInv /\ Insert => IInv'
<1> SUFFICES ASSUME IInv, Insert
             PROVE  IInv'
    OBVIOUS
<1> TypeOK /\ Once /\ Inserted
    BY DEF IInv
<1>0. j < N /\ j' = j + 1 /\ UNCHANGED <<key, work, at, i, pivot, p, size>>
    BY DEF Insert
<1>1. /\ Inserting /\ at' \in Places
      /\ ~Partitioning' /\ ~Heaping' /\ ~Done'
    BY DEF Insert, Inserting, Places, Partitioning, Heaping, Done
<1>2. /\ work = <<>>
      /\ j \in 1..N /\ j \in Positions /\ j' \in 1..N
      /\ \A x, y \in 0..j - 1 : x < y => ~cmp(A[y], A[x])
    BY <1>0, <1>1 DEF Inserted, Positions
<1>3. PICK k \in 0..j :
         /\ \A x \in k..j - 1 : cmp(A[j], A[x])
         /\ k > 0 => ~cmp(A[j], A[k - 1])
         /\ A' = MovedDown(k)
    BY DEF Insert
<1>4. /\ A' \in [Positions -> Positions] /\ Once'
      /\ A'[k] = A[j]
      /\ \A x \in Positions : x < k \/ x > j => A'[x] = A[x]
      /\ \A x \in k + 1..j : A'[x] = A[x - 1]
    BY <1>2, <1>3, MoveFacts DEF TypeOK
<1>5. \A x \in 0..j : x \in Positions /\ A[x] \in Positions
    BY <1>2 DEF TypeOK, Positions
\* What stands before position k is not above what moved there.
<1>6. ASSUME NEW x \in 0..k - 1
      PROVE  ~cmp(A[j], A[x])
  <2>1. ~cmp(A[j], A[k - 1]) /\ k - 1 \in 0..j - 1 /\ x \in 0..j - 1
      BY <1>2, <1>3
  <2>2. CASE x = k - 1
      BY <2>1, <2>2
  <2>3. CASE x < k - 1
    <3>1. ~cmp(A[k - 1], A[x])
        BY <2>1, <2>3, <1>2
    <3>2. A[k - 1] \in Positions /\ A[x] \in Positions /\ A[j] \in Positions
        BY <2>1, <1>2, <1>5
    <3> QED BY <3>1, <3>2, <2>1, Comparable
  <2> QED BY <2>2, <2>3
<1>7. ASSUME NEW x \in 0..j, NEW y \in 0..j, x < y
      PROVE  ~cmp(A'[y], A'[x])
  <2>1. CASE y < k
      BY <2>1, <1>2, <1>4, <1>5, <1>7
  <2>2. CASE y = k
    <3>1. x \in 0..k - 1 /\ A'[x] = A[x] /\ A'[y] = A[j]
        BY <2>2, <1>4, <1>5, <1>7
    <3> QED BY <3>1, <1>6
  <2>3. CASE y > k
    <3>1. A'[y] = A[y - 1] /\ y - 1 \in k..j - 1 /\ y - 1 \in 0..j - 1
        BY <2>3, <1>2, <1>3, <1>4, <1>7
    <3>2. CASE x < k
      <4>1. A'[x] = A[x] /\ x \in 0..j - 1 /\ x < y - 1
          BY <3>2, <2>3, <1>2, <1>3, <1>4, <1>5, <1>7
      <4> QED BY <4>1, <3>1, <1>2
    <3>3. CASE x = k
      <4>1. A'[x] = A[j] /\ cmp(A[j], A[y - 1])
          BY <3>1, <3>3, <1>3, <1>4
      <4>2. A[j] \in Positions /\ A[y - 1] \in Positions
          BY <3>1, <1>2, <1>5
      <4> QED BY <4>1, <4>2, <3>1, Comparable
    <3>4. CASE x > k
      <4>1. A'[x] = A[x - 1] /\ x - 1 \in 0..j - 1 /\ x - 1 < y - 1
          BY <3>4, <2>3, <1>2, <1>3, <1>4, <1>7
      <4> QED BY <4>1, <3>1, <1>2
    <3> QED BY <3>2, <3>3, <3>4
  <2> QED BY <2>1, <2>2, <2>3
<1>8. TypeOK'
    BY <1>0, <1>1, <1>2, <1>4 DEF TypeOK
<1>9. Inserted'
  <2>1. \A x, y \in 0..j' - 1 : x < y => ~cmp(A'[y], A'[x])
      BY <1>0, <1>2, <1>7
  <2>2. \A x, y \in 0..j' - 1 : x < y => ~(key'[A'[y]] < key'[A'[x]])
      BY <1>0, <2>1 DEF cmp
  <2> QED BY <1>0, <1>1, <1>2, <2>2 DEF Inserted, cmp
<1>10. Disjoint' /\ VisitsInOrder'
    BY <1>0, <1>2 DEF Disjoint, VisitsInOrder
<1> QED BY <1>1, <1>4, <1>8, <1>9, <1>10 DEF IInv, Scanned, HeapInside

LEMMA ReturnStep == IInv /\ Return => IInv'
<1> SUFFICES ASSUME IInv, Return
             PROVE  IInv'
    OBVIOUS
<1> TypeOK /\ Inserted
    BY DEF IInv
<1>0. j >= N /\ UNCHANGED <<key, A, work, i, j, pivot, p, size>>
    BY DEF Return
<1>1. Inserting /\ at' \in Places /\ ~Partitioning' /\ ~Heaping' /\ ~Inserting'
    BY DEF Return, Inserting, Places, Partitioning, Heaping
<1>2. TypeOK' /\ Once' /\ Disjoint' /\ VisitsInOrder'
    BY <1>0, <1>1, NothingMoves DEF IInv, TypeOK
<1>3. j = N
    BY <1>0, <1>1 DEF Inserted
<1>4. Inserted'
    BY <1>0, <1>1, <1>3 DEF Inserted, Positions, cmp
<1> QED BY <1>1, <1>2, <1>4 DEF IInv, Scanned, HeapInside

----------------------------------------------------------------------------
(* Every step keeps the invariant *)

LEMMA NextIInv == IInv /\ [Next]_vars => IInv'
<1> SUFFICES ASSUME IInv, [Next]_vars
             PROVE  IInv'
    OBVIOUS
<1>1. CASE Call
    BY <1>1, CallStep
<1>2. CASE LeaveShort
    BY <1>2, LeaveShortStep
<1>3. CASE StartPartition
    BY <1>3, StartPartitionStep
<1>4. CASE ScanUp
    BY <1>4, ScanUpStep
<1>5. CASE ScanDown
    BY <1>5, ScanDownStep
<1>6. CASE Exchange
    BY <1>6, ExchangeStep
<1>7. CASE EndPartition
    BY <1>7, EndPartitionStep
<1>8. CASE StartHeap
    BY <1>8, StartHeapStep
<1>9. CASE Sift
    BY <1>9, SiftStep
<1>10. CASE Build
    BY <1>10, BuildStep
<1>11. CASE Extract
    BY <1>11, ExtractStep
<1>12. CASE EndHeap
    BY <1>12, EndHeapStep
<1>13. CASE StartInsertion
    BY <1>13, StartInsertionStep
<1>14. CASE Insert
    BY <1>14, InsertStep
<1>15. CASE Return
    BY <1>15, ReturnStep
<1>16. CASE UNCHANGED vars
  <2>1. UNCHANGED <<key, A, work, at, i, j, pivot, p, size>>
      BY <1>16 DEF vars
  <2>2. /\ Partitioning' <=> Partitioning
        /\ Heaping' <=> Heaping
        /\ Inserting' <=> Inserting
        /\ Done' <=> Done
        /\ ScanningDown' <=> ScanningDown
        /\ lo' = lo /\ hi' = hi
      BY <2>1 DEF Partitioning, Heaping, Inserting, Done, ScanningDown, lo, hi
  <2>3. Scanned' /\ HeapInside'
      BY <2>1, <2>2 DEF IInv, Scanned, HeapInside, cmp
  <2>4. Inserted'
      BY <2>1, <2>2 DEF IInv, Inserted, cmp
  <2>5. TypeOK' /\ Once' /\ Disjoint' /\ VisitsInOrder'
      BY <2>1, NothingMoves DEF IInv, TypeOK
  <2> QED BY <2>3, <2>4, <2>5 DEF IInv
<1> QED BY <1>1, <1>2, <1>3, <1>4, <1>5, <1>6, <1>7, <1>8, <1>9, <1>10, <1>11,
           <1>12, <1>13, <1>14, <1>15, <1>16 DEF Next, Run

LEMMA SpecIInv == Spec => []IInv
<1> QED BY InitIInv, NextIInv, PTL DEF Spec

----------------------------------------------------------------------------
(* Heap sort: what is taken out of the heap is the largest                 *)

\* A set of natural numbers has a least one.
LEMMA LeastNumber ==
    ASSUME NEW T \in SUBSET Nat, T # {}
    PROVE  \E m \in T : \A n \in T : m <= n
<1> DEFINE upTo(m) == 0..m
           Ts == {upTo(m) : m \in T}
<1>1. \A m \in T : IsFiniteSet(upTo(m)) /\ upTo(m) \in SUBSET Nat
  <2> SUFFICES ASSUME NEW m \in T PROVE IsFiniteSet(0..m) /\ 0..m \in SUBSET Nat
      OBVIOUS
  <2>1. 0 \in Int /\ m \in Int
      OBVIOUS
  <2> QED BY <2>1, FS_Interval
<1>2. Ts \subseteq FiniteSubsetsOf(Nat) /\ Ts # {}
    BY <1>1 DEF FiniteSubsetsOf
<1>3. PICK X \in Ts : \A Y \in Ts : ~ (<<Y, X>> \in StrictSubsetOrdering(Nat))
  <2> HIDE DEF Ts
  <2> QED BY <1>2, FS_StrictSubsetOrderingWellFounded, WFMin
<1>4. PICK m \in T : X = upTo(m)
    BY <1>3
<1>5. ASSUME NEW n \in T, n < m PROVE FALSE
  <2>1. upTo(n) \in Ts /\ upTo(n) \subseteq upTo(m) /\ m \in upTo(m) \ upTo(n)
      BY <1>5
  <2>2. <<upTo(n), upTo(m)>> \in StrictSubsetOrdering(Nat)
      BY <1>1, <2>1 DEF StrictSubsetOrdering
  <2> QED BY <1>3, <1>4, <2>1, <2>2
<1> QED BY <1>5

\* Position q of the heap has the child c; its element is not less than that of
\* position c.
Parent(q, c) == c = 2 * q + 1 \/ c = 2 * q + 2
Above(q, c) == ~cmp(A[lo + q], A[lo + c])

\* From position f on the first m elements of the range are a heap.
Ordered(f, m) == \A q \in f..m - 1, c \in 0..m - 1 : Parent(q, c) => Above(q, c)

\* The same but for position p, whose children would do below its parent.
OrderedBut(f, m) ==
    /\ \A q \in f..m - 1, c \in 0..m - 1 : Parent(q, c) /\ q # p => Above(q, c)
    /\ \A q \in f..m - 1, c \in 0..m - 1 : Parent(q, p) /\ Parent(p, c) => Above(q, c)

Building == at = "build"
Extracting == at = "extract"

\* Before the first extraction size is 0 and the range is a heap already.
HeapInv ==
    /\ Building => /\ size = hi - lo /\ i <= p
                   /\ OrderedBut(i, hi - lo)
    /\ Extracting => \/ size = i /\ p < i /\ OrderedBut(0, i)
                     \/ size = 0 /\ i = hi - lo /\ Ordered(0, i)

LInv == HeapInv /\ TakesTheLargest

\* Of elements of the range it is enough to know their keys.
LEMMA Keyed ==
    ASSUME TypeOK, work # <<>>, NEW x \in 0..hi - lo - 1
    PROVE  /\ lo + x \in Positions /\ A[lo + x] \in Positions
           /\ key[A[lo + x]] \in Int
<1>1. lo \in Int /\ hi \in Int /\ lo + x \in lo..hi - 1
    BY HeadFacts
<1>2. lo + x \in Positions
    BY <1>1, HeadFacts
<1> QED BY <1>2, KeysAssumption DEF TypeOK

\* When nothing sinks any more, position p is no exception.
LEMMA NothingSinks ==
    ASSUME TypeOK, work # <<>>, NEW f \in Nat, size \in 0..hi - lo,
           p \in 0..hi - lo - 1, ~Sinks, OrderedBut(f, size)
    PROVE  Ordered(f, size)
<1> SUFFICES ASSUME NEW q \in f..size - 1, NEW c \in 0..size - 1, Parent(q, c)
             PROVE  Above(q, c)
    BY DEF Ordered
<1>1. lo \in Int /\ hi \in Int
    BY HeadFacts
<1>2. CASE q # p
    BY <1>2 DEF OrderedBut
<1>3. CASE q = p
  <2>1. \A x \in 0..size - 1 : key[A[lo + x]] \in Int
      BY <1>1, Keyed
  <2>2. 2 * p + 1 < size /\ ~cmp(A[lo + p], A[lo + Child])
      BY <1>1, <1>3 DEF Sinks, Parent
  <2>3. CASE Child = 2 * p + 2
    <3>1. 2 * p + 2 < size /\ cmp(A[lo + (2 * p + 1)], A[lo + (2 * p + 2)])
        BY <1>1, <2>2, <2>3 DEF Child
    <3>2. {p, 2 * p + 1, 2 * p + 2} \subseteq 0..size - 1 /\ c \in {2 * p + 1, 2 * p + 2}
        BY <1>3, <3>1 DEF Parent
    <3> QED BY <1>3, <2>1, <2>2, <2>3, <3>1, <3>2 DEF Above, cmp
  <2>4. CASE Child = 2 * p + 1
    <3>1. 2 * p + 2 < size => ~cmp(A[lo + (2 * p + 1)], A[lo + (2 * p + 2)])
        BY <1>1, <2>4 DEF Child
    <3>2. CASE c = 2 * p + 1
        BY <1>3, <2>2, <2>4, <3>2 DEF Above
    <3>3. CASE c = 2 * p + 2
      <4>1. {p, 2 * p + 1, 2 * p + 2} \subseteq 0..size - 1
          BY <1>3, <3>3
      <4>2. /\ key[A[lo + p]] \in Int /\ key[A[lo + (2 * p + 1)]] \in Int
            /\ key[A[lo + (2 * p + 2)]] \in Int
          BY <2>1, <4>1
      <4>3. /\ ~(key[A[lo + p]] < key[A[lo + (2 * p + 1)]])
            /\ ~(key[A[lo + (2 * p + 1)]] < key[A[lo + (2 * p + 2)]])
          BY <2>2, <2>4, <3>1, <3>3 DEF cmp
      <4>4. ~(key[A[lo + p]] < key[A[lo + (2 * p + 2)]])
          BY <4>2, <4>3
      <4> QED BY <1>3, <3>3, <4>4 DEF Above, cmp
    <3> QED BY <1>3, <3>2, <3>3 DEF Parent
  <2> QED BY <2>3, <2>4 DEF Child
<1> QED BY <1>2, <1>3

\* The root of a heap is its largest element.
LEMMA RootIsLargest ==
    ASSUME TypeOK, work # <<>>, NEW m \in 1..hi - lo, Ordered(0, m),
           NEW x \in 0..m - 1
    PROVE  Above(0, x)
<1> DEFINE larger == {y \in 0..m - 1 : cmp(A[lo + 0], A[lo + y])}
<1>1. lo \in Int /\ hi \in Int
    BY HeadFacts
<1>2. \A y \in 0..m - 1 : key[A[lo + y]] \in Int
    BY <1>1, Keyed
<1>3. ASSUME larger # {} PROVE FALSE
  <2>1. PICK y \in larger : \A z \in larger : y <= z
    <3>1. larger \in SUBSET Nat
        OBVIOUS
    <3> HIDE DEF larger
    <3> QED BY <1>3, <3>1, LeastNumber
  <2>2. y # 0 /\ y \in 0..m - 1 /\ cmp(A[lo + 0], A[lo + y])
      BY <1>2, <2>1 DEF cmp
  <2>3. PICK q \in 0..m - 1 : Parent(q, y) /\ q < y
    <3>1. (y - 1) \div 2 \in 0..m - 1 /\ (y - 1) \div 2 < y
        BY <2>2
    <3>2. Parent((y - 1) \div 2, y)
        BY <2>2 DEF Parent
    <3> QED BY <3>1, <3>2
  <2>4. Above(q, y) /\ q \notin larger
      BY <2>1, <2>3 DEF Ordered
  <2>5. 0 \in 0..m - 1
      OBVIOUS
  <2> QED BY <1>2, <2>2, <2>3, <2>4, <2>5 DEF Above, cmp
<1> QED BY <1>3 DEF Above

\* The elements p and Child change places: the larger child is above the other.
LEMMA SiftKeepsHeap ==
    ASSUME IInv, work # <<>>, NEW f \in Nat, f <= p, OrderedBut(f, size), Sift
    PROVE  OrderedBut(f, size)' /\ size' = size /\ lo' = lo /\ hi' = hi
<1> TypeOK /\ HeapInside /\ Heaping
    BY DEF IInv, Sift, Heaping
<1>1. /\ lo \in Int /\ hi \in Int /\ p \in 0..hi - lo - 1 /\ size \in 0..hi - lo
    BY HeadFacts DEF HeapInside
<1>2. /\ 2 * p + 1 < size /\ cmp(A[lo + p], A[lo + Child])
      /\ A' = Swapped(lo + p, lo + Child) /\ p' = Child
      /\ UNCHANGED <<key, work, i, size>>
    BY DEF Sift, Sinks
<1>3. /\ Child \in 0..size - 1 /\ Child \in {2 * p + 1, 2 * p + 2}
      /\ \A c \in 0..size - 1 : Parent(p, c) => Above(Child, c)
  <2>1. ASSUME NEW x \in 0..size - 1 PROVE key[A[lo + x]] \in Int
    <3>1. x \in 0..hi - lo - 1
        BY <1>1
    <3> QED BY <3>1, Keyed
  <2>2. CASE Child = 2 * p + 2
    <3>1. 2 * p + 2 < size /\ cmp(A[lo + (2 * p + 1)], A[lo + (2 * p + 2)])
        BY <1>1, <1>2, <2>2 DEF Child
    <3>2. {2 * p + 1, 2 * p + 2} \subseteq 0..size - 1
        BY <1>1, <3>1
    <3> QED BY <2>1, <2>2, <3>1, <3>2 DEF Above, cmp, Parent
  <2>3. CASE Child = 2 * p + 1
    <3>1. 2 * p + 2 < size => ~cmp(A[lo + (2 * p + 1)], A[lo + (2 * p + 2)])
        BY <1>1, <2>3 DEF Child
    <3>2. 2 * p + 1 \in 0..size - 1
        BY <1>1, <1>2
    <3>3. ASSUME NEW c \in 0..size - 1, Parent(p, c) PROVE Above(Child, c)
      <4>1. CASE c = 2 * p + 1
          BY <2>1, <2>3, <4>1 DEF Above, cmp
      <4>2. CASE c = 2 * p + 2
          BY <1>1, <2>3, <3>1, <4>2 DEF Above
      <4> QED BY <3>3, <4>1, <4>2 DEF Parent
    <3> QED BY <2>3, <3>2, <3>3
  <2>4. Child = 2 * p + 1 \/ Child = 2 * p + 2
      BY <1>1 DEF Child
  <2> QED BY <2>2, <2>3, <2>4
<1> DEFINE H(x) == key[A[lo + x]]
           G(x) == key[A'[lo + x]]
           ch == Child
<1> HIDE DEF ch
<1>4. /\ \A x \in 0..size - 1 : H(x) \in Int
      /\ p \in 0..size - 1 /\ ch \in 0..size - 1 /\ Parent(p, ch)
      /\ H(p) < H(ch)
  <2>1. p \in 0..size - 1
      BY <1>1, <1>2
  <2>2. ASSUME NEW x \in 0..size - 1 PROVE H(x) \in Int
    <3>1. x \in 0..hi - lo - 1
        BY <1>1
    <3> QED BY <3>1, Keyed
  <2> QED BY <1>2, <1>3, <2>1, <2>2 DEF ch, cmp, Parent
<1>5. G(p) = H(ch) /\ G(ch) = H(p) /\ \A x \in 0..size - 1 : x \notin {p, ch} => G(x) = H(x)
  <2>1. \A x \in 0..size - 1 : lo + x \in Positions
      BY <1>1, Keyed
  <2>2. lo + p \in Positions /\ lo + ch \in Positions /\ A' = Swapped(lo + p, lo + ch)
      BY <1>2, <1>4, <2>1 DEF ch
  <2>3. Once /\ A \in [Positions -> Positions]
      BY DEF IInv, TypeOK
  <2>4. /\ A'[lo + p] = A[lo + ch] /\ A'[lo + ch] = A[lo + p]
        /\ \A z \in Positions \ {lo + p, lo + ch} : A'[z] = A[z]
      BY <2>2, <2>3, SwapFacts
  <2>5. \A x \in 0..size - 1 : x \notin {p, ch} => lo + x \notin {lo + p, lo + ch}
      BY <1>1, <1>4
  <2> QED BY <2>1, <2>4, <2>5
<1>6. /\ \A q \in f..size - 1, c \in 0..size - 1 : Parent(q, c) /\ q # p => H(c) <= H(q)
      /\ \A q \in f..size - 1, c \in 0..size - 1 :
            Parent(q, p) /\ Parent(p, c) => H(c) <= H(q)
      /\ \A c \in 0..size - 1 : Parent(p, c) => H(c) <= H(ch)
  <2>1. \A x, y \in 0..size - 1 : Above(x, y) <=> H(y) <= H(x)
      BY <1>4 DEF Above, cmp
  <2> HIDE DEF H
  <2> QED BY <1>1, <1>3, <1>4, <2>1 DEF OrderedBut, ch
<1>7. \A q \in f..size - 1, c \in 0..size - 1 : Parent(q, c) /\ q # ch => G(c) <= G(q)
  <2> HIDE DEF H, G
  <2> QED BY <1>1, <1>4, <1>5, <1>6 DEF Parent
<1>8. \A q \in f..size - 1, c \in 0..size - 1 :
         Parent(q, ch) /\ Parent(ch, c) => G(c) <= G(q)
  <2> HIDE DEF H, G
  <2> QED BY <1>1, <1>4, <1>5, <1>6 DEF Parent
<1>9. size' = size /\ lo' = lo /\ hi' = hi /\ p' = ch /\ key' = key
    BY <1>2 DEF lo, hi, ch
<1>10. \A x, y \in 0..size - 1 : Above(x, y)' <=> G(y) <= G(x)
  <2>1. \A x \in 0..size - 1 : G(x) \in Int
    <3> HIDE DEF H, G
    <3> QED BY <1>4, <1>5
  <2> QED BY <1>9, <2>1 DEF Above, cmp
<1>11. OrderedBut(f, size)'
  <2> HIDE DEF G
  <2> QED BY <1>1, <1>7, <1>8, <1>9, <1>10 DEF OrderedBut, Parent
<1> QED BY <1>9, <1>11

\* Two elements that are still in the heap change places.
LEMMA TakenStaysLargest ==
    ASSUME IInv, Extracting, work # <<>>, TakesTheLargest,
           NEW u \in lo..lo + i - 1, NEW v \in lo..lo + i - 1, A' = Swapped(u, v),
           key' = key
    PROVE  \A y \in lo + i..hi - 1 : \A x \in lo..y - 1 : ~(key'[A'[y]] < key'[A'[x]])
<1> TypeOK /\ Once /\ HeapInside /\ Heaping
    BY DEF IInv, Extracting, Heaping
<1>1. lo \in Int /\ hi \in Int /\ i \in 0..hi - lo /\ \A x \in lo..hi - 1 : x \in Positions
    BY HeadFacts DEF HeapInside
<1>2. u \in Positions /\ v \in Positions
    BY <1>1
<1>3. A'[u] = A[v] /\ A'[v] = A[u] /\ \A z \in Positions \ {u, v} : A'[z] = A[z]
    BY <1>2, SwapFacts DEF TypeOK
<1> SUFFICES ASSUME NEW y \in lo + i..hi - 1, NEW x \in lo..y - 1
             PROVE  ~(key[A'[y]] < key[A'[x]])
    OBVIOUS
<1>4. A'[y] = A[y]
    BY <1>1, <1>3
<1>5. PICK z \in lo..y - 1 : A'[x] = A[z]
    BY <1>1, <1>3
<1>6. ~cmp(A[y], A[z])
    BY DEF TakesTheLargest, Extracting
<1> QED BY <1>4, <1>5, <1>6 DEF cmp

LEMMA SiftLInv == ASSUME IInv, LInv, Sift PROVE LInv'
<1> TypeOK /\ HeapInside /\ Heaping
    BY DEF IInv, Sift, Heaping
<1>1. /\ work # <<>> /\ lo \in Int /\ hi \in Int
      /\ p \in 0..hi - lo - 1 /\ size \in 0..hi - lo /\ i \in 0..hi - lo
    BY HeadFacts DEF HeapInside
<1>2. /\ 2 * p + 1 < size /\ A' = Swapped(lo + p, lo + Child) /\ p' = Child
      /\ UNCHANGED <<key, work, at, i, j, size>>
    BY DEF Sift, Sinks
<1>3. Child \in 0..size - 1 /\ Child > p
    BY <1>1, <1>2 DEF Child
<1>4. lo' = lo /\ hi' = hi
    BY <1>2 DEF lo, hi
<1>5. CASE Building
  <2>1. size = hi - lo /\ i <= p /\ OrderedBut(i, size) /\ i \in Nat
      BY <1>1, <1>5 DEF LInv, HeapInv
  <2>2. OrderedBut(i, size)'
    <3>1. \A f \in Nat : f = i => OrderedBut(f, size)'
        BY <1>1, <2>1, SiftKeepsHeap
    <3> QED BY <1>2, <2>1, <3>1 DEF OrderedBut, Above, cmp
  <2>3. Building' /\ ~Extracting' /\ at' # "extract"
      BY <1>2, <1>5 DEF Building, Extracting
  <2> HIDE DEF Child
  <2> QED BY <1>1, <1>2, <1>3, <1>4, <2>1, <2>2, <2>3 DEF LInv, HeapInv, TakesTheLargest
<1>6. CASE Extracting
  <2>1. size = i /\ p < i /\ OrderedBut(0, size)
      BY <1>1, <1>2, <1>6 DEF LInv, HeapInv
  <2>2. OrderedBut(0, size)'
      BY <1>1, <2>1, SiftKeepsHeap
  <2>3. ~Building' /\ Extracting'
      BY <1>2, <1>6 DEF Building, Extracting
  <2>4. lo + p \in lo..lo + i - 1 /\ lo + Child \in lo..lo + i - 1
    <3> HIDE DEF Child
    <3> QED BY <1>1, <1>3, <2>1
  <2>5. TakesTheLargest'
      BY <1>1, <1>2, <1>4, <1>6, <2>4, TakenStaysLargest DEF LInv, TakesTheLargest, cmp
  <2> HIDE DEF Child
  <2>6. OrderedBut(0, i)'
      BY <1>2, <2>1, <2>2 DEF OrderedBut
  <2>7. size' = i' /\ p' < i'
      BY <1>1, <1>2, <1>3, <2>1
  <2>8. HeapInv'
      BY <2>3, <2>6, <2>7 DEF HeapInv
  <2> QED BY <2>5, <2>8 DEF LInv
<1> QED BY <1>5, <1>6 DEF Building, Extracting, Heaping

LEMMA StartHeapLInv == ASSUME IInv, StartHeap PROVE LInv'
<1>1. /\ work # <<>> /\ lo \in Int /\ hi \in Int /\ hi - lo >= 1
      /\ lo' = lo /\ hi' = hi /\ i' = (hi - lo) \div 2 /\ p' = i' /\ size' = hi - lo
      /\ at' = "build"
    BY HeadFacts, CutoffAssumption DEF IInv, StartHeap, lo, hi
<1>2. \A q \in i'..hi - lo - 1, c \in 0..hi - lo - 1 : ~Parent(q, c)
    BY <1>1 DEF Parent
<1>3. OrderedBut(i, hi - lo)'
    BY <1>1, <1>2 DEF OrderedBut, Parent
<1> QED BY <1>1, <1>3 DEF LInv, HeapInv, TakesTheLargest, Building, Extracting

LEMMA BuildLInv == ASSUME IInv, LInv, Build PROVE LInv'
<1> TypeOK /\ HeapInside /\ Heaping /\ Building
    BY DEF IInv, Build, Heaping, Building
<1>1. /\ work # <<>> /\ lo \in Int /\ hi \in Int
      /\ p \in 0..hi - lo - 1 /\ size \in 0..hi - lo /\ i \in 0..hi - lo
      /\ size = hi - lo /\ OrderedBut(i, size) /\ i <= p
    BY HeadFacts DEF HeapInside, LInv, HeapInv
<1>2. Ordered(i, size)
    BY <1>1, NothingSinks DEF Build
<1>3. UNCHANGED <<key, A, work>> /\ lo' = lo /\ hi' = hi
    BY DEF Build, lo, hi
<1>4. \A x, y \in 0..size - 1 : Above(x, y)' <=> Above(x, y)
    BY <1>3 DEF Above, cmp
<1>5. CASE i > 0
  <2>1. i' = i - 1 /\ p' = i - 1 /\ size' = size /\ at' = "build"
      BY <1>5 DEF Build, Building
  <2>2. ASSUME NEW q \in i - 1..size - 1, NEW c \in 0..size - 1, Parent(q, c),
               q # p'
        PROVE  Above(q, c)'
    <3>1. q \in i..size - 1
        BY <1>1, <2>1, <2>2
    <3>2. Above(q, c)
        BY <1>2, <2>2, <3>1 DEF Ordered
    <3> QED BY <1>1, <1>4, <3>1, <3>2
  <2>3. \A q \in i - 1..size - 1 : ~Parent(q, p')
      BY <1>1, <1>5, <2>1 DEF Parent
  <2>4. OrderedBut(i, hi - lo)'
    <3>1. i' = i - 1 /\ hi' - lo' = size
        BY <1>1, <1>3, <2>1
    <3> QED BY <2>2, <2>3, <3>1 DEF OrderedBut, Parent
  <2> QED BY <1>1, <1>3, <2>1, <2>4
          DEF LInv, HeapInv, TakesTheLargest, Building, Extracting
<1>6. CASE ~(i > 0)
  <2>1. i' = hi - lo /\ p' = 0 /\ size' = 0 /\ at' = "extract"
      BY <1>6 DEF Build
  <2>2. Ordered(0, i)'
      BY <1>1, <1>2, <1>3, <1>4, <1>6, <2>1 DEF Ordered
  <2>3. TakesTheLargest'
      BY <1>1, <1>3, <2>1 DEF TakesTheLargest
  <2> QED BY <1>3, <2>1, <2>2, <2>3 DEF LInv, HeapInv, Building, Extracting
<1> QED BY <1>5, <1>6

LEMMA ExtractLInv == ASSUME IInv, LInv, Extract PROVE LInv'
<1> TypeOK /\ Once /\ HeapInside /\ Heaping /\ Extracting
    BY DEF IInv, Extract, Heaping, Extracting
<1>1. /\ work # <<>> /\ lo \in Int /\ hi \in Int
      /\ p \in 0..hi - lo - 1 /\ size \in 0..hi - lo /\ i \in 2..hi - lo
      /\ \A x \in lo..hi - 1 : x \in Positions
    BY HeadFacts DEF HeapInside, Extract
<1>2. Ordered(0, i)
    BY <1>1, NothingSinks DEF LInv, HeapInv, Extract
<1>3. /\ A' = Swapped(lo, lo + i - 1) /\ i' = i - 1 /\ p' = 0 /\ size' = i - 1
      /\ UNCHANGED <<key, work, at>> /\ lo' = lo /\ hi' = hi
    BY DEF Extract, lo, hi
<1>4. lo \in lo..lo + i - 1 /\ lo + i - 1 \in lo..lo + i - 1
      /\ lo \in Positions /\ lo + i - 1 \in Positions
    BY <1>1
<1>5. /\ A'[lo] = A[lo + i - 1] /\ A'[lo + i - 1] = A[lo]
      /\ \A z \in Positions \ {lo, lo + i - 1} : A'[z] = A[z]
    BY <1>3, <1>4, SwapFacts DEF TypeOK
<1>6. \A x \in 1..i - 2 : A'[lo + x] = A[lo + x]
    BY <1>1, <1>5
<1>7. OrderedBut(0, i)'
  <2>1. \A q \in 1..i - 2, c \in 1..i - 2 : Above(q, c)' <=> Above(q, c)
      BY <1>3, <1>6 DEF Above, cmp
  <2> QED BY <1>1, <1>2, <1>3, <2>1 DEF OrderedBut, Ordered, Parent
<1>8. TakesTheLargest'
  <2> SUFFICES ASSUME NEW y \in lo + i - 1..hi - 1, NEW x \in lo..y - 1
               PROVE  ~(key[A'[y]] < key[A'[x]])
      BY <1>1, <1>3 DEF TakesTheLargest, cmp
  <2>1. CASE y >= lo + i
      BY <1>1, <1>3, <1>4, <2>1, TakenStaysLargest DEF LInv
  <2>2. CASE y = lo + i - 1
    <3>1. PICK z \in 0..i - 1 : A'[x] = A[lo + z]
      <4>1. CASE x = lo
          BY <1>1, <1>5, <4>1
      <4>2. CASE x # lo
        <5>1. x - lo \in 1..i - 2 /\ lo + (x - lo) = x
            BY <1>1, <2>2, <4>2
        <5>2. A'[lo + (x - lo)] = A[lo + (x - lo)]
            BY <1>6, <5>1
        <5>3. x - lo \in 0..i - 1
            BY <1>1, <5>1
        <5>4. A'[x] = A[lo + (x - lo)]
            BY <5>1, <5>2
        <5> QED BY <5>3, <5>4
      <4> QED BY <4>1, <4>2
    <3>2. Above(0, z)
        BY <1>1, <1>2, RootIsLargest
    <3>3. A'[y] = A[lo + 0]
        BY <1>1, <1>5, <2>2
    <3> QED BY <3>1, <3>2, <3>3 DEF Above, cmp
  <2> QED BY <1>1, <2>1, <2>2
<1>9. ~Building' /\ Extracting'
    BY <1>3 DEF Building, Extracting
<1>10. size' = i' /\ p' < i'
    BY <1>1, <1>3
<1>11. HeapInv'
    BY <1>7, <1>9, <1>10 DEF HeapInv
<1> QED BY <1>8, <1>11 DEF LInv

LEMMA NextLInv == IInv /\ LInv /\ [Next]_vars => LInv'
<1> SUFFICES ASSUME IInv, LInv, [Next]_vars
             PROVE  LInv'
    OBVIOUS
<1>1. ASSUME at' \notin {"build", "extract"} PROVE LInv'
    BY <1>1 DEF LInv, HeapInv, TakesTheLargest, Building, Extracting
<1>2. CASE Call \/ LeaveShort \/ StartPartition \/ ScanUp \/ ScanDown \/ Exchange
           \/ EndPartition \/ EndHeap \/ StartInsertion \/ Insert \/ Return
    BY <1>1, <1>2 DEF Call, LeaveShort, StartPartition, ScanUp, ScanDown, Exchange,
       EndPartition, EndHeap, StartInsertion, Insert, Return
<1>3. CASE UNCHANGED vars
  <2>1. UNCHANGED <<key, A, work, at, i, j, pivot, p, size>> /\ lo' = lo /\ hi' = hi
      BY <1>3 DEF vars, lo, hi
  <2> QED BY <2>1 DEF LInv, HeapInv, TakesTheLargest, Building, Extracting,
                      OrderedBut, Ordered, Above, cmp
<1> QED BY <1>2, <1>3, SiftLInv, StartHeapLInv, BuildLInv, ExtractLInv DEF Next, Run


----------------------------------------------------------------------------
(* The theorems                                                            *)

\* Every variable keeps its type: no step of the sort puts anything in the array
\* but elements, and the ranges are ranges of it.
THEOREM SpecTypeOK == Spec => []TypeOK
<1>1. IInv => TypeOK
    BY DEF IInv
<1> QED BY <1>1, SpecIInv, PTL

\* The iterators of partition__, which check no bound, stay in the range it was
\* given (the comment at line 239), whatever the keys.
THEOREM SpecStaysInside == Spec => []StaysInside
<1>1. IInv => StaysInside
    BY DEF IInv, Scanned, StaysInside
<1> QED BY <1>1, SpecIInv, PTL

\* What sort__ visits later never belongs before what it visits now, although
\* the element at the position partition__ returns is left out.
THEOREM SpecVisitsInOrder == Spec => []VisitsInOrder
<1>1. IInv => VisitsInOrder
    BY DEF IInv
<1> QED BY <1>1, SpecIInv, PTL

\* intro_sort returns the elements it was given, in order.
THEOREM SpecSortsTheInput == Spec => []SortsTheInput
<1>1. IInv => SortsTheInput
    BY DEF IInv, Once, Inserted, Done, SortsTheInput
<1> QED BY <1>1, SpecIInv, PTL

\* Heap sort, to which quicksort turns when it is too deep, takes the elements
\* out in descending order, for every range and all keys: the heap it keeps
\* while an element sinks is a heap again when it has sunk.
THEOREM SpecTakesTheLargest == Spec => []TakesTheLargest
<1>1. Init => LInv
    BY DEF Init, LInv, HeapInv, TakesTheLargest, Building, Extracting
<1>2. IInv /\ LInv /\ [Next]_vars => LInv'
    BY NextLInv
<1>3. LInv => TakesTheLargest
    BY DEF LInv
<1> QED BY <1>1, <1>2, <1>3, SpecIInv, PTL DEF Spec

=============================================================================
