-------------------------------- MODULE Bits --------------------------------
(***************************************************************************)
(* The bit operations of include/bit/bit.hpp and of the language, on the   *)
(* unsigned type of w bits: a word is the set of the places of its ones.   *)
(***************************************************************************)
EXTENDS Integers, SequencesExt

Xor(x, y) == (x \ y) \cup (y \ x)

Shl(w, x, n) == {b + n : b \in {c \in x : c + n < w}}
Shr(x, n) == {b - n : b \in {c \in x : c >= n}}

rotl(w, x, n) == Shl(w, x, n) \cup Shr(x, (w - n) % w)

\* Mutation: the bits that fall off are lost.
rotr_Shift(w, x, n) == Shr(x, n)

rotr(w, x, n) == Shr(x, n) \cup Shl(w, x, (w - n) % w)

parity(x, y, z) == Xor(Xor(x, y), z)
ch(x, y, z) == Xor(x \cap y, z \ x)
maj(x, y, z) == Xor(Xor(x \cap y, y \cap z), z \cap x)

\* Addition modulo 2^w: the sum without the carries, and the carries.
RECURSIVE Plus(_, _, _)
Plus(w, x, y) ==
    IF y = {} THEN x ELSE Plus(w, Xor(x, y), Shl(w, x \cap y, 1))

Total(w, words) == FoldLeft(LAMBDA x, y : Plus(w, x, y), {}, words)

\* The word with these octets, the most significant first, and back.
OfOctets(octets) ==
    LET n == Len(octets)
    IN  UNION {{8 * (n - q) + b :
                  b \in {c \in 0..7 : (octets[q] \div 2^c) % 2 = 1}} : q \in 1..n}

Octets(w, x) ==
    LET octet(q) == LET ones == x \cap (w - 8 * q..w - 8 * q + 7)
                    IN  FoldSet(LAMBDA b, s : s + 2^(b % 8), 0, ones)
    IN  [q \in 1..w \div 8 |-> octet(q)]

=============================================================================
