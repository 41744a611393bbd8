-------------------------------- MODULE Sha1 --------------------------------
(* include/secure/hash/sha1.hpp: what hash() computes, part by part. *)
EXTENDS Bits, Padding

Chunk == 64
Rounds == 80

Word(l, r) == OfOctets(<<l \div 256, l % 256, r \div 256, r % 256>>)

Initial == <<Word(\h6745, \h2301), Word(\hefcd, \hab89), Word(\h98ba, \hdcfe),
             Word(\h1032, \h5476), Word(\hc3d2, \he1f0)>>

padding(msg) == Padded(msg, Chunk, 9)

Loaded(padded, i) ==
    [t \in 1..16 |-> LET base == 64 * i + 4 * (t - 1)
                     IN  OfOctets(SubSeq(padded, base + 1, base + 4))]

\* W[t]; the sequence W begins at 1.
Expanded(W) ==
    LET t == Len(W)
        x == Xor(Xor(W[t - 2], W[t - 7]), Xor(W[t - 13], W[t - 15]))
    IN  Append(W, rotl(32, x, 1))

f(t, x, y, z) == IF t <= 19 THEN ch(x, y, z)
                 ELSE IF t \in 40..59 THEN maj(x, y, z)
                 ELSE parity(x, y, z)

K(t) == IF t <= 19 THEN Word(\h5a82, \h7999)
        ELSE IF t <= 39 THEN Word(\h6ed9, \heba1)
        ELSE IF t <= 59 THEN Word(\h8f1b, \hbcdc)
        ELSE Word(\hca62, \hc1d6)

\* The variables a..e after turn t.
Turn(v, t, W) ==
    LET T == Total(32, <<rotl(32, v[1], 5), f(t, v[2], v[3], v[4]), v[5], K(t),
                         W[t + 1]>>)
    IN  <<T, v[1], rotl(32, v[2], 30), v[3], v[4]>>

Chained(H, v) == [q \in 1..5 |-> Plus(32, v[q], H[q])]

Digest(H) == FlattenSeq([q \in 1..5 |-> Octets(32, H[q])])

=============================================================================
