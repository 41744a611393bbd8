------------------------------- MODULE Sha256 -------------------------------
(* include/secure/hash/sha256.hpp: what hash() computes, part by part. *)
EXTENDS Sha2, Padding

Chunk == 64
Rounds == 64

UpperHalf(limbs) == OfLimbs(SubSeq(limbs, 1, 2))

Initial == [q \in 1..8 |-> UpperHalf(Start512[q])]
K == [q \in 1..64 |-> UpperHalf(Table512[q])]

padding(msg) == Padded(msg, Chunk, 9)

Loaded(padded, i) ==
    [t \in 1..16 |-> LET base == 64 * i + 4 * (t - 1)
                     IN  OfOctets(SubSeq(padded, base + 1, base + 4))]

big_sigma0(x) == Xor(Xor(rotr(32, x, 2), rotr(32, x, 13)), rotr(32, x, 22))
big_sigma1(x) == Xor(Xor(rotr(32, x, 6), rotr(32, x, 11)), rotr(32, x, 25))
small_sigma0(x) == Xor(Xor(rotr(32, x, 7), rotr(32, x, 18)), Shr(x, 3))
small_sigma1(x) == Xor(Xor(rotr(32, x, 17), rotr(32, x, 19)), Shr(x, 10))

Expanded(W) ==
    LET t == Len(W)
    IN  Append(W, Scheduled(32, W, t, small_sigma0(W[t - 14]), small_sigma1(W[t - 1])))

Turn(v, t, W) ==
    Stirred(32, v, K[t + 1], W[t + 1], big_sigma0(v[1]), big_sigma1(v[5]))

Chained(H, v) == [q \in 1..8 |-> Plus(32, v[q], H[q])]

Digest(H) == FlattenSeq([q \in 1..8 |-> Octets(32, H[q])])

=============================================================================
