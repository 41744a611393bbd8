------------------------------- MODULE Sha512 -------------------------------
(* include/secure/hash/sha512.hpp: what hash() computes, part by part. *)
EXTENDS Sha2, Padding

Chunk == 128
Rounds == 80

Initial == [q \in 1..8 |-> OfLimbs(Start512[q])]
K == [q \in 1..80 |-> OfLimbs(Table512[q])]

padding(msg) == Padded(msg, Chunk, 17)

Loaded(padded, i) ==
    [t \in 1..16 |-> LET base == 128 * i + 8 * (t - 1)
                     IN  OfOctets(SubSeq(padded, base + 1, base + 8))]

big_sigma512_0(x) == Xor(Xor(rotr(64, x, 28), rotr(64, x, 34)), rotr(64, x, 39))
big_sigma512_1(x) == Xor(Xor(rotr(64, x, 14), rotr(64, x, 18)), rotr(64, x, 41))
small_sigma512_0(x) == Xor(Xor(rotr(64, x, 1), rotr(64, x, 8)), Shr(x, 7))
small_sigma512_1(x) == Xor(Xor(rotr(64, x, 19), rotr(64, x, 61)), Shr(x, 6))

Expanded(W) ==
    LET t == Len(W)
    IN  Append(W, Scheduled(64, W, t, small_sigma512_0(W[t - 14]), small_sigma512_1(W[t - 1])))

Turn(v, t, W) ==
    Stirred(64, v, K[t + 1], W[t + 1], big_sigma512_0(v[1]), big_sigma512_1(v[5]))

Chained(H, v) == [q \in 1..8 |-> Plus(64, v[q], H[q])]

Digest(H) == FlattenSeq([q \in 1..8 |-> Octets(64, H[q])])

=============================================================================
