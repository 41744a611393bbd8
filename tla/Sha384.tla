------------------------------- MODULE Sha384 -------------------------------
(* include/secure/hash/sha384.hpp: what hash() computes, part by part. *)
EXTENDS Sha2, Padding

Chunk == 128
Rounds == 80

Start384 == <<
  <<\hcbbb, \h9d5d, \hc105, \h9ed8>>, <<\h629a, \h292a, \h367c, \hd507>>,
  <<\h9159, \h015a, \h3070, \hdd17>>, <<\h152f, \hecd8, \hf70e, \h5939>>,
  <<\h6733, \h2667, \hffc0, \h0b31>>, <<\h8eb4, \h4a87, \h6858, \h1511>>,
  <<\hdb0c, \h2e0d, \h64f9, \h8fa7>>, <<\h47b5, \h481d, \hbefa, \h4fa4>>>>

Initial == [q \in 1..8 |-> OfLimbs(Start384[q])]
K == [q \in 1..80 |-> OfLimbs(Table512[q])]

padding(msg) == Padded(msg, Chunk, 17)

Loaded(padded, i) ==
    [t \in 1..16 |-> LET base == 128 * i + 8 * (t - 1)
                     IN  OfOctets(SubSeq(padded, base + 1, base + 8))]

big_sigma512_0(x) == Xor(Xor(rotr(64, x, 28), rotr(64, x, 34)), rotr(64, x, 39))
big_sigma512_1(x) == Xor(Xor(rotr(64, x, 14), rotr(64, x, 18)), rotr(64, x, 41))
small_sigma512_0(x) == Xor(Xor(rotr(64, x, 1), rotr(64, x, 8)), Shr(x, 7))
small_sigma512_1(x) == Xor(Xor(rotr(64, x, 19), rotr(64, x, 61)), Shr(x, 6))

Expanded(W) ==
    LET t == Len(W)
    IN  Append(W, Scheduled(64, W, t, small_sigma512_0(W[t - 14]), small_sigma512_1(W[t - 1])))

Turn(v, t, W) ==
    Stirred(64, v, K[t + 1], W[t + 1], big_sigma512_0(v[1]), big_sigma512_1(v[5]))

Chained(H, v) == [q \in 1..8 |-> Plus(64, v[q], H[q])]

Digest(H) == FlattenSeq([q \in 1..6 |-> Octets(64, H[q])])

=============================================================================
