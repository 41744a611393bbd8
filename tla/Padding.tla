------------------------------ MODULE Padding ------------------------------
(***************************************************************************)
(* padding() of sha1, sha256, sha384 and sha512 (include/secure/hash),     *)
(* which differ in the octets of a chunk and in what they keep free for    *)
(* the marker and the length.                                              *)
(***************************************************************************)
EXTENDS Integers, Sequences

Padlen(msglen, chunk, reserve) ==
    LET padlen == chunk - (msglen % chunk)
    IN  IF padlen < reserve THEN padlen + chunk ELSE padlen

\* (msglen * 8) >> 8 q, cast to an octet.
LengthOctet(msglen, q) == ((8 * msglen) \div 256^q) % 256

\* The message, the marker, zeros, and the low 32 bits of the length in bits.
Padded(msg, chunk, reserve) ==
    LET padded_len == Len(msg) + Padlen(Len(msg), chunk, reserve)
    IN  [q \in 1..padded_len |->
           IF q > padded_len - 4 THEN LengthOctet(Len(msg), padded_len - q)
           ELSE IF q <= Len(msg) THEN msg[q]
           ELSE IF q = Len(msg) + 1 THEN 128
           ELSE 0]

----------------------------------------------------------------------------
(* What the comments above the four functions say (sha256.hpp:138-141)     *)

\* The octet of a number at a place.  A number below 2^32 has none above 3,
\* which TLC is to know before it comes to powers past its integers.
Octet(number, place) == IF place > 3 /\ number \div 65536 < 65536 THEN 0
                        ELSE (number \div 256^place) % 256

\* M || 1 || 0k || l: the marker, as few zeros as make whole chunks with the
\* length, and the length in bits in field octets.
Standard(msg, chunk, field) ==
    LET zeros == CHOOSE z \in 0..chunk - 1 :
                    (Len(msg) + 1 + z + field) % chunk = 0
    IN  msg \o <<128>> \o [q \in 1..zeros |-> 0]
            \o [q \in 1..field |-> Octet(8 * Len(msg), field - q)]

=============================================================================
