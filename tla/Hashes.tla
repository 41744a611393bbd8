------------------------------- MODULE Hashes -------------------------------
(***************************************************************************)
(* One call of hash() of one of the four classes of include/secure/hash.   *)
(***************************************************************************)
EXTENDS Integers, Sequences

CONSTANTS Messages

VARIABLES class,    \* whose hash() was called
          msg, padded, i, t, W, v, H, M, at

vars == <<class, msg, padded, i, t, W, v, H, M, at>>

S1 == INSTANCE Sha1
Hash1 == INSTANCE Sha WITH
    Chunk <- S1!Chunk, Rounds <- S1!Rounds, Initial <- S1!Initial,
    padding <- S1!padding, Loaded <- S1!Loaded, Expanded <- S1!Expanded,
    Turn <- S1!Turn, Chained <- S1!Chained, Digest <- S1!Digest

S256 == INSTANCE Sha256
Hash256 == INSTANCE Sha WITH
    Chunk <- S256!Chunk, Rounds <- S256!Rounds, Initial <- S256!Initial,
    padding <- S256!padding, Loaded <- S256!Loaded, Expanded <- S256!Expanded,
    Turn <- S256!Turn, Chained <- S256!Chained, Digest <- S256!Digest

S384 == INSTANCE Sha384
Hash384 == INSTANCE Sha WITH
    Chunk <- S384!Chunk, Rounds <- S384!Rounds, Initial <- S384!Initial,
    padding <- S384!padding, Loaded <- S384!Loaded, Expanded <- S384!Expanded,
    Turn <- S384!Turn, Chained <- S384!Chained, Digest <- S384!Digest

S512 == INSTANCE Sha512
Hash512 == INSTANCE Sha WITH
    Chunk <- S512!Chunk, Rounds <- S512!Rounds, Initial <- S512!Initial,
    padding <- S512!padding, Loaded <- S512!Loaded, Expanded <- S512!Expanded,
    Turn <- S512!Turn, Chained <- S512!Chained, Digest <- S512!Digest

Init == class = "none" /\ Hash1!Init

Call == \/ class' = "sha1" /\ Hash1!Call
        \/ class' = "sha256" /\ Hash256!Call
        \/ class' = "sha384" /\ Hash384!Call
        \/ class' = "sha512" /\ Hash512!Call

Run == /\ \/ class = "sha1" /\ Hash1!Run
          \/ class = "sha256" /\ Hash256!Run
          \/ class = "sha384" /\ Hash384!Run
          \/ class = "sha512" /\ Hash512!Run
       /\ UNCHANGED class

Next == Call \/ Run

=============================================================================
