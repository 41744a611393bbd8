---------------------------- MODULE MCAlgorithms ----------------------------
(***************************************************************************)
(* The sort and the four hashes, each on its own: a behaviour is one call  *)
(* of intro_sort or one call of hash().                                    *)
(***************************************************************************)
EXTENDS IntroSort

VARIABLES class, msg, padded, chunk, turn, W, words, H, M, stage

hashVars == <<class, msg, padded, chunk, turn, W, words, H, M, stage>>

\* The messages of src/test/sha/main.cpp: "abc", and 14 overlapping pieces of n
\* letters ("abcdbcde...", "abcdefghbcdefghi...").
Abc == <<97, 98, 99>>
Alphabet(n) == [q \in 1..14 * n |-> 97 + ((q - 1) \div n) + ((q - 1) % n)]

\* The lengths at which the padding of one class or another turns over.
Lengths == {0, 1, 55, 56, 63, 64, 65, 111, 112, 119, 120, 127, 128}

Messages == {Abc, Alphabet(4), Alphabet(8)}
            \cup {[q \in 1..n |-> 255] : n \in Lengths}

Hashing == INSTANCE Hashes WITH i <- chunk, t <- turn, v <- words, at <- stage

MCInit == Init /\ Hashing!Init

MCNext == \/ stage = "idle" /\ Next /\ UNCHANGED hashVars
          \/ at = "idle" /\ Hashing!Next /\ UNCHANGED vars

\* A sort that was called runs until it returns.
MCSpec == MCInit /\ [][MCNext]_<<vars, hashVars>>
                 /\ WF_<<vars, hashVars>>(Run /\ UNCHANGED hashVars)

----------------------------------------------------------------------------
(* Properties of the hashes *)

\* What the tests of src/test/sha/main.cpp (lines 10-24, 28-42, 46-68, 72-90)
\* expect of "abc" and of the longer message.
Expected == [
    sha1 |-> <<
      <<\ha999, \h3e36, \h4706, \h816a, \hba3e, \h2571, \h7850, \hc26c,
        \h9cd0, \hd89d>>,
      <<\h8498, \h3e44, \h1c3b, \hd26e, \hbaae, \h4aa1, \hf951, \h29e5,
        \he546, \h70f1>>>>,
    sha256 |-> <<
      <<\hba78, \h16bf, \h8f01, \hcfea, \h4141, \h40de, \h5dae, \h2223,
        \hb003, \h61a3, \h9617, \h7a9c, \hb410, \hff61, \hf200, \h15ad>>,
      <<\h248d, \h6a61, \hd206, \h38b8, \he5c0, \h2693, \h0c3e, \h6039,
        \ha33c, \he459, \h64ff, \h2167, \hf6ec, \hedd4, \h19db, \h06c1>>>>,
    sha384 |-> <<
      <<\hcb00, \h753f, \h45a3, \h5e8b, \hb5a0, \h3d69, \h9ac6, \h5007,
        \h272c, \h32ab, \h0ede, \hd163, \h1a8b, \h605a, \h43ff, \h5bed,
        \h8086, \h072b, \ha1e7, \hcc23, \h58ba, \heca1, \h34c8, \h25a7>>,
      <<\h0933, \h0c33, \hf711, \h47e8, \h3d19, \h2fc7, \h82cd, \h1b47,
        \h5311, \h1b17, \h3b3b, \h05d2, \h2fa0, \h8086, \he3b0, \hf712,
        \hfcc7, \hc71a, \h557e, \h2db9, \h66c3, \he9fa, \h9174, \h6039>>>>,
    sha512 |-> <<
      <<\hddaf, \h35a1, \h9361, \h7aba, \hcc41, \h7349, \hae20, \h4131,
        \h12e6, \hfa4e, \h89a9, \h7ea2, \h0a9e, \heee6, \h4b55, \hd39a,
        \h2192, \h992a, \h274f, \hc1a8, \h36ba, \h3c23, \ha3fe, \hebbd,
        \h454d, \h4423, \h643c, \he80e, \h2a9a, \hc94f, \ha54c, \ha49f>>,
      <<\h8e95, \h9b75, \hdae3, \h13da, \h8cf4, \hf728, \h14fc, \h143f,
        \h8f77, \h79c6, \heb9f, \h7fa1, \h7299, \haead, \hb688, \h9018,
        \h501d, \h289e, \h4900, \hf7e4, \h331b, \h99de, \hc4b5, \h433a,
        \hc7d3, \h29ee, \hb6dd, \h2654, \h5e96, \he55b, \h874b, \he909>>>>]

OctetsOf(limbs) ==
    [q \in 1..2 * Len(limbs) |-> IF q % 2 = 1 THEN limbs[(q + 1) \div 2] \div 256
                                 ELSE limbs[q \div 2] % 256]

Longer == IF class \in {"sha1", "sha256"} THEN Alphabet(4) ELSE Alphabet(8)

\* hash() returns the digest of the standard: every rotation, every carry, the
\* order of the words and what one chunk hands to the next have to be right.
\* What it hashes is the message padded as the comments of the four functions
\* say, at every length where the padding turns over: the marker, the zeros and
\* the length do not run into each other or into another chunk.
DigestMatches ==
    /\ stage = "chunk" =>
          padded = IF class \in {"sha1", "sha256"} THEN Hashing!S1!Standard(msg, 64, 8)
                   ELSE Hashing!S512!Standard(msg, 128, 16)
    /\ stage = "done" /\ msg = Abc => M = OctetsOf(Expected[class][1])
    /\ stage = "done" /\ msg = Longer => M = OctetsOf(Expected[class][2])

=============================================================================
