-------------------------------- MODULE Sha --------------------------------
(***************************************************************************)
(* hash() of sha1, sha256, sha384 and sha512 (include/secure/hash): the    *)
(* loops that the four have in common, over the parts each has of its own. *)
(***************************************************************************)
EXTENDS Integers, Sequences

CONSTANTS Messages,         \* what hash() is called with
          Chunk,            \* the octets of a chunk
          Rounds,           \* the turns of the main loop
          Initial,          \* what H starts with
          padding(_),
          Loaded(_, _),     \* the first 16 words of W, from the padding and i
          Expanded(_),      \* W with one more word
          Turn(_, _, _),    \* a, b, ... after turn t, given W
          Chained(_, _),    \* H, with a, b, ... added
          Digest(_)         \* the octets of H

VARIABLES msg,      \* the argument
          padded,   \* padded_msg
          i, t,     \* the chunk and the turn
          W,        \* the message schedule
          v,        \* a, b, c, ...
          H,
          M,        \* the result
          at        \* where in the code the call is

vars == <<msg, padded, i, t, W, v, H, M, at>>

Init ==
    /\ msg = <<>> /\ padded = <<>>
    /\ i = 0 /\ t = 0
    /\ W = <<>> /\ v = <<>> /\ H = <<>> /\ M = <<>>
    /\ at = "idle"

Call ==
    /\ at = "idle"
    /\ \E m \in Messages : msg' = m /\ padded' = padding(m)
    /\ H' = Initial
    /\ at' = "chunk"
    /\ UNCHANGED <<i, t, W, v, M>>

\* A chunk: its 16 words, and a, b, ... from H.
Load ==
    /\ at = "chunk" /\ i < Len(padded) \div Chunk
    /\ W' = Loaded(padded, i)
    /\ v' = H
    /\ t' = 0
    /\ at' = "schedule"
    /\ UNCHANGED <<msg, padded, i, H, M>>

Expand ==
    /\ at = "schedule" /\ Len(W) < Rounds
    /\ W' = Expanded(W)
    /\ UNCHANGED <<msg, padded, i, t, v, H, M, at>>

Stir ==
    /\ at = "schedule" /\ Len(W) = Rounds
    /\ t < Rounds
    /\ v' = Turn(v, t, W)
    /\ t' = t + 1
    /\ UNCHANGED <<msg, padded, i, W, H, M, at>>

Chain ==
    /\ at = "schedule" /\ t = Rounds
    /\ H' = Chained(H, v)
    /\ i' = i + 1
    /\ at' = "chunk"
    /\ UNCHANGED <<msg, padded, t, W, v, M>>

Return ==
    /\ at = "chunk" /\ i = Len(padded) \div Chunk
    /\ M' = Digest(H)
    /\ at' = "done"
    /\ UNCHANGED <<msg, padded, i, t, W, v, H>>

\* What a call that was made goes on to do.
Run == Load \/ Expand \/ Stir \/ Chain \/ Return

=============================================================================
