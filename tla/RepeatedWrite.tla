---------------------------- MODULE RepeatedWrite ----------------------------
(***************************************************************************)
(* What async_write_message promises: a pause and a write, as often as it  *)
(* is told; it completes once, after the last write or at the first error. *)
(***************************************************************************)
EXTENDS Naturals

CONSTANT MaxCount

VARIABLES left,     \* how many writes have not been begun
          doing,    \* "nothing" before the call, "pause", "write" or "completed"
          error     \* what it completed with

vars == <<left, doing, error>>

Init == left \in 0..MaxCount /\ doing = "nothing" /\ error = FALSE

Complete(err) == doing' = "completed" /\ error' = err /\ UNCHANGED left

\* The next round begins, or there is none.
Round ==
    \/ left > 0 /\ left' = left - 1 /\ doing' = "pause" /\ UNCHANGED error
    \/ left = 0 /\ Complete(FALSE)

Next == \/ doing = "nothing" /\ Round
        \/ doing = "pause" /\ doing' = "write" /\ UNCHANGED <<left, error>>
        \/ doing = "write" /\ Round
        \/ doing \in {"pause", "write"} /\ Complete(TRUE)

Spec == Init /\ [][Next]_vars

=============================================================================
