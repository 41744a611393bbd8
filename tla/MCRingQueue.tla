---------------------------- MODULE MCRingQueue ----------------------------
(* RingQueue on a few slots and values. *)
EXTENDS RingQueue

=============================================================================
