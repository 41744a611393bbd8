---------------------------- MODULE MCTcpServer ----------------------------
(* TcpServer on a few sessions and messages. *)
EXTENDS TcpServer, TLC

Symmetry == Permutations(Sessions) \cup Permutations(Messages)
=============================================================================
