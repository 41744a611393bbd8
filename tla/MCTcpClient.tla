---------------------------- MODULE MCTcpClient ----------------------------
(* TcpClient on a few endpoints and short timeouts. *)
EXTENDS TcpClient

=============================================================================
