------------------------------ MODULE MCPinger ------------------------------
(* Pinger with few sequence numbers, so that they wrap around. *)
EXTENDS Pinger

=============================================================================
