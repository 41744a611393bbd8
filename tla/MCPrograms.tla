----------------------------- MODULE MCPrograms -----------------------------
(* The programs with few clients, octets, writes, pings and objects. *)
EXTENDS Programs

\* A request for each response the server can give, and for each way it says
\* that the connection ends.
MCRequests ==
    LET Req(method, target, file, keep_alive) ==
            [method |-> method, target |-> target, file |-> file, keep_alive |-> keep_alive]
    IN  {Req("get", "legal", "found", TRUE), Req("get", "legal", "found", FALSE),
         Req("head", "legal", "found", TRUE), Req("get", "legal", "missing", TRUE),
         Req("get", "legal", "error", FALSE), Req("head", "illegal", "missing", TRUE),
         Req("other", "legal", "found", FALSE)}

=============================================================================
