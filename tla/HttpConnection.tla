--------------------------- MODULE HttpConnection ---------------------------
(***************************************************************************)
(* What a server owes each client: an answer to every request, in the      *)
(* order of the requests, and nothing more on the connection once an       *)
(* answer has been given whose end only the end of the connection marks.   *)
(***************************************************************************)
EXTENDS Naturals, Sequences

CONSTANTS Clients,
          Requests,           \* what a client may ask
          Answer(_),          \* the response to a request
          EndsConnection(_)   \* only the end of the connection ends this response

VARIABLES asked,      \* the requests each client has sent
          answered    \* the responses each client has been sent

vars == <<asked, answered>>

Init == /\ asked = [c \in Clients |-> <<>>]
        /\ answered = [c \in Clients |-> <<>>]

Ask(c, r) ==
    /\ asked' = [asked EXCEPT ![c] = Append(@, r)]
    /\ UNCHANGED answered

Reply(c) ==
    LET n == Len(answered[c])
    IN  /\ n < Len(asked[c])
        /\ n > 0 => ~EndsConnection(answered[c][n])
        /\ answered' = [answered EXCEPT ![c] = Append(@, Answer(asked[c][n + 1]))]
        /\ UNCHANGED asked

Next == \E c \in Clients : Reply(c) \/ \E r \in Requests : Ask(c, r)

Spec == Init /\ [][Next]_vars

=============================================================================
