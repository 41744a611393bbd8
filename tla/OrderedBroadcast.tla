-------------------------- MODULE OrderedBroadcast --------------------------
(***************************************************************************)
(* What the chat server of test/asio_tcp_server_timeout promises its       *)
(* clients, without sessions, actors, timers or queues: the messages form  *)
(* one log, and a client that joined when the log had from[c] messages     *)
(* receives the messages after that point, in the order of the log,        *)
(* without a gap and without a duplicate, until it leaves.                 *)
(***************************************************************************)
EXTENDS Naturals, Sequences

CONSTANTS Clients,    \* the peers that may connect, each at most once
          Messages    \* the non-empty messages

VARIABLES log,        \* every message posted, in order
          status,     \* "none" before a client joins, then "open", then "closed"
          from,       \* the length of the log when a client joined
          received    \* the messages a client has received

vars == <<log, status, from, received>>

Init ==
    /\ log = <<>>
    /\ status = [c \in Clients |-> "none"]
    /\ from = [c \in Clients |-> 0]
    /\ received = [c \in Clients |-> <<>>]

Join(c) ==
    /\ status[c] = "none"
    /\ status' = [status EXCEPT ![c] = "open"]
    /\ from' = [from EXCEPT ![c] = Len(log)]
    /\ UNCHANGED <<log, received>>

Leave(c) ==
    /\ status[c] = "open"
    /\ status' = [status EXCEPT ![c] = "closed"]
    /\ UNCHANGED <<log, from, received>>

\* Only a client that is connected can post, and it hears its own message.
Post(c, m) ==
    /\ status[c] = "open"
    /\ log' = Append(log, m)
    /\ UNCHANGED <<status, from, received>>

\* The number of the next message that c is to receive.
Position(c) == from[c] + Len(received[c]) + 1

Receive(c) ==
    /\ status[c] = "open"
    /\ Position(c) <= Len(log)
    /\ received' = [received EXCEPT ![c] = Append(@, log[Position(c)])]
    /\ UNCHANGED <<log, status, from>>

Next == \E c \in Clients : \/ Join(c)
                           \/ Leave(c)
                           \/ Receive(c)
                           \/ \E m \in Messages : Post(c, m)

Safety == Init /\ [][Next]_vars

\* A client that is owed a message gets it or is disconnected.
Spec == Safety /\ \A c \in Clients :
                     WF_vars(Receive(c) \/ (Position(c) <= Len(log) /\ Leave(c)))

=============================================================================
