------------------------------ MODULE PingPong ------------------------------
(***************************************************************************)
(* test/uv_ping_pong and the server it talks to, test/uv_tcp_echo_server:  *)
(* the pinger writes "PING\n", counts a pong for every five characters it  *)
(* gets back, and writes the next one, until NUM_PINGS pongs have come.    *)
(* The connection keeps the order of the characters but not the borders of *)
(* the writes.  A character is its position in PING.                       *)
(*                                                                         *)
(* Connections, writes and reads succeed: where they do not, an assertion  *)
(* ends the program.  The server ends the connection only after the pinger *)
(* has, so the end of the stream never reaches the pinger.                 *)
(***************************************************************************)
EXTENDS Integers, Sequences

CONSTANTS Length,       \* the characters of PING: 5 in the code
          NUM_PINGS     \* 100 in the code

PingPongAssumption == {Length, NUM_PINGS} \subseteq Nat \ {0}

VARIABLES phase,      \* of the pinger: "connecting", "open", "closing", "closed"
          state,      \* the position in PING of the character expected next
          pongs,
          matched,    \* the assertion on every character has held
          server,     \* of the server: "listening", "open", "closed"
          toServer,   \* the characters on their way
          toPinger

vars == <<phase, state, pongs, matched, server, toServer, toPinger>>

PING == [i \in 1..Length |-> i - 1]

Init ==
    /\ phase = "connecting"
    /\ state = 0 /\ pongs = 0
    /\ matched = TRUE
    /\ server = "listening"
    /\ toServer = <<>> /\ toPinger = <<>>

\* pinger_on_connect: writes, in one buffer or in five, and starts to read.  The
\* server may not have accepted the connection yet.
OnConnect ==
    /\ phase = "connecting"
    /\ phase' = "open"
    /\ toServer' = PING
    /\ UNCHANGED <<state, pongs, matched, server, toPinger>>

\* One character: the last of a pong counts it and writes the next PING.
Count(p, char) ==
    LET next == (p.state + 1) % Length
        pong == IF next = 0 THEN p.pongs + 1 ELSE p.pongs
        ping == IF next = 0 /\ pong < NUM_PINGS THEN PING ELSE <<>>
    IN  [state |-> next, pongs |-> pong,
         matched |-> p.matched /\ char = p.state, written |-> p.written \o ping]

\* The loop over the characters of a read, which the last pong leaves: what it
\* has done after n of them.
CountedFrom(start, chars) ==
    LET after[n \in 0..Len(chars)] ==
            IF n = 0 THEN [state |-> start, pongs |-> pongs, matched |-> matched,
                           written |-> <<>>]
            ELSE IF after[n - 1].pongs = NUM_PINGS THEN after[n - 1]
            ELSE Count(after[n - 1], chars[n])
    IN  after

\* Mutation: every read is taken for the begin of a pong.
Counted_FromZero(chars) == CountedFrom(0, chars)[Len(chars)]

\* The position is kept from one read to the next.
Counted(chars) == CountedFrom(state, chars)[Len(chars)]

\* pinger_read_cb: a read returns any part of what has arrived.
Read ==
    /\ phase = "open"
    /\ \E n \in 1..Len(toPinger) :
          LET after == Counted(SubSeq(toPinger, 1, n))
          IN  /\ toPinger' = SubSeq(toPinger, n + 1, Len(toPinger))
              /\ state' = after.state /\ pongs' = after.pongs /\ matched' = after.matched
              /\ toServer' = toServer \o after.written
              /\ phase' = IF after.pongs = NUM_PINGS THEN "closing" ELSE phase
    /\ UNCHANGED server

\* pinger_on_close
OnClose ==
    /\ phase = "closing"
    /\ phase' = "closed"
    /\ UNCHANGED <<state, pongs, matched, server, toServer, toPinger>>

Accept ==
    /\ server = "listening"
    /\ server' = "open"
    /\ UNCHANGED <<phase, state, pongs, matched, toServer, toPinger>>

\* echo_read: what was read is written back, even while earlier writes are
\* outstanding.
Echo ==
    /\ server = "open"
    /\ \E n \in 1..Len(toServer) :
          /\ toPinger' = toPinger \o SubSeq(toServer, 1, n)
          /\ toServer' = SubSeq(toServer, n + 1, Len(toServer))
    /\ UNCHANGED <<phase, state, pongs, matched, server>>

\* echo_read at the end of the stream.
EchoEnds ==
    /\ server = "open" /\ phase \in {"closing", "closed"} /\ toServer = <<>>
    /\ server' = "closed"
    /\ UNCHANGED <<phase, state, pongs, matched, toServer, toPinger>>

Next == OnConnect \/ Read \/ OnClose \/ Accept \/ Echo \/ EchoEnds

\* Both loops run, and the connection delivers what it was given.
Fairness == WF_vars(Next)

Spec == Init /\ [][Next]_vars /\ Fairness

----------------------------------------------------------------------------
(* Properties *)

TypeOK ==
    /\ phase \in {"connecting", "open", "closing", "closed"}
    /\ state \in 0..Length - 1
    /\ pongs \in 0..NUM_PINGS
    /\ matched \in BOOLEAN
    /\ server \in {"listening", "open", "closed"}
    /\ {toServer, toPinger} \subseteq Seq(0..Length - 1)

\* However the connection cuts the characters, every one is the one expected
\* (line 111), what is under way is the rest of exactly one PING, and the pinger
\* closes with all its pongs and nothing left behind (line 93).
PongsMatchPings ==
    /\ matched
    /\ phase = "open" => toPinger \o toServer = SubSeq(PING, state + 1, Length)
    /\ phase \in {"closing", "closed"} =>
          pongs = NUM_PINGS /\ state = 0 /\ toPinger \o toServer = <<>>

\* The exchange ends, and with it both connections.
Completes == <>(phase = "closed" /\ server = "closed")

=============================================================================
