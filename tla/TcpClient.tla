----------------------------- MODULE TcpClient -----------------------------
(***************************************************************************)
(* test/asio_tcp_client_timeout: a client that tries the endpoints of a    *)
(* server in turn and then reads lines and sends heartbeats, while one     *)
(* actor watches one deadline that the connect and the read share.         *)
(*                                                                         *)
(* One thread runs the handlers.  An operation is "idle" when none is      *)
(* outstanding, "pending" until it completes, and then holds what its      *)
(* handler will be told.  Time is relative: a deadline is the number of    *)
(* ticks until expiry().                                                   *)
(***************************************************************************)
EXTENDS Integers

CONSTANTS Endpoints,        \* the number of endpoints the resolver found
          ConnectTimeout,   \* 60 seconds, in ticks
          ReadTimeout,      \* 30 seconds
          HeartbeatPeriod,  \* 10 seconds
          MaxBuffered       \* bound: lines that input_buffer_ can hold

ASSUME ClientAssumption ==
    /\ Endpoints \in Nat
    /\ {ConnectTimeout, ReadTimeout, HeartbeatPeriod, MaxBuffered} \subseteq Nat \ {0}

VARIABLE client

vars == <<client>>

Forever == ConnectTimeout + ReadTimeout    \* time_point::max()
Wait == {"idle", "pending", "queued"}
IO == {"idle", "pending", "done", "failed"}

ClientState ==
    [stopped : BOOLEAN,
     open : BOOLEAN,                   \* socket_.is_open()
     endpoint : 0..Endpoints + 1,      \* endpoint_iter: 0 before start(), the last is end()
     connect : IO,                     \* async_connect
     reader : IO,                      \* async_read_until
     writer : IO,                      \* async_write
     beat : Wait,                      \* wait on heartbeat_
     check : Wait,                     \* wait on deadline_
     deadline : 0..Forever,
     heartbeat : 0..HeartbeatPeriod,
     buffered : 0..MaxBuffered]        \* whole lines in input_buffer_

Init ==
    client = [stopped |-> FALSE, open |-> FALSE, endpoint |-> 0, connect |-> "idle",
              reader |-> "idle", writer |-> "idle", beat |-> "idle", check |-> "idle",
              deadline |-> 0, heartbeat |-> 0, buffered |-> 0]

\* Cancelling a timer, or moving its expiry, completes the wait on it.
Cancel(wait) == IF wait = "pending" THEN "queued" ELSE wait
\* Closing the socket fails the operations on it.
Abort(op) == IF op = "pending" THEN "failed" ELSE op

Close(c) == [c EXCEPT !.open = FALSE,
                      !.connect = Abort(@),
                      !.reader = Abort(@),
                      !.writer = Abort(@)]

\* Mutation: the wait on the deadline is not cancelled.
Stop_KeepsDeadline(c) == [Close(c) EXCEPT !.stopped = TRUE, !.beat = Cancel(@)]

Stop(c) == [Close(c) EXCEPT !.stopped = TRUE,
                            !.check = Cancel(@),
                            !.beat = Cancel(@)]

\* Mutation: only the first connect has a deadline.
SetDeadline_Late(c, ticks) ==
    IF c.endpoint > 1 THEN c ELSE [c EXCEPT !.deadline = ticks, !.check = Cancel(@)]

SetDeadline(c, ticks) == [c EXCEPT !.deadline = ticks, !.check = Cancel(@)]

\* async_connect opens the socket.
StartConnect(c, e) ==
    LET next == [c EXCEPT !.endpoint = e]
    IN  IF e <= Endpoints
        THEN [SetDeadline(next, ConnectTimeout) EXCEPT !.open = TRUE, !.connect = "pending"]
        ELSE Stop(next)

\* A line left in the buffer completes the read at once, even on a closed
\* socket; without one a closed socket fails it.
StartRead(c) ==
    [SetDeadline(c, ReadTimeout) EXCEPT
        !.reader = IF c.buffered > 0 THEN "done" ELSE IF c.open THEN "pending" ELSE "failed"]

StartWrite(c) ==
    IF c.stopped THEN c ELSE [c EXCEPT !.writer = IF c.open THEN "pending" ELSE "failed"]

----------------------------------------------------------------------------
(* start(), and the handlers *)

Start ==
    /\ client.endpoint = 0
    /\ client' = [StartConnect(client, 1) EXCEPT !.check = "pending"]

\* Mutation: the socket is not looked at, so a connect that completed just
\* before its deadline closed the socket is taken for a connection.
HandleConnect_TrustsResult ==
    LET c == [client EXCEPT !.connect = "idle"]
    IN  /\ client.connect \in {"done", "failed"}
        /\ client' = IF c.stopped THEN c
                     ELSE IF client.connect = "failed" THEN StartConnect(c, c.endpoint + 1)
                     ELSE StartWrite(StartRead(c))

\* A connect that fails by itself only closes the socket: no other endpoint is
\* tried and the client is not stopped.  (Nothing here calls stop() while a
\* connect is outstanding; a user of the class could.)
HandleConnect ==
    LET c == [client EXCEPT !.connect = "idle"]
    IN  /\ client.connect \in {"done", "failed"}
        /\ client' = IF c.stopped THEN c
                     ELSE IF ~c.open THEN StartConnect(c, c.endpoint + 1)
                     ELSE IF client.connect = "failed" THEN Close(c)
                     ELSE StartWrite(StartRead(c))

HandleRead ==
    LET c == [client EXCEPT !.reader = "idle"]
    IN  \/ /\ client.reader \in {"done", "failed"}
           /\ c.stopped
           /\ client' = c
        \/ /\ client.reader = "done"
           /\ ~c.stopped
           /\ client' = StartRead([c EXCEPT !.buffered = @ - 1])
        \/ /\ client.reader = "failed"
           /\ ~c.stopped
           /\ client' = Stop(c)

\* Mutation: after the first heartbeat no other is scheduled.
HandleWrite_Once ==
    LET c == [client EXCEPT !.writer = "idle"]
    IN  /\ client.writer \in {"done", "failed"}
        /\ client' = IF c.stopped \/ client.writer = "done" THEN c ELSE Stop(c)

HandleWrite ==
    LET c == [client EXCEPT !.writer = "idle"]
    IN  \/ /\ client.writer \in {"done", "failed"}
           /\ c.stopped
           /\ client' = c
        \/ /\ client.writer = "done"
           /\ ~c.stopped
           /\ client' = [c EXCEPT !.heartbeat = HeartbeatPeriod, !.beat = "pending"]
        \/ /\ client.writer = "failed"
           /\ ~c.stopped
           /\ client' = Stop(c)

\* The wait on a timer was cancelled, or its expiry has passed.
Fires(wait, expired) == wait = "queued" \/ (wait = "pending" /\ expired)

\* The handler of the heartbeat timer is start_write.
Heartbeat ==
    /\ Fires(client.beat, client.heartbeat = 0)
    /\ client' = StartWrite([client EXCEPT !.beat = "idle"])

\* Mutation: any wake-up is taken for an expiry.
Expired_Always(c) == TRUE

Expired(c) == c.deadline = 0

CheckDeadline ==
    LET c == [client EXCEPT !.check = "idle"]
        closed == [Close(c) EXCEPT !.deadline = Forever]
    IN  \/ /\ Fires(client.check, client.deadline = 0)
           /\ c.stopped
           /\ client' = c
        \/ /\ Fires(client.check, client.deadline = 0)
           /\ ~c.stopped
           /\ client' = [(IF Expired(c) THEN closed ELSE c) EXCEPT !.check = "pending"]

----------------------------------------------------------------------------
(* The network and the clock *)

ConnectCompletes ==
    /\ client.connect = "pending"
    /\ \E result \in {"done", "failed"} : client' = [client EXCEPT !.connect = result]

LinesArrive ==
    /\ client.reader = "pending"
    /\ \E n \in 1..MaxBuffered :
          client' = [client EXCEPT !.reader = "done", !.buffered = n]

ReadFails ==
    /\ client.reader = "pending"
    /\ client' = [client EXCEPT !.reader = "failed"]

WriteCompletes ==
    /\ client.writer = "pending"
    /\ \E result \in {"done", "failed"} : client' = [client EXCEPT !.writer = result]

Tick ==
    client' = [client EXCEPT !.deadline = IF @ \in {0, Forever} THEN @ ELSE @ - 1,
                             !.heartbeat = IF @ = 0 THEN 0 ELSE @ - 1]

Next == \/ Start
        \/ HandleConnect \/ HandleRead \/ HandleWrite \/ Heartbeat \/ CheckDeadline
        \/ ConnectCompletes \/ LinesArrive \/ ReadFails \/ WriteCompletes
        \/ Tick

\* The clock advances and io_context runs the handlers that are ready; the
\* server may stay silent for ever.
Fairness ==
    /\ WF_vars(Start) /\ WF_vars(Tick)
    /\ WF_vars(HandleConnect) /\ WF_vars(HandleRead) /\ WF_vars(HandleWrite)
    /\ WF_vars(Heartbeat) /\ WF_vars(CheckDeadline)

Spec == Init /\ [][Next]_vars /\ Fairness

----------------------------------------------------------------------------
(* Properties *)

TypeOK == client \in ClientState

Started == client.endpoint > 0
Connecting == client.connect # "idle"
Connected == client.reader # "idle"

\* The deadline actor persists for the lifetime of the client (lines 15-16):
\* until stop() it always has a wait outstanding, and once there is a
\* connection so have the reader and the heartbeat actor, exactly one
\* operation each, while nothing connects any more.
ActorsAlive ==
    /\ Started /\ ~client.stopped => client.check # "idle"
    /\ Connected /\ ~client.stopped =>
          /\ ~Connecting
          /\ (client.writer = "idle") # (client.beat = "idle")

\* The deadline actor closes the socket of an attempt or of a read only when
\* the time that attempt or read was given is over, although every new
\* deadline wakes it (lines 225-227).
ClosesForAReason ==
    [][(client.open /\ ~client'.open) =>
         \/ client.deadline = 0
         \/ "failed" \in {client.connect, client.reader, client.writer}]_vars

\* A connect that succeeded too late, after the deadline closed its socket, is
\* no connection (lines 131-137): reading starts only on an open socket.
NoConnectionOnClosedSocket ==
    [][(~Connected /\ client'.reader # "idle") => client.open]_vars

\* A server that accepts nothing or says nothing does not hold an attempt or a
\* read for ever: its deadline ends it.
EveryWaitEnds ==
    /\ client.connect = "pending" ~> client.connect # "pending"
    /\ client.reader = "pending" ~> client.reader # "pending"

\* When the read deadline closed the socket, the client stops (lines 26-27),
\* through the failure of whichever operation notices first; and once it has
\* stopped, every handler that is still outstanding returns and starts nothing,
\* so that io_context::run returns.
StopsForGood ==
    client.stopped \/ (Connected /\ ~client.open)
       ~> [](/\ client.stopped
             /\ client.connect = "idle" /\ client.reader = "idle"
             /\ client.writer = "idle" /\ client.beat = "idle"
             /\ client.check = "idle")

\* Lines 29-31: "Connection establishment involves trying each endpoint in turn
\* until a connection is successful, or the available endpoints are exhausted."
\* While the client is neither connected nor stopped it is trying an endpoint.
TriesEndpointsInTurn ==
    Started /\ ~client.stopped => Connecting \/ Connected

=============================================================================
