----------------------------- MODULE HttpServer -----------------------------
(***************************************************************************)
(* test/beast_http_server: a listener, and sessions that each read a       *)
(* request, write its response and read the next one.  The handlers of one *)
(* session run in its strand, those of different sessions in any order or  *)
(* at once; the sessions share nothing that changes.                       *)
(*                                                                         *)
(* An operation is "idle" when none is outstanding, "pending" until it     *)
(* completes, and then holds what its handler will be told.  A session     *)
(* without one is destroyed, and its socket with it.  Time is relative:    *)
(* the deadline of a stream is the number of ticks until it.               *)
(***************************************************************************)
EXTENDS Integers, Sequences

CONSTANTS Sessions,      \* the connections that are made
          Requests,      \* what the clients send
          Timeout,       \* 30 seconds, in ticks
          MaxRequests    \* bound: the requests of one client

VARIABLES accept,    \* the listener's async_accept
          session,   \* the sessions
          asked,     \* history: the requests each client has sent
          answered   \* history: the responses each client has been sent

vars == <<accept, session, asked, answered>>

\* What handle_request looks at: whether the method is known, the target legal,
\* and what opening the file says.
Request == [method : {"get", "head", "other"}, target : {"legal", "illegal"},
            file : {"found", "missing", "error"}, keep_alive : BOOLEAN]

\* Of a response: whether it has a Content-Length.
Response == [status : {200, 400, 404, 500}, length : BOOLEAN, keep_alive : BOOLEAN]

HttpAssumption == /\ {Timeout, MaxRequests} \subseteq Nat \ {0}
                  /\ Requests \subseteq Request

Op == {"idle", "posted", "pending", "done", "failed", "eof"}

SessionState ==
    [made : BOOLEAN,
     read : Op,                     \* async_read; "posted": run() has posted do_read
     write : Op,                    \* async_write
     close : BOOLEAN,               \* what on_write is bound to
     used : 0..MaxRequests,         \* the requests read so far
     deadline : 0..Timeout]         \* stream_.expires_after

Init ==
    /\ accept = "pending"                     \* listener::run
    /\ session = [s \in Sessions |-> [made |-> FALSE, read |-> "idle", write |-> "idle",
                                      close |-> FALSE, used |-> 0, deadline |-> 0]]
    /\ asked = [s \in Sessions |-> <<>>]
    /\ answered = [s \in Sessions |-> <<>>]

----------------------------------------------------------------------------
(* The response to a request *)

error_response(status, req) ==
    [status |-> status, length |-> TRUE, keep_alive |-> req.keep_alive]

\* A response to HEAD gets no Content-Length.
handle_request(req) ==
    IF req.method = "other" \/ req.target = "illegal" THEN error_response(400, req)
    ELSE IF req.file = "missing" THEN error_response(404, req)
    ELSE IF req.file = "error" THEN error_response(500, req)
    ELSE [status |-> 200, length |-> req.method = "get", keep_alive |-> req.keep_alive]

\* message::need_eof: only the end of the connection ends a body without a length.
need_eof(res) == ~res.length \/ ~res.keep_alive

----------------------------------------------------------------------------
(* The session *)

Set(s, t) == session' = [session EXCEPT ![s] = t]

\* Mutation: the deadline is not set, and the timer of the stream never expires.
do_read_NoDeadline(t) == [t EXCEPT !.read = "pending", !.deadline = -1]

do_read(t) == [t EXCEPT !.read = "pending", !.deadline = Timeout]

OnAccept ==
    \/ /\ accept = "done"
       /\ accept' = "pending"
       /\ \E s \in Sessions :
             /\ ~session[s].made
             /\ Set(s, [session[s] EXCEPT !.made = TRUE, !.read = "posted"])
       /\ UNCHANGED <<asked, answered>>
    \/ /\ accept = "failed"
       /\ accept' = "pending"
       /\ UNCHANGED <<session, asked, answered>>

\* What run() has posted to the strand.
Run(s) ==
    /\ session[s].read = "posted"
    /\ Set(s, do_read(session[s]))
    /\ UNCHANGED <<accept, asked, answered>>

\* on_read: the response is made and its write begins, a session whose read
\* failed or met the end of the stream starts nothing.
OnRead(s) ==
    LET t == [session[s] EXCEPT !.read = "idle"]
        res == handle_request(asked[s][t.used])
    IN  /\ \/ /\ session[s].read = "done"
              /\ Set(s, [t EXCEPT !.write = "pending", !.close = need_eof(res)])
           \/ /\ session[s].read \in {"failed", "eof"}
              /\ Set(s, t)
        /\ UNCHANGED <<accept, asked, answered>>

\* Mutation: the connection is kept, whatever the response says.
OnWrite_KeepsOpen(s) ==
    LET t == [session[s] EXCEPT !.write = "idle"]
    IN  /\ \/ session[s].write = "done" /\ Set(s, do_read(t))
           \/ session[s].write = "failed" /\ Set(s, t)
        /\ UNCHANGED <<accept, asked, answered>>

OnWrite(s) ==
    LET t == [session[s] EXCEPT !.write = "idle"]
    IN  /\ \/ /\ session[s].write = "done" /\ ~session[s].close
              /\ Set(s, do_read(t))
           \/ /\ session[s].write = "failed" \/ (session[s].write = "done" /\ session[s].close)
              /\ Set(s, t)
        /\ UNCHANGED <<accept, asked, answered>>

----------------------------------------------------------------------------
(* The clients, the network and the clock *)

AcceptCompletes ==
    /\ accept = "pending"
    /\ accept' \in {"failed"} \cup IF \A s \in Sessions : session[s].made THEN {} ELSE {"done"}
    /\ UNCHANGED <<session, asked, answered>>

\* A client may send requests before the earlier ones are answered.
Ask(s, req) ==
    /\ session[s].made
    /\ Len(asked[s]) < MaxRequests
    /\ asked' = [asked EXCEPT ![s] = Append(@, req)]
    /\ UNCHANGED <<accept, session, answered>>

\* async_read completes with the next request, at the end of the stream, or
\* with an error.
ReadCompletes(s) ==
    /\ session[s].read = "pending"
    /\ \/ /\ session[s].used < Len(asked[s])
          /\ Set(s, [session[s] EXCEPT !.read = "done", !.used = @ + 1])
       \/ \E result \in {"eof", "failed"} : Set(s, [session[s] EXCEPT !.read = result])
    /\ UNCHANGED <<accept, asked, answered>>

\* The response is sent whole, or not to its end.
WriteCompletes(s) ==
    /\ session[s].write = "pending"
    /\ \/ /\ Set(s, [session[s] EXCEPT !.write = "done"])
          /\ answered' = [answered EXCEPT ![s] =
                             Append(@, handle_request(asked[s][session[s].used]))]
       \/ /\ Set(s, [session[s] EXCEPT !.write = "failed"])
          /\ UNCHANGED answered
    /\ UNCHANGED <<accept, asked>>

\* The timer of the stream runs during every operation, from the last
\* expires_after: at its expiry the socket is closed and the operation fails.
StreamExpires(s) ==
    /\ session[s].deadline = 0
    /\ \/ /\ session[s].read = "pending"
          /\ Set(s, [session[s] EXCEPT !.read = "failed"])
       \/ /\ session[s].write = "pending"
          /\ Set(s, [session[s] EXCEPT !.write = "failed"])
    /\ UNCHANGED <<accept, asked, answered>>

Tick ==
    /\ session' = [s \in Sessions |->
                     [session[s] EXCEPT !.deadline = IF @ > 0 THEN @ - 1 ELSE @]]
    /\ UNCHANGED <<accept, asked, answered>>

Handlers == OnAccept \/ \E s \in Sessions : Run(s) \/ OnRead(s) \/ OnWrite(s)

Next == \/ Handlers \/ AcceptCompletes \/ Tick
        \/ \E s \in Sessions : \/ \E req \in Requests : Ask(s, req)
                               \/ ReadCompletes(s) \/ WriteCompletes(s)
                               \/ StreamExpires(s)

\* The threads run the handlers that are ready, and the clock advances; the
\* clients may stay silent, and need not read.
Fairness ==
    /\ WF_vars(Tick) /\ WF_vars(OnAccept)
    /\ \A s \in Sessions : /\ WF_vars(Run(s)) /\ WF_vars(OnRead(s))
                           /\ WF_vars(OnWrite(s)) /\ WF_vars(StreamExpires(s))

Spec == Init /\ [][Next]_vars /\ Fairness

----------------------------------------------------------------------------
(* Properties *)

TypeOK ==
    /\ accept \in Op
    /\ session \in [Sessions -> SessionState]
    /\ asked \in [Sessions -> Seq(Requests)]
    /\ answered \in [Sessions -> Seq(Response)]

Connection ==
    INSTANCE HttpConnection
    WITH Clients <- Sessions, Answer <- handle_request, EndsConnection <- need_eof

\* Whatever a client sends ahead, it gets one response per request and in that
\* order, and a response without a length, or with "Connection: close", is the
\* last (lines 180-184).
AnswersInOrder == Connection!Spec

\* A client that stops sending, or stops reading, holds its session for no
\* longer than the timeout of its last request (line 149).
EveryOperationEnds ==
    \A s \in Sessions : /\ session[s].read = "pending" ~> session[s].read # "pending"
                        /\ session[s].write = "pending" ~> session[s].write # "pending"

=============================================================================
