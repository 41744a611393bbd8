----------------------------- MODULE TcpServer -----------------------------
(***************************************************************************)
(* test/asio_tcp_server_timeout: a server whose sessions share a channel   *)
(* (net::channel).  A tcp_session is four actors run by one thread: one    *)
(* reads lines, one waits for output and writes it, and one watches each   *)
(* deadline.  A step is one handler run to its end, or something Asio or   *)
(* the network does between two handlers.                                  *)
(*                                                                         *)
(* An asynchronous operation is "idle" when none is outstanding, "pending" *)
(* until it completes, and "queued" once its handler may run.  A read      *)
(* whose handler may run holds its result: a line, or "failed"; so does a  *)
(* write: "sent", or "failed".  Ready handlers run in any order.           *)
(*                                                                         *)
(* Time is relative: a deadline is the number of ticks until expiry().     *)
(***************************************************************************)
EXTENDS Integers, Sequences

CONSTANTS Sessions,     \* the connections clients may open, each once
          Messages,     \* the non-empty lines a client may send
          Heartbeat,    \* the line that is a single newline
          Broadcaster,  \* the net::udp::broadcaster, always subscribed
          Timeout,      \* the 30 seconds of either deadline, in ticks
          MaxPosts      \* bound: no further message is read once the log has this length

Lines == Messages \cup {Heartbeat}

ASSUME TimeoutAssumption == Timeout \in Nat \ {0}
ASSUME PostsAssumption == MaxPosts \in Nat
ASSUME LinesAssumption == /\ Heartbeat \notin Messages
                          /\ Lines \cap {"idle", "pending", "failed"} = {}
ASSUME BroadcasterAssumption == Broadcaster \notin Sessions

VARIABLES session,      \* the tcp_session of each connection
          subscribers,  \* channel::subscribers_
          log,          \* history: the messages given to channel::deliver
          from,         \* history: the length of the log when a session joined
          received      \* history: the messages sent in full to each client

vars == <<session, subscribers, log, from, received>>

----------------------------------------------------------------------------
(* One session *)

Timers == {"input", "output"}    \* input_deadline_, output_deadline_
Forever == Timeout + 1           \* time_point::max()

Wait == {"idle", "pending", "queued"}

SessionState ==
    [sock : {"none", "open", "closed"},
     reader : {"idle", "pending", "failed"} \cup Lines,   \* async_read_until
     writer : {"idle", "pending", "sent", "failed"},      \* async_write
     waiter : Wait,                                       \* wait on nonEmpty
     check : [Timers -> Wait],                            \* wait on a deadline
     nonEmpty : {"max", "min"},                \* non_empty_output_queue_.expiry()
     deadline : [Timers -> 0..Forever],
     outputQueue : Seq(Lines)]

Constructed ==
    [sock |-> "none", reader |-> "idle", writer |-> "idle", waiter |-> "idle",
     check |-> [w \in Timers |-> "idle"], nonEmpty |-> "max",
     deadline |-> [w \in Timers |-> Forever], outputQueue |-> <<>>]

Stopped(r) == r.sock # "open"

\* Cancelling a timer, or moving its expiry, completes the wait on it.
Cancel(wait) == IF wait = "pending" THEN "queued" ELSE wait
\* Closing the socket fails the operation on it.
Abort(op) == IF op = "pending" THEN "failed" ELSE op

ReadLine(r) == [r EXCEPT !.reader = "pending",
                         !.deadline["input"] = Timeout,
                         !.check["input"] = Cancel(@)]

\* Mutation: an actor with nothing to send does not wait.
AwaitOutput_IfNonEmpty(r) ==
    IF r.outputQueue = <<>> THEN r ELSE [r EXCEPT !.waiter = "pending"]

AwaitOutput(r) == [r EXCEPT !.waiter = "pending"]

\* Mutation: the write has no deadline.
WriteLine_NoDeadline(r) == [r EXCEPT !.writer = "pending"]

WriteLine(r) == [r EXCEPT !.writer = "pending",
                          !.deadline["output"] = Timeout,
                          !.check["output"] = Cancel(@)]

CheckDeadline(r, w) == [r EXCEPT !.check[w] = "pending"]

Start(r) ==
    CheckDeadline(
        AwaitOutput(
            CheckDeadline(
                ReadLine([r EXCEPT !.sock = "open"]), "input")), "output")

\* Mutation: the wait on the output deadline is not cancelled.
Stop_KeepsOutputDeadline(r) == [r EXCEPT !.sock = "closed",
                                         !.reader = Abort(@),
                                         !.writer = Abort(@),
                                         !.waiter = Cancel(@),
                                         !.check["input"] = Cancel(@)]

Stop(r) == [r EXCEPT !.sock = "closed",
                     !.reader = Abort(@),
                     !.writer = Abort(@),
                     !.waiter = Cancel(@),
                     !.check = [w \in Timers |-> Cancel(@[w])]]

\* Mutations: the actor is not woken; the line overtakes the queue; a line is
\* dropped while another waits; a message is sent twice.
Enqueue_Silent(r, line) == [r EXCEPT !.outputQueue = Append(@, line)]
Enqueue_Front(r, line) == [r EXCEPT !.outputQueue = <<line>> \o @,
                                    !.nonEmpty = "min",
                                    !.waiter = Cancel(@)]
Enqueue_IfEmpty(r, line) == [r EXCEPT !.outputQueue = IF @ = <<>> THEN <<line>> ELSE @,
                                      !.nonEmpty = "min",
                                      !.waiter = Cancel(@)]

Enqueue_Twice(r, line) == [r EXCEPT !.outputQueue = IF line = Heartbeat THEN Append(@, line)
                                                    ELSE @ \o <<line, line>>,
                                    !.nonEmpty = "min",
                                    !.waiter = Cancel(@)]

\* Append a line and signal the output actor by moving the expiry to min().
Enqueue(r, line) == [r EXCEPT !.outputQueue = Append(@, line),
                              !.nonEmpty = "min",
                              !.waiter = Cancel(@)]

----------------------------------------------------------------------------
(* The server: accept, and the handlers of the actors *)

Init ==
    /\ session = [s \in Sessions |-> Constructed]
    /\ subscribers = {Broadcaster}
    /\ log = <<>>
    /\ from = [s \in Sessions |-> 0]
    /\ received = [s \in Sessions |-> <<>>]

\* Every handler of a stopped session returns before it reads anything else
\* of it, so of a stopped session only the outstanding operations are kept.
\* They and the channel hold its shared_ptrs: without any it is destroyed.
Remains(r) == [Constructed EXCEPT !.sock = "closed",
                                  !.reader = IF r.reader = "idle" THEN "idle" ELSE "failed",
                                  !.writer = IF r.writer = "idle" THEN "idle" ELSE "failed",
                                  !.waiter = r.waiter,
                                  !.check = r.check]

Destroyed == [Constructed EXCEPT !.sock = "closed"]

Set(s, r) == session' = [session EXCEPT ![s] = IF Stopped(r) THEN Remains(r) ELSE r]

Accept(s) ==
    /\ session[s].sock = "none"
    /\ Set(s, Start(session[s]))
    /\ subscribers' = subscribers \cup {s}
    /\ from' = [from EXCEPT ![s] = Len(log)]
    /\ UNCHANGED <<log, received>>

\* The handler whose session is r, found stopped, returns at once.
Return(s, r) ==
    /\ Stopped(r)
    /\ Set(s, r)
    /\ UNCHANGED subscribers

\* Mutation: the stopped session stays in the channel.
StopSession_NoLeave(s, r) ==
    /\ ~Stopped(r)
    /\ Set(s, Stop(r))
    /\ UNCHANGED subscribers

\* The handler stops the session.
StopSession(s, r) ==
    /\ ~Stopped(r)
    /\ Set(s, Stop(r))
    /\ subscribers' = subscribers \ {s}

\* The handler goes on: the session becomes r.
Continue(s, r) ==
    /\ ~Stopped(r)
    /\ Set(s, r)
    /\ UNCHANGED subscribers

\* channel::deliver: every subscribed session appends the message.  The
\* broadcaster sends a datagram, ignores errors and keeps no state.
Deliver(s, r, msg) ==
    LET base == [session EXCEPT ![s] = r]
        heard == [t \in Sessions |-> IF t \in subscribers
                                       THEN Enqueue(base[t], msg) ELSE base[t]]
    IN  /\ ~Stopped(r)
        /\ session' = [heard EXCEPT ![s] = ReadLine(@)]
        /\ log' = Append(log, msg)
        /\ UNCHANGED subscribers

\* Mutation: every heartbeat is answered.
Answer_Always(r) == Enqueue(r, Heartbeat)

\* A heartbeat is answered only if nothing is being sent or ready to be sent.
Answer(r) == IF r.outputQueue = <<>> THEN Enqueue(r, Heartbeat) ELSE r

OnReadLine(s) ==
    LET line == session[s].reader
        r == [session[s] EXCEPT !.reader = "idle"]
    IN  /\ line \notin {"idle", "pending"}
        /\ \/ Return(s, r) /\ UNCHANGED log
           \/ line = "failed" /\ StopSession(s, r) /\ UNCHANGED log
           \/ line \in Messages /\ Deliver(s, r, line)
           \/ line = Heartbeat /\ Continue(s, ReadLine(Answer(r))) /\ UNCHANGED log
        /\ UNCHANGED <<from, received>>

\* The wait on a timer was cancelled, or its expiry has passed.
Fires(wait, expired) == wait = "queued" \/ (wait = "pending" /\ expired)

OnAwaitOutput(s) ==
    LET r == [session[s] EXCEPT !.waiter = "idle"]
        sleep == AwaitOutput([r EXCEPT !.nonEmpty = "max"])
    IN  /\ Fires(session[s].waiter, r.nonEmpty = "min")
        /\ \/ Return(s, r)
           \/ Continue(s, IF r.outputQueue = <<>> THEN sleep ELSE WriteLine(r))
        /\ UNCHANGED <<log, from, received>>

OnWriteLine(s) ==
    LET result == session[s].writer
        r == [session[s] EXCEPT !.writer = "idle"]
    IN  /\ result \in {"sent", "failed"}
        /\ \/ Return(s, r)
           \/ result = "failed" /\ StopSession(s, r)
           \/ /\ result = "sent"
              /\ Continue(s, AwaitOutput([r EXCEPT !.outputQueue = Tail(@)]))
        /\ UNCHANGED <<log, from, received>>

\* Mutation: any wake-up is taken for an expiry.
Expired_Always(r, w) == TRUE

Expired(r, w) == r.deadline[w] = 0

\* The handler runs when its deadline passes or is moved, so it looks again.
OnCheckDeadline(s, w) ==
    LET r == [session[s] EXCEPT !.check[w] = "idle"]
    IN  /\ Fires(session[s].check[w], r.deadline[w] = 0)
        /\ \/ Return(s, r)
           \/ Expired(r, w) /\ StopSession(s, r)
           \/ ~Expired(r, w) /\ Continue(s, CheckDeadline(r, w))
        /\ UNCHANGED <<log, from, received>>

----------------------------------------------------------------------------
(* Asio, the network and the clock *)

\* A whole line is in the input buffer.
LineArrives(s, line) ==
    /\ session[s].reader = "pending"
    /\ line \in Messages => Len(log) < MaxPosts
    /\ session' = [session EXCEPT ![s].reader = line]
    /\ UNCHANGED <<subscribers, log, from, received>>

\* The peer closed or reset the connection.
ReadFails(s) ==
    /\ session[s].reader = "pending"
    /\ session' = [session EXCEPT ![s].reader = "failed"]
    /\ UNCHANGED <<subscribers, log, from, received>>

LineSent(s) ==
    /\ session[s].writer = "pending"
    /\ session' = [session EXCEPT ![s].writer = "sent"]
    /\ received' = LET line == Head(session[s].outputQueue)
                   IN  IF line = Heartbeat THEN received
                       ELSE [received EXCEPT ![s] = Append(@, line)]
    /\ UNCHANGED <<subscribers, log, from>>

WriteFails(s) ==
    /\ session[s].writer = "pending"
    /\ session' = [session EXCEPT ![s].writer = "failed"]
    /\ UNCHANGED <<subscribers, log, from, received>>

\* Nothing reads the deadlines of a stopped session: they are left alone.
Countdown(r) ==
    LET step(left) == IF left \in {0, Forever} THEN left ELSE left - 1
    IN  IF Stopped(r) THEN r
        ELSE [r EXCEPT !.deadline = [w \in Timers |-> step(@[w])]]

Tick ==
    /\ session' = [s \in Sessions |-> Countdown(session[s])]
    /\ UNCHANGED <<subscribers, log, from, received>>

Handlers(s) == \/ OnReadLine(s)
               \/ OnAwaitOutput(s)
               \/ OnWriteLine(s)
               \/ \E w \in Timers : OnCheckDeadline(s, w)

Network(s) == \/ Accept(s)
              \/ \E line \in Lines : LineArrives(s, line)
              \/ ReadFails(s)
              \/ LineSent(s)
              \/ WriteFails(s)

Next == Tick \/ \E s \in Sessions : Handlers(s) \/ Network(s)

\* The clock advances, and io_context runs every handler that stays ready.
\* Nothing is assumed of the clients: a read or a write may stay pending.
Fairness ==
    /\ WF_vars(Tick)
    /\ \A s \in Sessions :
          /\ WF_vars(OnReadLine(s))
          /\ WF_vars(OnAwaitOutput(s))
          /\ WF_vars(OnWriteLine(s))
          /\ \A w \in Timers : WF_vars(OnCheckDeadline(s, w))

Safety == Init /\ [][Next]_vars

Spec == Safety /\ Fairness

----------------------------------------------------------------------------
(* Properties *)

Open(s) == ~Stopped(session[s])

\* Every variable holds a value of its type.
TypeOK ==
    /\ session \in [Sessions -> SessionState]
    /\ subscribers \in SUBSET (Sessions \cup {Broadcaster})
    /\ log \in Seq(Messages)
    /\ from \in [Sessions -> Nat]
    /\ received \in [Sessions -> Seq(Messages)]

\* While a session is open none of its four actors has died: the reader and
\* both watchers have an operation outstanding, and the output actor has
\* exactly one, its wait or its write (the diagrams of lines 27-81).
ActorsAlive ==
    \A s \in Sessions : Open(s) =>
        /\ session[s].reader # "idle"
        /\ \A w \in Timers : session[s].check[w] # "idle"
        /\ (session[s].waiter = "idle") # (session[s].writer = "idle")

\* The timer used as a condition variable loses no signal: an output actor
\* that sleeps on max() has nothing to send (lines 83-85).
NoLostWakeup ==
    \A s \in Sessions :
        /\ Open(s)
        /\ session[s].waiter = "pending"
        /\ session[s].outputQueue # <<>>
        => session[s].nonEmpty = "min"

\* async_write is given a reference to the front of the queue (line 211): as
\* long as the write is outstanding the queue keeps that front, whatever
\* deliver appends behind it.
FrontStaysWhileWriting ==
    [][\A s \in Sessions :
         session[s].writer = "pending" /\ Open(s)' =>
            /\ session[s].outputQueue # <<>>
            /\ session'[s].outputQueue # <<>>
            /\ Head(session'[s].outputQueue) = Head(session[s].outputQueue)]_vars

\* A heartbeat is enqueued only when no other message waits (lines 59-61), so
\* nothing but the front of a queue is ever a heartbeat.
HeartbeatOnlyInFront ==
    \A s \in Sessions : Open(s) =>
        \A i \in 2..Len(session[s].outputQueue) : session[s].outputQueue[i] # Heartbeat

\* The messages of the queue that the client has not received: a front that
\* is a heartbeat, or is sent and not yet popped, is not among them.
Unsent(r) ==
    LET q == r.outputQueue
    IN  IF q # <<>> /\ (Head(q) = Heartbeat \/ r.writer = "sent") THEN Tail(q) ELSE q

\* What a client has received, followed by what waits for it, is the log from
\* the moment its session joined: for every open session channel::deliver
\* neither loses, repeats nor reorders a message (line 58).
NothingLost ==
    \A s \in Sessions : Open(s) =>
        received[s] \o Unsent(session[s]) = SubSeq(log, from[s] + 1, Len(log))

\* A stopped session has left the channel, and no one else has.
SubscribersAreOpen == subscribers = {Broadcaster} \cup {s \in Sessions : Open(s)}

\* A session stops because an operation on its socket failed or because a
\* deadline has passed; a deadline that was moved in time stops nothing,
\* although moving it runs the handler of check_deadline (lines 234-237).
StopsForAReason ==
    [][\A s \in Sessions : (Open(s) /\ session'[s].sock = "closed") =>
         \/ session[s].reader = "failed"
         \/ session[s].writer = "failed"
         \/ \E w \in Timers : session[s].deadline[w] = 0]_vars

Clients == INSTANCE OrderedBroadcast
           WITH Clients <- Sessions,
                status <- [s \in Sessions |-> session[s].sock]

\* The server implements the broadcast of one totally ordered log.
BroadcastsInOrder == Clients!Safety

\* It also owes no connected client a message for ever: a write that hangs is
\* ended by the output deadline.
ImplementsBroadcast == Clients!Spec

\* Every handler of a stopped session runs and starts nothing, so the session
\* loses its last shared_ptr and is destroyed (lines 153-156, 188-191, 230-233).
StoppedSessionIsDestroyed ==
    \A s \in Sessions :
        session[s].sock = "closed" ~> session[s] = Destroyed /\ s \notin subscribers

\* The operations of a session that are outstanding.
Outstanding(r) ==
    {a \in {"reader", "writer", "waiter"} : r[a] # "idle"} \cup {w \in Timers : r.check[w] # "idle"}

\* Each of them has completed, and its handler waits only to run.
Ready(r) ==
    /\ {r.reader, r.writer} \subseteq {"idle", "failed"}
    /\ r.waiter # "pending" /\ \A w \in Timers : r.check[w] # "pending"

\* What this rests on, step by step: a stopped session stays stopped, waits for
\* nothing that may not come, gets fewer outstanding operations with every handler
\* that runs, and is destroyed with the last.
StoppedSessionWindsUp ==
    [][\A s \in Sessions :
         /\ session'[s].sock = "closed" =>
               /\ Ready(session'[s])
               /\ Outstanding(session'[s]) = {} => session'[s] = Destroyed
         /\ session[s].sock = "closed" =>
               /\ session'[s].sock = "closed"
               /\ \/ session'[s] = session[s]
                  \/ /\ Outstanding(session'[s]) \subseteq Outstanding(session[s])
                     /\ Outstanding(session'[s]) # Outstanding(session[s])]_vars

\* Lines 87-88: "The deadline for sending a complete message is 30 seconds".
\* A deadline for sending ends a session only while it sends: when the output
\* deadline stops a session that has read every line in time, the write of a
\* message has not ended.  The code never takes the deadline of a write back.
OutputDeadlineIsForSending ==
    [][\A s \in Sessions :
         (/\ Open(s) /\ session'[s].sock = "closed"
          /\ session[s].reader = "pending" /\ session[s].deadline["input"] > 0
          /\ session[s].writer # "failed")
         => session[s].writer # "idle"]_vars

=============================================================================
