------------------------------- MODULE Pinger -------------------------------
(***************************************************************************)
(* net::pinger (include/experimental/network/ping.hpp): echo requests with *)
(* a 16-bit sequence number, one timer that first waits for a reply and    *)
(* then for the next request, and a receiver that never stops.  One thread *)
(* runs the handlers; a tick is one second.                                *)
(*                                                                         *)
(* The network may lose, delay, reorder and duplicate replies, but not     *)
(* keep one longer than Lifetime.  Packets that are no reply to this       *)
(* process change nothing and are left out.                                *)
(***************************************************************************)
EXTENDS Integers

CONSTANTS Modulus,      \* 2^16, the range of sequence_number_
          Timeout,      \* five seconds, in ticks
          Interval,     \* one second
          Lifetime,     \* the age in ticks at which no reply to a request arrives any more
          MaxRequests,  \* bound: the requests that are sent
          MaxReplies    \* bound: the replies counted for one request

ASSUME PingerAssumption ==
    /\ {Modulus, Timeout, Interval, Lifetime, MaxRequests, MaxReplies} \subseteq Nat \ {0}
    /\ Interval < Timeout
    /\ Lifetime <= Modulus * Interval

VARIABLES timer,       \* timer_
          sequence,    \* sequence_number_
          replies,     \* num_replies_
          request,     \* history: how many requests were sent
          age,         \* history: ticks since each request, up to MaxAge
          answered,    \* history: the request of the last reply that was counted
          reported,    \* history: the current request was reported as timed out
          running      \* io_context::run has not thrown

vars == <<timer, sequence, replies, request, age, answered, reported, running>>

Requests == 1..MaxRequests
MaxAge == Lifetime + Timeout
Elapsed == age[request]     \* now() - time_sent_

\* The handler bound to the wait, and whether the wait is over by cancellation
\* or goes on until expiry(), given from time_sent_.
Timer == [handler : {"none", "handle_timeout", "start_send"},
          wait : {"idle", "pending", "queued"},
          expiry : {Interval, Timeout}]

Init ==
    /\ timer = [handler |-> "none", wait |-> "idle", expiry |-> Timeout]
    /\ sequence = 0 /\ replies = 0
    /\ request = 0
    /\ age = [n \in Requests |-> 0]
    /\ answered = 0
    /\ reported = FALSE
    /\ running = TRUE

\* The handler may run: its wait was cancelled, or expiry() has passed.
Fires(handler) ==
    /\ running
    /\ timer.handler = handler
    /\ \/ timer.wait = "queued"
       \/ timer.wait = "pending" /\ Elapsed >= timer.expiry

Send ==
    /\ request < MaxRequests
    /\ sequence' = (sequence + 1) % Modulus
    /\ request' = request + 1
    /\ replies' = 0
    /\ timer' = [handler |-> "handle_timeout", wait |-> "pending", expiry |-> Timeout]
    /\ reported' = FALSE
    /\ UNCHANGED <<age, answered, running>>

\* send_to throws: the exception leaves the constructor or run().
SendThrows ==
    /\ request < MaxRequests
    /\ sequence' = (sequence + 1) % Modulus
    /\ running' = FALSE
    /\ UNCHANGED <<timer, replies, request, age, answered, reported>>

\* The constructor sends the first request.
Construct == running /\ request = 0 /\ (Send \/ SendThrows)

StartSend == Fires("start_send") /\ (Send \/ SendThrows)

\* Mutation: the wait for the next request is not started again.
HandleTimeout_Once ==
    /\ Fires("handle_timeout")
    /\ reported' = (replies = 0)
    /\ timer' = [timer EXCEPT !.wait = "idle"]
    /\ UNCHANGED <<sequence, replies, request, age, answered, running>>

\* Mutation: a wait that was cancelled is reported as well.
HandleTimeout_Always ==
    /\ Fires("handle_timeout")
    /\ reported' = TRUE
    /\ timer' = [handler |-> "start_send", wait |-> "pending", expiry |-> Interval]
    /\ UNCHANGED <<sequence, replies, request, age, answered, running>>

\* The same handler serves a timeout and a reply that has cancelled the wait.
HandleTimeout ==
    /\ Fires("handle_timeout")
    /\ reported' = (replies = 0)
    /\ timer' = [handler |-> "start_send", wait |-> "pending", expiry |-> Interval]
    /\ UNCHANGED <<sequence, replies, request, age, answered, running>>

\* Mutation: the sequence number is not looked at.
Matches_Any(n) == TRUE

\* A reply to request n carries the expected sequence number.
Matches(n) == n % Modulus = sequence

\* Mutation: every reply interrupts the wait.
Interrupt_Always == [timer EXCEPT !.wait = IF @ = "pending" THEN "queued" ELSE @]

\* The first reply interrupts the wait; one that is over by itself stays so.
Interrupt ==
    IF replies > 0 THEN timer
    ELSE [timer EXCEPT !.wait = IF @ = "pending" THEN "queued" ELSE @]

\* A reply to request n arrives; start_receive waits for the next one.
HandleReceive(n) ==
    /\ running
    /\ n <= request
    /\ age[n] < Lifetime
    /\ Matches(n)
    /\ replies < MaxReplies
    /\ timer' = Interrupt
    /\ replies' = replies + 1
    /\ answered' = n
    /\ UNCHANGED <<sequence, request, age, reported, running>>

Tick ==
    /\ running
    /\ age' = [n \in Requests |-> IF n <= request /\ age[n] < MaxAge
                                  THEN age[n] + 1 ELSE age[n]]
    /\ UNCHANGED <<timer, sequence, replies, request, answered, reported, running>>

Next == \/ Construct \/ StartSend \/ HandleTimeout \/ Tick
        \/ \E n \in Requests : HandleReceive(n)

\* The clock advances and the handlers that are ready run; nothing is assumed
\* of the network.
Fairness == /\ WF_vars(Construct) /\ WF_vars(StartSend)
            /\ WF_vars(HandleTimeout) /\ WF_vars(Tick)

Spec == Init /\ [][Next]_vars /\ Fairness

----------------------------------------------------------------------------
(* Properties *)

\* Every variable holds a value of its type.
TypeOK ==
    /\ timer \in Timer
    /\ sequence \in 0..Modulus - 1
    /\ replies \in 0..MaxReplies
    /\ request \in 0..MaxRequests
    /\ age \in [Requests -> 0..MaxAge]
    /\ answered \in 0..MaxRequests
    /\ reported \in BOOLEAN
    /\ running \in BOOLEAN

\* Line 64: requests are sent no less than one second apart, although a reply
\* may cancel the wait for the next request as well as the wait for a reply.
RequestsAreSpaced ==
    [][request' # request /\ request > 0 => Elapsed >= Interval]_vars

\* Lines 90-92: the replies that are counted, and whose elapsed time is
\* printed, are replies to the current request, however late, often or out of
\* order the network delivers the others; a sequence number that has wrapped
\* around matches no older request as long as replies do not live that long.
CountsTheExpectedReply == replies > 0 => answered = request

\* Line 50: "Wait up to five seconds for a reply": a request is reported as
\* timed out only when that time is over and no reply to it has been counted.
ReportsOnlyTimeouts ==
    [][reported' /\ ~reported => Elapsed >= Timeout /\ replies = 0]_vars

\* Whatever the network loses, another request follows, unless send_to throws.
KeepsPinging ==
    \A n \in 1..MaxRequests - 1 : request = n ~> (request > n \/ ~running)

=============================================================================
