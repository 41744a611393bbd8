---------------------------- MODULE PingerProofs ----------------------------
(***************************************************************************)
(* Proofs about Pinger, for any range of sequence numbers and any times:   *)
(* requests stay spaced, only time-outs are reported as such, and, because *)
(* requests are spaced, a sequence number that has come round again        *)
(* matches no reply that is still alive.                                   *)
(***************************************************************************)
EXTENDS Pinger, TLAPS

----------------------------------------------------------------------------
(* Arithmetic *)

LEMMA Times ==
    ASSUME NEW a \in Nat, NEW b \in Nat
    PROVE  (a + 1) * b = a * b + b /\ a * b \in Nat
OBVIOUS

LEMMA TimesMonotone ==
    ASSUME NEW a \in Nat, NEW b \in Nat, NEW c \in Nat, a >= b
    PROVE  a * c >= b * c
OBVIOUS

\* Two numbers with the same remainder are a whole modulus apart.
LEMMA SameRemainder ==
    ASSUME NEW m \in Nat \ {0}, NEW a \in Nat, NEW b \in Nat, a < b, a % m = b % m
    PROVE  b - a >= m
<1> DEFINE qa == a \div m
           qb == b \div m
<1>1. a = m * qa + (a % m) /\ qa \in Int
    OBVIOUS
<1>2. b = m * qb + (b % m) /\ qb \in Int
    OBVIOUS
<1> HIDE DEF qa, qb
<1>3. m * qa < m * qb
    BY <1>1, <1>2
<1>4. qa < qb
    BY <1>1, <1>2, <1>3
<1>5. m * (qa + 1) <= m * qb
    BY <1>1, <1>2, <1>4
<1>6. m * (qa + 1) = m * qa + m
    BY <1>1
<1> QED BY <1>1, <1>2, <1>5, <1>6

----------------------------------------------------------------------------
(* The inductive invariant *)

\* The timer: the wait for a reply is cancelled only by a reply; the wait for
\* the next request only by one that came after the time-out, and so late that
\* the next request is due anyway.
TimerInv ==
    /\ timer.handler = "none" => request = 0
    /\ timer.handler = "handle_timeout" =>
          /\ request > 0
          /\ timer.expiry = Timeout
          /\ timer.wait = "queued" => replies > 0
    /\ timer.handler = "start_send" =>
          /\ request > 0
          /\ timer.expiry = Interval
          /\ replies = 0 \/ timer.wait = "queued" => Elapsed >= Timeout

\* Request n is at least request - n intervals older than the current one.
AgesInv ==
    /\ \A n \in Requests : n > request => age[n] = 0
    /\ \A n \in Requests : n <= request =>
          age[n] = MaxAge \/ age[n] >= age[request] + (request - n) * Interval

SequenceInv == running => sequence = request % Modulus

IInv == TypeOK /\ TimerInv /\ AgesInv /\ SequenceInv /\ CountsTheExpectedReply

LEMMA Numbers ==
    /\ Modulus \in Nat \ {0} /\ Timeout \in Nat \ {0} /\ Interval \in Nat \ {0}
    /\ Lifetime \in Nat \ {0} /\ MaxRequests \in Nat \ {0} /\ MaxReplies \in Nat \ {0}
    /\ Interval < Timeout
    /\ Lifetime <= Modulus * Interval
    /\ MaxAge \in Nat /\ MaxAge = Lifetime + Timeout
BY PingerAssumption DEF MaxAge

LEMMA InitIInv == Init => IInv
<1> SUFFICES ASSUME Init
             PROVE  IInv
    OBVIOUS
<1> USE Numbers
<1>1. timer \in Timer /\ running \in BOOLEAN /\ reported \in BOOLEAN
    BY Zenon DEF Init, Timer
<1>2. 0 % Modulus = 0
    OBVIOUS
<1>3. request = 0 /\ age = [n \in Requests |-> 0] /\ replies = 0 /\ sequence = 0 /\ answered = 0
    BY Zenon DEF Init
<1>4. TypeOK
    BY <1>1, <1>3 DEF TypeOK
<1>5. TimerInv
    BY <1>3, Zenon DEF Init, TimerInv
<1>6. AgesInv
    BY <1>3 DEF AgesInv, Requests
<1>7. SequenceInv /\ CountsTheExpectedReply
    BY <1>2, <1>3 DEF SequenceInv, CountsTheExpectedReply
<1> QED BY <1>4, <1>5, <1>6, <1>7 DEF IInv

----------------------------------------------------------------------------
(* What is known when a handler runs *)

\* A request is sent no sooner than one second after the one before it.
LEMMA SpacedSend ==
    ASSUME IInv, StartSend
    PROVE  request > 0 /\ Elapsed >= Interval
<1> USE Numbers
<1>1. timer.handler = "start_send" /\ (timer.wait = "queued" \/ Elapsed >= timer.expiry)
    BY Zenon DEF StartSend, Fires
<1>2. request > 0 /\ timer.expiry = Interval /\ (timer.wait = "queued" => Elapsed >= Timeout)
    BY <1>1, Zenon DEF IInv, TimerInv
<1>3. request \in Requests
    BY <1>2 DEF IInv, TypeOK, Requests
<1>4. Elapsed \in Nat
    BY <1>3 DEF IInv, TypeOK, Elapsed
<1> QED BY <1>1, <1>2, <1>4

\* An answerless wait for a reply is over because its time is.
LEMMA TimedOut ==
    ASSUME IInv, HandleTimeout
    PROVE  request > 0 /\ (replies = 0 => Elapsed >= Timeout)
<1>1. timer.handler = "handle_timeout" /\ (timer.wait = "queued" \/ Elapsed >= timer.expiry)
    BY Zenon DEF HandleTimeout, Fires
<1>2. request > 0 /\ timer.expiry = Timeout /\ (timer.wait = "queued" => replies > 0)
    BY <1>1, Zenon DEF IInv, TimerInv
<1>3. replies = 0 => ~(replies > 0)
    OBVIOUS
<1> QED BY <1>1, <1>2, <1>3, Zenon

\* Only a reply to the current request is young enough to be counted.
LEMMA ExpectedReply ==
    ASSUME IInv, NEW n \in Requests, HandleReceive(n)
    PROVE  n = request
<1> USE Numbers
<1>1. n \in Nat /\ n > 0 /\ n <= request /\ age[n] < Lifetime /\ request \in Requests
    BY DEF HandleReceive, Requests, IInv, TypeOK
<1>2. n % Modulus = request % Modulus
    BY DEF HandleReceive, Matches, IInv, SequenceInv
<1>3. SUFFICES ASSUME n < request
               PROVE  FALSE
    BY <1>1 DEF Requests
<1>4. request \in Nat /\ age[n] \in Nat /\ age[request] \in Nat
    BY <1>1 DEF IInv, TypeOK, Requests
<1>5. request - n >= Modulus /\ request - n \in Nat
  <2>1. n \in Nat /\ request \in Nat /\ n < request
      BY <1>1, <1>3, <1>4
  <2>2. request - n >= Modulus
      BY <1>2, <2>1, SameRemainder
  <2> QED BY <2>1, <2>2
<1>6. (request - n) * Interval >= Modulus * Interval
    BY <1>5, TimesMonotone
<1>7. age[n] = MaxAge \/ age[n] >= age[request] + (request - n) * Interval
    BY <1>1 DEF IInv, AgesInv
<1>8. (request - n) * Interval \in Nat /\ Modulus * Interval \in Nat
    BY <1>5, Times
<1> DEFINE x == (request - n) * Interval
           y == Modulus * Interval
<1> HIDE DEF x, y
<1>9. /\ x \in Nat /\ y \in Nat /\ x >= y /\ Lifetime <= y
      /\ (age[n] = MaxAge \/ age[n] >= age[request] + x)
    BY <1>6, <1>7, <1>8 DEF x, y
<1> QED BY <1>1, <1>4, <1>9

----------------------------------------------------------------------------
(* Preservation *)

\* Ages grow alike.
LEMMA TickAges ==
    ASSUME IInv, Tick
    PROVE  age' \in [Requests -> 0..MaxAge] /\ AgesInv'
<1> USE Numbers
<1> DEFINE older(n) == IF n <= request /\ age[n] < MaxAge THEN age[n] + 1 ELSE age[n]
<1>1. age' = [n \in Requests |-> older(n)] /\ request' = request
    BY DEF Tick
<1>2. request \in Nat /\ request <= MaxRequests
    BY DEF IInv, TypeOK
<1>3. \A n \in Requests : age[n] \in 0..MaxAge
    BY DEF IInv, TypeOK
<1>4. \A n \in Requests : older(n) \in 0..MaxAge /\ (n > request => age[n] = 0 /\ older(n) = 0)
  <2> SUFFICES ASSUME NEW n \in Requests
               PROVE  older(n) \in 0..MaxAge /\ (n > request => age[n] = 0 /\ older(n) = 0)
      OBVIOUS
  <2>1. n > request => age[n] = 0
      BY DEF IInv, AgesInv
  <2>2. n \in Nat
      BY DEF Requests
  <2> QED BY <1>2, <1>3, <2>1, <2>2
<1>5. \A n \in Requests : n <= request =>
          older(n) = MaxAge \/ older(n) >= older(request) + (request - n) * Interval
  <2> SUFFICES ASSUME NEW n \in Requests, n <= request
               PROVE  older(n) = MaxAge \/ older(n) >= older(request) + (request - n) * Interval
      OBVIOUS
  <2>1. request \in Requests /\ n \in Nat
      BY <1>2 DEF Requests
  <2>2. age[n] = MaxAge \/ age[n] >= age[request] + (request - n) * Interval
      BY DEF IInv, AgesInv
  <2>3. (request - n) * Interval \in Nat
      BY <1>2, <2>1, Times
  <2> DEFINE x == (request - n) * Interval
  <2> HIDE DEF x
  <2>4. x \in Nat /\ (age[n] = MaxAge \/ age[n] >= age[request] + x)
      BY <2>2, <2>3 DEF x
  <2>5. older(n) = MaxAge \/ older(n) >= older(request) + x
      BY <1>2, <1>3, <2>1, <2>4
  <2> QED BY <2>5 DEF x
<1> HIDE DEF older
<1>6. age' \in [Requests -> 0..MaxAge]
    BY <1>1, <1>4
<1>7. \A n \in Requests : age'[n] = older(n)
    BY <1>1
<1>8. request > 0 => request \in Requests
    BY <1>2 DEF Requests
<1>9. AgesInv'
  <2>1. ASSUME NEW n \in Requests, n > request'
        PROVE  age'[n] = 0
      BY <1>1, <1>4, <1>7, <2>1
  <2>2. ASSUME NEW n \in Requests, n <= request'
        PROVE  age'[n] = MaxAge \/ age'[n] >= age'[request'] + (request' - n) * Interval
    <3>1. request \in Requests
        BY <1>1, <1>2, <2>2 DEF Requests
    <3> QED BY <1>1, <1>5, <1>7, <2>2, <3>1
  <2> QED BY <2>1, <2>2 DEF AgesInv
<1> QED BY <1>6, <1>9

\* A new request is the youngest, and makes the others an interval older.
LEMMA SendAges ==
    ASSUME IInv, Send, request > 0 => Elapsed >= Interval
    PROVE  AgesInv'
<1> USE Numbers
<1>1. request' = request + 1 /\ age' = age /\ request < MaxRequests
    BY DEF Send
<1>2. request \in Nat /\ request + 1 \in Requests
    BY <1>1 DEF IInv, TypeOK, Requests
<1>3. \A n \in Requests : age[n] \in 0..MaxAge /\ n \in Nat /\ n > 0
    BY DEF IInv, TypeOK, Requests
<1>4. age[request + 1] = 0
    BY <1>2 DEF IInv, AgesInv
<1>5. ASSUME NEW n \in Requests, n > request'
      PROVE  age'[n] = 0
    BY <1>1, <1>2, <1>3, <1>5 DEF IInv, AgesInv
<1>6. ASSUME NEW n \in Requests, n <= request'
      PROVE  age'[n] = MaxAge \/ age'[n] >= age'[request'] + (request' - n) * Interval
  <2>1. CASE n = request + 1
    <3>1. (request + 1 - n) * Interval = 0
        BY <1>2, <2>1
    <3>2. age'[n] = 0 /\ age'[request'] + (request' - n) * Interval = 0
        BY <1>1, <1>4, <2>1, <3>1
    <3> QED BY <3>2
  <2>2. CASE n <= request
    <3>1. request > 0 /\ request \in Requests
        BY <1>1, <1>2, <1>3, <2>2 DEF Requests
    <3>2. age[n] = MaxAge \/ age[n] >= age[request] + (request - n) * Interval
        BY <2>2 DEF IInv, AgesInv
    <3>3. age[request] >= Interval
        BY <3>1 DEF Elapsed
    <3>4. request - n \in Nat
        BY <1>2, <1>3, <2>2
    <3>5. /\ (request - n + 1) * Interval = (request - n) * Interval + Interval
          /\ (request - n) * Interval \in Nat
        BY <3>4, Times
    <3> DEFINE x == (request - n) * Interval
               y == (request - n + 1) * Interval
    <3>6. x \in Nat /\ y = x + Interval /\ (age[n] = MaxAge \/ age[n] >= age[request] + x)
        BY <3>2, <3>5
    <3> HIDE DEF x, y
    <3>7. age[n] = MaxAge \/ age[n] >= y
        BY <1>3, <3>1, <3>3, <3>6
    <3>8. age[n] = MaxAge \/ age[n] >= 0 + y
        BY <1>3, <3>6, <3>7
    <3>9. (request' - n) * Interval = y
      <4>1. request' - n = request - n + 1
          BY <1>1, <1>2, <1>3
      <4> QED BY <4>1, Zenon DEF y
    <3>10. age'[n] = age[n] /\ age'[request'] = 0
        BY <1>1, <1>4
    <3> QED BY <3>8, <3>9, <3>10
  <2> QED BY <1>1, <1>2, <1>3, <1>6, <2>1, <2>2
<1> QED BY <1>5, <1>6 DEF AgesInv

LEMMA SendIInv ==
    ASSUME IInv, Send, running, request > 0 => Elapsed >= Interval
    PROVE  IInv'
<1> USE Numbers
<1>1. /\ request' = request + 1 /\ request < MaxRequests
      /\ sequence' = (sequence + 1) % Modulus
      /\ replies' = 0
      /\ UNCHANGED <<age, answered, running>>
    BY DEF Send
<1>2. timer' = [handler |-> "handle_timeout", wait |-> "pending", expiry |-> Timeout]
    BY Zenon DEF Send
<1>3. timer' \in Timer /\ reported' \in BOOLEAN
  <2>1. timer' \in Timer
      BY <1>2, Zenon DEF Timer
  <2>2. reported' = FALSE
      BY Zenon DEF Send
  <2> QED BY <2>1, <2>2, Zenon
<1>4. request \in Nat /\ sequence \in Nat
    BY DEF IInv, TypeOK
<1>5. sequence' \in 0..Modulus - 1
    BY <1>1, <1>4
<1>6. TypeOK'
    BY <1>1, <1>3, <1>4, <1>5 DEF IInv, TypeOK
<1>7. TimerInv'
  <2>1. request' > 0
      BY <1>1, <1>4
  <2> QED BY <1>2, <2>1, Zenon DEF TimerInv
<1>8. SequenceInv'
  <2>1. sequence = request % Modulus
      BY DEF IInv, SequenceInv
  <2>2. ((request % Modulus) + 1) % Modulus = (request + 1) % Modulus
    <3> DEFINE q == request \div Modulus
               r == request % Modulus
    <3>1. request = Modulus * q + r /\ q \in Nat /\ r \in 0..Modulus - 1
        BY <1>4
    <3> HIDE DEF q, r
    <3>2. CASE r + 1 < Modulus
      <4>1. (r + 1) % Modulus = r + 1
          BY <3>1, <3>2
      <4>2. request + 1 = Modulus * q + (r + 1)
          BY <1>4, <3>1
      <4>3. (Modulus * q + (r + 1)) % Modulus = r + 1
          BY <3>1, <3>2
      <4> QED BY <4>1, <4>2, <4>3 DEF r
    <3>3. CASE r + 1 = Modulus
      <4>1. (r + 1) % Modulus = 0
          BY <3>3
      <4>2. request + 1 = Modulus * (q + 1)
          BY <1>4, <3>1, <3>3
      <4>3. (Modulus * (q + 1)) % Modulus = 0
          BY <3>1
      <4> QED BY <4>1, <4>2, <4>3 DEF r
    <3> QED BY <3>1, <3>2, <3>3
  <2> QED BY <1>1, <2>1, <2>2 DEF SequenceInv
<1>9. CountsTheExpectedReply'
    BY <1>1 DEF CountsTheExpectedReply
<1> QED BY <1>6, <1>7, SendAges, <1>8, <1>9 DEF IInv

LEMMA SendThrowsIInv ==
    ASSUME IInv, SendThrows, running
    PROVE  IInv'
<1> USE Numbers
<1>1. /\ sequence' = (sequence + 1) % Modulus /\ running' = FALSE
      /\ UNCHANGED <<timer, replies, request, age, answered, reported>>
    BY DEF SendThrows
<1>2. sequence' \in 0..Modulus - 1
    BY <1>1 DEF IInv, TypeOK
<1>3. TypeOK'
    BY <1>1, <1>2, Zenon DEF IInv, TypeOK
<1>4. TimerInv'
    BY <1>1, Zenon DEF IInv, TimerInv, Elapsed
<1>5. AgesInv' /\ CountsTheExpectedReply'
    BY <1>1 DEF IInv, AgesInv, CountsTheExpectedReply
<1>6. SequenceInv'
    BY <1>1, Zenon DEF SequenceInv
<1> QED BY <1>3, <1>4, <1>5, <1>6, Zenon DEF IInv

LEMMA HandleTimeoutIInv ==
    ASSUME IInv, HandleTimeout
    PROVE  IInv'
<1>1. UNCHANGED <<sequence, replies, request, age, answered, running>>
    BY Zenon DEF HandleTimeout
<1>2. timer' = [handler |-> "start_send", wait |-> "pending", expiry |-> Interval]
    BY Zenon DEF HandleTimeout
<1>3. timer' \in Timer
    BY <1>2, Zenon DEF Timer
<1>4. reported' \in BOOLEAN
    BY Zenon DEF HandleTimeout
<1>5. TypeOK'
    BY <1>1, <1>3, <1>4, Zenon DEF IInv, TypeOK
<1>6. TimerInv'
    BY <1>1, <1>2, TimedOut, Zenon DEF TimerInv, Elapsed
<1>7. AgesInv' /\ SequenceInv' /\ CountsTheExpectedReply'
    BY <1>1 DEF IInv, AgesInv, SequenceInv, CountsTheExpectedReply
<1> QED BY <1>5, <1>6, <1>7, Zenon DEF IInv

LEMMA HandleReceiveIInv ==
    ASSUME IInv, NEW n \in Requests, HandleReceive(n)
    PROVE  IInv'
<1> USE Numbers
<1>1. /\ UNCHANGED <<sequence, request, age, reported, running>>
      /\ timer' = Interrupt
      /\ replies' = replies + 1 /\ replies < MaxReplies
      /\ answered' = n
    BY DEF HandleReceive
<1>2. answered' = request /\ request \in Requests
    BY <1>1, ExpectedReply
<1>3. replies \in Nat /\ replies' \in 0..MaxReplies /\ replies' > 0 /\ ~(replies' = 0)
    BY <1>1 DEF IInv, TypeOK
<1>4. answered' \in 0..MaxRequests
    BY <1>2 DEF Requests
<1>5. /\ timer \in Timer /\ timer' \in Timer
      /\ timer'.handler = timer.handler /\ timer'.expiry = timer.expiry
      /\ replies > 0 => timer'.wait = timer.wait
    BY <1>1, Zenon DEF Interrupt, Timer, IInv, TypeOK
<1>6. TypeOK'
    BY <1>1, <1>3, <1>4, <1>5, Zenon DEF IInv, TypeOK
<1>7. replies = 0 \/ replies > 0
    BY <1>3
<1>8. TimerInv'
    BY <1>1, <1>3, <1>5, <1>7, Zenon DEF IInv, TimerInv, Elapsed
<1>9. AgesInv' /\ SequenceInv' /\ CountsTheExpectedReply'
    BY <1>1, <1>2 DEF IInv, AgesInv, SequenceInv, CountsTheExpectedReply
<1> QED BY <1>6, <1>8, <1>9, Zenon DEF IInv

LEMMA TickIInv ==
    ASSUME IInv, Tick
    PROVE  IInv'
<1> USE Numbers
<1>1. UNCHANGED <<timer, sequence, replies, request, answered, reported, running>>
    BY DEF Tick
<1>2. TypeOK'
    BY <1>1, TickAges, Zenon DEF IInv, TypeOK
<1>3. ASSUME request > 0
      PROVE  Elapsed >= Timeout => Elapsed' >= Timeout
  <2>1. request \in Requests
      BY <1>3 DEF IInv, TypeOK, Requests
  <2>2. Elapsed' = age'[request] /\ Elapsed = age[request]
      BY <1>1 DEF Elapsed
  <2>3. age'[request] = IF age[request] < MaxAge THEN age[request] + 1 ELSE age[request]
      BY <2>1 DEF Tick, IInv, TypeOK, Requests
  <2>4. age[request] \in Nat
      BY <2>1 DEF IInv, TypeOK
  <2> QED BY <2>2, <2>3, <2>4
<1>4. TimerInv'
    BY <1>1, <1>3, Zenon DEF IInv, TimerInv
<1>5. SequenceInv' /\ CountsTheExpectedReply'
    BY <1>1 DEF IInv, SequenceInv, CountsTheExpectedReply
<1> QED BY <1>2, <1>4, <1>5, TickAges, Zenon DEF IInv

LEMMA NextIInv == IInv /\ [Next]_vars => IInv'
<1> SUFFICES ASSUME IInv, [Next]_vars
             PROVE  IInv'
    OBVIOUS
<1>1. CASE Construct
  <2>1. running /\ request = 0 /\ (Send \/ SendThrows)
      BY <1>1, Zenon DEF Construct
  <2>2. ~(request > 0)
      BY <2>1
  <2> QED BY <2>1, <2>2, SendIInv, SendThrowsIInv, Zenon
<1>2. CASE StartSend
  <2>1. running /\ (Send \/ SendThrows)
      BY <1>2, Zenon DEF StartSend, Fires
  <2> QED BY <1>2, <2>1, SpacedSend, SendIInv, SendThrowsIInv, Zenon
<1>3. CASE HandleTimeout
    BY <1>3, HandleTimeoutIInv
<1>4. CASE Tick
    BY <1>4, TickIInv
<1>5. CASE \E n \in Requests : HandleReceive(n)
    BY <1>5, HandleReceiveIInv
<1>6. CASE UNCHANGED vars
  <2>1. UNCHANGED <<timer, sequence, replies, request, age, answered, reported, running>>
      BY <1>6, Zenon DEF vars
  <2>2. TypeOK'
      BY <2>1, Zenon DEF IInv, TypeOK
  <2>3. TimerInv'
      BY <2>1, Zenon DEF IInv, TimerInv, Elapsed
  <2>4. AgesInv' /\ SequenceInv' /\ CountsTheExpectedReply'
      BY <2>1 DEF IInv, AgesInv, SequenceInv, CountsTheExpectedReply
  <2> QED BY <2>2, <2>3, <2>4, Zenon DEF IInv
<1> QED BY <1>1, <1>2, <1>3, <1>4, <1>5, <1>6, Zenon DEF Next

THEOREM Invariance == Spec => []IInv
BY InitIInv, NextIInv, PTL DEF Spec

----------------------------------------------------------------------------
(* The theorems *)

\* Every reachable state is well typed, for any numbers and times: the sequence
\* number keeps its 16 bits (line 37).
THEOREM TypeCorrect == Spec => []TypeOK
<1>1. IInv => TypeOK
    BY Zenon DEF IInv
<1> QED BY <1>1, Invariance, PTL

\* However the network delays, repeats and reorders replies, those that are
\* counted are replies to the current request, as long as none lives for as
\* many intervals as there are sequence numbers (lines 90-92).
THEOREM ReplyCorrect == Spec => []CountsTheExpectedReply
<1>1. IInv => CountsTheExpectedReply
    BY Zenon DEF IInv
<1> QED BY <1>1, Invariance, PTL

\* Requests are sent at least one second apart, whichever of the two waits a
\* reply has cancelled (line 64).
THEOREM SpacingCorrect == Spec => RequestsAreSpaced
<1>1. IInv /\ [Next]_vars => [request' # request /\ request > 0 => Elapsed >= Interval]_vars
  <2> SUFFICES ASSUME IInv, Next, request' # request, request > 0
               PROVE  Elapsed >= Interval
      BY Zenon DEF vars
  <2>1. ~Construct
      BY DEF Construct
  <2>2. ~HandleTimeout /\ ~Tick /\ ~ \E n \in Requests : HandleReceive(n)
      BY Zenon DEF HandleTimeout, Tick, HandleReceive
  <2>3. StartSend
      BY <2>1, <2>2, Zenon DEF Next
  <2> QED BY <2>3, SpacedSend, Zenon
<1> QED BY <1>1, Invariance, PTL DEF Spec, RequestsAreSpaced

\* A request is reported as timed out only after the five seconds, and only if
\* no reply to it was counted (line 50).
THEOREM TimeoutCorrect == Spec => ReportsOnlyTimeouts
<1>1. IInv /\ [Next]_vars => [reported' /\ ~reported => Elapsed >= Timeout /\ replies = 0]_vars
  <2> SUFFICES ASSUME IInv, Next, reported', ~reported
               PROVE  Elapsed >= Timeout /\ replies = 0
      BY Zenon DEF vars
  <2>1. ~Send /\ ~SendThrows
      BY Zenon DEF Send, SendThrows
  <2>2. ~Construct /\ ~StartSend
      BY <2>1, Zenon DEF Construct, StartSend
  <2>3. ~Tick /\ ~ \E n \in Requests : HandleReceive(n)
      BY Zenon DEF Tick, HandleReceive
  <2>4. HandleTimeout
      BY <2>2, <2>3, Zenon DEF Next
  <2>5. replies = 0
      BY <2>4, Zenon DEF HandleTimeout
  <2> QED BY <2>4, <2>5, TimedOut, Zenon
<1> QED BY <1>1, Invariance, PTL DEF Spec, ReportsOnlyTimeouts

=============================================================================
