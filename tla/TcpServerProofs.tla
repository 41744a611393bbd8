-------------------------- MODULE TcpServerProofs --------------------------
(***************************************************************************)
(* Proofs about TcpServer, for any number of sessions, messages and ticks. *)
(***************************************************************************)
EXTENDS TcpServer, SequenceTheorems, TLAPS

(* What one session satisfies, whatever the others do and whatever its reader *)
(* does.  The expiry of the condition timer is min() whenever the queue holds *)
(* a line, also while the output actor writes: this is what makes the wait    *)
(* that follows a write complete at once.                                     *)
Core(r) ==
    /\ r \in SessionState
    /\ ~Stopped(r) =>
          /\ \A w \in Timers : r.check[w] # "idle"
          /\ (r.waiter = "idle") # (r.writer = "idle")
          /\ r.outputQueue # <<>> => r.nonEmpty = "min"
          /\ r.writer \in {"pending", "sent"} => r.outputQueue # <<>>
          /\ \A i \in 2..Len(r.outputQueue) : r.outputQueue[i] # Heartbeat

SessionInv(r) ==
    /\ Core(r)
    /\ ~Stopped(r) => r.reader # "idle"
    /\ Stopped(r) => r.writer \in {"idle", "failed"}
    /\ r.sock = "none" => r = Constructed

LEMMA TimeoutFacts == /\ Timeout \in 0..Forever
                      /\ Forever \in 0..Forever
                      /\ Forever \in Nat
                      /\ Timeout # Forever
BY TimeoutAssumption DEF Forever

LEMMA CancelType == \A w \in Wait : Cancel(w) \in Wait /\ Cancel(w) # "pending"
                                    /\ (w # "idle" => Cancel(w) # "idle")
BY DEF Cancel, Wait

LEMMA ConstructedInv == SessionInv(Constructed)
<1>1. <<>> \in Seq(Lines)
  OBVIOUS
<1>2. Constructed \in SessionState
  BY <1>1, TimeoutFacts DEF Constructed, SessionState, Wait
<1> QED
  BY <1>2 DEF SessionInv, Core, Stopped, Constructed

LEMMA StartInv ==
    LET r == Start(Constructed)
    IN  SessionInv(r) /\ r.sock = "open" /\ r.outputQueue = <<>> /\ r.writer = "idle"
<1> DEFINE r0 == [Constructed EXCEPT !.sock = "open"]
           r1 == ReadLine(r0)
           r2 == CheckDeadline(r1, "input")
           r3 == AwaitOutput(r2)
           r4 == CheckDeadline(r3, "output")
<1>1. /\ r0 \in SessionState /\ r0.sock = "open" /\ r0.writer = "idle"
      /\ r0.outputQueue = <<>>
  BY ConstructedInv DEF SessionInv, Core, SessionState, Constructed
<1>2. /\ r1 \in SessionState /\ r1.sock = "open" /\ r1.writer = "idle"
      /\ r1.outputQueue = <<>> /\ r1.reader = "pending"
  <2> HIDE DEF r0
  <2> QED BY <1>1, TimeoutFacts, CancelType DEF ReadLine, SessionState, Timers
<1>3. /\ r2 \in SessionState /\ r2.sock = "open" /\ r2.writer = "idle"
      /\ r2.outputQueue = <<>> /\ r2.reader = "pending" /\ r2.check["input"] = "pending"
  <2> HIDE DEF r1
  <2> QED BY <1>2 DEF CheckDeadline, SessionState, Timers, Wait
<1>4. /\ r3 \in SessionState /\ r3.sock = "open" /\ r3.writer = "idle"
      /\ r3.outputQueue = <<>> /\ r3.reader = "pending" /\ r3.check["input"] = "pending"
      /\ r3.waiter = "pending"
  <2> HIDE DEF r2
  <2> QED BY <1>3 DEF AwaitOutput, SessionState, Timers, Wait
<1>5. /\ r4 \in SessionState /\ r4.sock = "open" /\ r4.writer = "idle"
      /\ r4.outputQueue = <<>> /\ r4.reader = "pending" /\ r4.check["input"] = "pending"
      /\ r4.waiter = "pending" /\ r4.check["output"] = "pending"
  <2> HIDE DEF r3
  <2> QED BY <1>4 DEF CheckDeadline, SessionState, Timers, Wait
<1>6. Start(Constructed) = r4
  BY DEF Start
<1> HIDE DEF r4
<1> QED
  BY <1>5, <1>6 DEF SessionInv, Core, Stopped, Timers

LEMMA ReaderDone ==
  ASSUME NEW r, Core(r), ~Stopped(r)
  PROVE  LET x == [r EXCEPT !.reader = "idle"]
         IN  Core(x) /\ ~Stopped(x) /\ Unsent(x) = Unsent(r)
BY DEF Core, SessionState, Stopped, Unsent

LEMMA ReadLineInv ==
  ASSUME NEW r, Core(r), ~Stopped(r)
  PROVE  LET x == ReadLine(r)
         IN  SessionInv(x) /\ ~Stopped(x) /\ Unsent(x) = Unsent(r)
<1> DEFINE x == ReadLine(r)
<1>1. x \in SessionState
  BY TimeoutFacts, CancelType DEF ReadLine, SessionState, Core, Timers
<1>2. /\ x.sock = r.sock /\ x.reader = "pending" /\ x.writer = r.writer
      /\ x.waiter = r.waiter /\ x.nonEmpty = r.nonEmpty /\ x.outputQueue = r.outputQueue
      /\ \A w \in Timers : x.check[w] \in {r.check[w], Cancel(r.check[w])}
  BY DEF ReadLine, Core, SessionState, Timers
<1> HIDE DEF x
<1>3. SessionInv(x) /\ ~Stopped(x)
  BY <1>1, <1>2, CancelType DEF SessionInv, Core, Stopped, SessionState
<1>4. Unsent(x) = Unsent(r)
  BY <1>2 DEF Unsent
<1> QED
  BY <1>3, <1>4 DEF x

LEMMA EnqueueInv ==
  ASSUME NEW r, Core(r), ~Stopped(r), NEW line \in Messages
  PROVE  LET x == Enqueue(r, line)
         IN  /\ Core(x) /\ ~Stopped(x) /\ x.reader = r.reader
             /\ Unsent(x) = Append(Unsent(r), line)
<1> DEFINE x == Enqueue(r, line)
           q == r.outputQueue
<1>1. q \in Seq(Lines) /\ line \in Lines /\ line # Heartbeat
  BY LinesAssumption DEF Core, SessionState, Lines
<1>2. /\ x.sock = r.sock /\ x.reader = r.reader /\ x.writer = r.writer
      /\ x.waiter = Cancel(r.waiter) /\ x.nonEmpty = "min" /\ x.outputQueue = Append(q, line)
      /\ x.check = r.check
  BY DEF Enqueue, Core, SessionState
<1>3. Append(q, line) \in Seq(Lines)
  BY <1>1
<1>4. x \in SessionState
  BY <1>3, CancelType DEF Enqueue, Core, SessionState
<1> HIDE DEF x
<1>5. \A i \in 2..Len(Append(q, line)) : Append(q, line)[i] # Heartbeat
  BY <1>1 DEF Core
<1>6. Append(q, line) # <<>>
  BY <1>1
<1>7. Core(x) /\ ~Stopped(x)
  <2>1. Cancel(r.waiter) = "idle" <=> r.waiter = "idle"
    BY DEF Cancel
  <2> QED
    BY <1>2, <1>4, <1>5, <1>6, <2>1 DEF Core, Stopped
<1>8. Unsent(x) = Append(Unsent(r), line)
  <2>1. CASE q = <<>>
    <3>1. r.writer # "sent"
      BY <2>1 DEF Core
    <3>2. Head(Append(q, line)) # Heartbeat
      BY <1>1, <2>1
    <3> QED BY <2>1, <3>1, <3>2, <1>2, <1>6 DEF Unsent
  <2>2. CASE q # <<>>
    <3>1. Head(Append(q, line)) = Head(q) /\ Tail(Append(q, line)) = Append(Tail(q), line)
      BY <1>1, <2>2
    <3> QED BY <3>1, <2>2, <1>2, <1>6 DEF Unsent
  <2> QED BY <2>1, <2>2
<1> QED
  BY <1>2, <1>7, <1>8 DEF x

LEMMA AnswerInv ==
  ASSUME NEW r, Core(r), ~Stopped(r)
  PROVE  LET x == Answer(r)
         IN  Core(x) /\ ~Stopped(x) /\ Unsent(x) = Unsent(r)
<1>1. CASE r.outputQueue # <<>>
  BY <1>1 DEF Answer
<1>2. CASE r.outputQueue = <<>>
  <2> DEFINE x == Enqueue(r, Heartbeat)
  <2>1. /\ x.sock = r.sock /\ x.writer = r.writer /\ x.waiter = Cancel(r.waiter)
        /\ x.nonEmpty = "min" /\ x.outputQueue = <<Heartbeat>> /\ x.check = r.check
    BY <1>2 DEF Enqueue, Core, SessionState
  <2>2. <<Heartbeat>> \in Seq(Lines)
    BY DEF Lines
  <2>3. x \in SessionState
    <3>1. Append(r.outputQueue, Heartbeat) \in Seq(Lines)
      BY <1>2, <2>2
    <3> QED BY <3>1, CancelType DEF Enqueue, Core, SessionState
  <2> HIDE DEF x
  <2>4. Core(x) /\ ~Stopped(x)
    <3>1. Cancel(r.waiter) = "idle" <=> r.waiter = "idle"
      BY DEF Cancel
    <3>2. <<Heartbeat>> # <<>> /\ Len(<<Heartbeat>>) = 1
      OBVIOUS
    <3> QED BY <2>1, <2>3, <3>1, <3>2 DEF Core, Stopped
  <2>5. Unsent(x) = <<>>
    BY <2>1 DEF Unsent
  <2>6. Unsent(r) = <<>>
    BY <1>2 DEF Unsent
  <2> QED BY <1>2, <2>4, <2>5, <2>6 DEF Answer, x
<1> QED
  BY <1>1, <1>2

LEMMA SleepInv ==
  ASSUME NEW r, SessionInv(r), ~Stopped(r), r.waiter # "idle", r.outputQueue = <<>>
  PROVE  LET x == AwaitOutput([[r EXCEPT !.waiter = "idle"] EXCEPT !.nonEmpty = "max"])
         IN  SessionInv(x) /\ ~Stopped(x) /\ Unsent(x) = Unsent(r)
<1> DEFINE x == AwaitOutput([[r EXCEPT !.waiter = "idle"] EXCEPT !.nonEmpty = "max"])
<1>1. x \in SessionState
  BY DEF AwaitOutput, SessionInv, Core, SessionState, Wait
<1>2. /\ x.sock = r.sock /\ x.reader = r.reader /\ x.writer = r.writer /\ x.check = r.check
      /\ x.waiter = "pending" /\ x.outputQueue = r.outputQueue
  BY DEF AwaitOutput, SessionInv, Core, SessionState
<1> HIDE DEF x
<1>3. SessionInv(x) /\ ~Stopped(x)
  BY <1>1, <1>2 DEF SessionInv, Core, Stopped
<1>4. Unsent(x) = Unsent(r)
  BY <1>2 DEF Unsent
<1> QED
  BY <1>3, <1>4 DEF x

LEMMA WriteLineInv ==
  ASSUME NEW r, SessionInv(r), ~Stopped(r), r.waiter # "idle", r.outputQueue # <<>>
  PROVE  LET x == WriteLine([r EXCEPT !.waiter = "idle"])
         IN  SessionInv(x) /\ ~Stopped(x) /\ Unsent(x) = Unsent(r)
<1> DEFINE x == WriteLine([r EXCEPT !.waiter = "idle"])
<1>1. x \in SessionState
  BY TimeoutFacts, CancelType DEF WriteLine, SessionInv, Core, SessionState, Wait, Timers
<1>2. /\ x.sock = r.sock /\ x.reader = r.reader /\ x.writer = "pending" /\ x.waiter = "idle"
      /\ x.outputQueue = r.outputQueue /\ x.nonEmpty = r.nonEmpty
      /\ \A w \in Timers : x.check[w] \in {r.check[w], Cancel(r.check[w])}
  BY DEF WriteLine, SessionInv, Core, SessionState, Timers
<1> HIDE DEF x
<1>3. \A w \in Timers : x.check[w] # "idle"
  BY <1>2 DEF SessionInv, Core, Cancel
<1>4. SessionInv(x) /\ ~Stopped(x)
  BY <1>1, <1>2, <1>3 DEF SessionInv, Core, Stopped
<1>5. Unsent(x) = Unsent(r)
  <2>1. r.writer = "idle"
    BY DEF SessionInv, Core
  <2> QED BY <1>2, <2>1 DEF Unsent
<1> QED
  BY <1>4, <1>5 DEF x

LEMMA PopFrontInv ==
  ASSUME NEW r, SessionInv(r), ~Stopped(r), r.writer = "sent"
  PROVE  LET x == AwaitOutput([[r EXCEPT !.writer = "idle"]
                                 EXCEPT !.outputQueue = Tail(r.outputQueue)])
         IN  SessionInv(x) /\ ~Stopped(x) /\ Unsent(x) = Unsent(r)
<1> DEFINE q == r.outputQueue
           x == AwaitOutput([[r EXCEPT !.writer = "idle"] EXCEPT !.outputQueue = Tail(q)])
<1>1. q \in Seq(Lines) /\ q # <<>>
  BY DEF SessionInv, Core, SessionState
<1>2. /\ Tail(q) \in Seq(Lines) /\ Len(Tail(q)) = Len(q) - 1
      /\ \A i \in 1..Len(Tail(q)) : Tail(q)[i] = q[i + 1]
  BY <1>1, HeadTailProperties
<1>3. x \in SessionState
  BY <1>2 DEF AwaitOutput, SessionInv, Core, SessionState, Wait
<1>4. /\ x.sock = r.sock /\ x.reader = r.reader /\ x.writer = "idle" /\ x.waiter = "pending"
      /\ x.check = r.check /\ x.nonEmpty = r.nonEmpty /\ x.outputQueue = Tail(q)
  BY DEF AwaitOutput, SessionInv, Core, SessionState
<1> HIDE DEF x
<1>5. \A i \in 1..Len(Tail(q)) : Tail(q)[i] # Heartbeat
  <2> SUFFICES ASSUME NEW i \in 1..Len(Tail(q)) PROVE Tail(q)[i] # Heartbeat
    OBVIOUS
  <2>1. i + 1 \in 2..Len(q)
    BY <1>1, <1>2
  <2> QED BY <1>2, <2>1 DEF SessionInv, Core
<1>6. SessionInv(x) /\ ~Stopped(x)
  <2>1. r.nonEmpty = "min"
    BY <1>1 DEF SessionInv, Core
  <2>2. \A i \in 2..Len(Tail(q)) : Tail(q)[i] # Heartbeat
    BY <1>2, <1>5
  <2> QED BY <1>3, <1>4, <2>1, <2>2 DEF SessionInv, Core, Stopped
<1>7. Unsent(x) = Tail(q)
  <2>1. Tail(q) # <<>> => Head(Tail(q)) # Heartbeat
    BY <1>2, <1>5
  <2> QED BY <1>4, <2>1 DEF Unsent
<1> QED
  BY <1>1, <1>6, <1>7 DEF x, Unsent

LEMMA CheckAgainInv ==
  ASSUME NEW r, SessionInv(r), ~Stopped(r), NEW w \in Timers
  PROVE  LET x == CheckDeadline([r EXCEPT !.check[w] = "idle"], w)
         IN  SessionInv(x) /\ ~Stopped(x) /\ Unsent(x) = Unsent(r)
<1> DEFINE x == CheckDeadline([r EXCEPT !.check[w] = "idle"], w)
<1>1. x \in SessionState
  BY DEF CheckDeadline, SessionInv, Core, SessionState, Wait, Timers
<1>2. /\ x.sock = r.sock /\ x.reader = r.reader /\ x.writer = r.writer /\ x.waiter = r.waiter
      /\ x.outputQueue = r.outputQueue /\ x.nonEmpty = r.nonEmpty
      /\ \A v \in Timers : x.check[v] \in {r.check[v], "pending"}
  BY DEF CheckDeadline, SessionInv, Core, SessionState, Timers
<1> HIDE DEF x
<1>3. SessionInv(x) /\ ~Stopped(x)
  BY <1>1, <1>2 DEF SessionInv, Core, Stopped
<1>4. Unsent(x) = Unsent(r)
  BY <1>2 DEF Unsent
<1> QED
  BY <1>3, <1>4 DEF x

LEMMA RemainsInv ==
  ASSUME NEW r \in SessionState
  PROVE  SessionInv(Remains(r)) /\ Remains(r).sock = "closed"
<1> DEFINE x == Remains(r)
<1>1. Constructed \in SessionState
  BY ConstructedInv DEF SessionInv, Core
<1>2. x \in SessionState /\ x.sock = "closed"
  BY <1>1 DEF Remains, SessionState
<1>3. x.writer \in {"idle", "failed"}
  BY <1>1 DEF Remains, SessionState
<1> HIDE DEF x
<1> QED
  BY <1>2, <1>3 DEF SessionInv, Core, Stopped, x

LEMMA StopType ==
  ASSUME NEW r \in SessionState
  PROVE  Stop(r) \in SessionState /\ Stopped(Stop(r))
BY CancelType DEF Stop, Abort, SessionState, Stopped, Timers

LEMMA CountdownInv ==
  ASSUME NEW r, SessionInv(r)
  PROVE  LET x == Countdown(r)
         IN  /\ SessionInv(x) /\ x.sock = r.sock /\ Unsent(x) = Unsent(r)
<1>1. CASE Stopped(r)
  BY <1>1 DEF Countdown
<1>2. CASE ~Stopped(r)
  <2> DEFINE d == [w \in Timers |-> IF r.deadline[w] \in {0, Forever} THEN r.deadline[w]
                                    ELSE r.deadline[w] - 1]
             x == [r EXCEPT !.deadline = d]
  <2>1. d \in [Timers -> 0..Forever]
    BY TimeoutFacts DEF SessionInv, Core, SessionState
  <2> HIDE DEF d
  <2>2. x \in SessionState
    BY <2>1 DEF SessionInv, Core, SessionState
  <2>3. /\ x.sock = r.sock /\ x.reader = r.reader /\ x.writer = r.writer
        /\ x.waiter = r.waiter /\ x.outputQueue = r.outputQueue
        /\ x.nonEmpty = r.nonEmpty /\ x.check = r.check
    BY DEF SessionInv, Core, SessionState
  <2> HIDE DEF x
  <2>4. SessionInv(x)
    BY <1>2, <2>2, <2>3 DEF SessionInv, Core, Stopped
  <2>5. Unsent(x) = Unsent(r)
    BY <2>3 DEF Unsent
  <2>6. Countdown(r) = x
    BY <1>2 DEF Countdown, d, x
  <2> QED BY <2>3, <2>4, <2>5, <2>6
<1> QED
  BY <1>1, <1>2

----------------------------------------------------------------------------
(* The inductive invariant of the server.  NothingLost is not inductive by  *)
(* itself: that a write pops the line it has sent needs the facts of Core   *)
(* on the front of the queue, and that a new message reaches every open     *)
(* session needs SubscribersAreOpen.                                        *)
IInv ==
    /\ TypeOK
    /\ \A s \in Sessions : SessionInv(session[s])
    /\ SubscribersAreOpen
    /\ \A s \in Sessions : from[s] <= Len(log)
    /\ \A s \in Sessions : session[s].sock = "none" => received[s] = <<>>
    /\ NothingLost

LEMMA InSeq ==
  ASSUME NEW S, NEW T, NEW q \in Seq(S), \A i \in 1..Len(q) : q[i] \in T
  PROVE  q \in Seq(T)
<1>1. q = [i \in 1..Len(q) |-> q[i]] /\ Len(q) \in Nat
  OBVIOUS
<1>2. [i \in 1..Len(q) |-> q[i]] \in Seq(T)
  BY <1>1, IsASeq
<1> QED
  BY <1>1, <1>2

LEMMA UnsentType ==
  ASSUME NEW r, SessionInv(r), ~Stopped(r)
  PROVE  Unsent(r) \in Seq(Messages)
<1> DEFINE q == r.outputQueue
<1>1. q \in Seq(Lines) /\ \A i \in 2..Len(q) : q[i] # Heartbeat
  BY DEF SessionInv, Core, SessionState
<1>2. CASE q = <<>>
  BY <1>2 DEF Unsent
<1>3. CASE q # <<>>
  <2>1. /\ Tail(q) \in Seq(Lines) /\ Len(Tail(q)) = Len(q) - 1
        /\ \A i \in 1..Len(Tail(q)) : Tail(q)[i] = q[i + 1]
    BY <1>1, <1>3, HeadTailProperties
  <2>2. \A i \in 1..Len(Tail(q)) : Tail(q)[i] \in Messages
    <3> SUFFICES ASSUME NEW i \in 1..Len(Tail(q)) PROVE Tail(q)[i] \in Messages
      OBVIOUS
    <3>1. i + 1 \in 2..Len(q)
      BY <1>1, <2>1
    <3>2. q[i + 1] \in Lines /\ q[i + 1] # Heartbeat
      BY <1>1, <3>1
    <3> QED BY <2>1, <3>2 DEF Lines
  <2>3. Tail(q) \in Seq(Messages)
    BY <2>1, <2>2, InSeq
  <2>4. Head(q) # Heartbeat => q \in Seq(Messages)
    <3> SUFFICES ASSUME Head(q) # Heartbeat PROVE q \in Seq(Messages)
      OBVIOUS
    <3>1. \A i \in 1..Len(q) : q[i] \in Lines /\ q[i] # Heartbeat
      BY <1>1, <1>3
    <3>2. \A i \in 1..Len(q) : q[i] \in Messages
      BY <3>1 DEF Lines
    <3> QED BY <1>1, <3>2, InSeq
  <2> QED BY <1>3, <2>3, <2>4 DEF Unsent
<1> QED
  BY <1>2, <1>3

(* A step that replaces one session, keeps its socket, and leaves the log, *)
(* the channel and the histories as they are.                              *)
LEMMA KeepsSocket ==
  ASSUME IInv, NEW s \in Sessions, NEW x,
         session' = [session EXCEPT ![s] = x],
         SessionInv(x), x.sock = session[s].sock,
         ~Stopped(x) => Unsent(x) = Unsent(session[s]),
         UNCHANGED <<subscribers, log, from, received>>
  PROVE  IInv'
<1>1. x \in SessionState
  BY DEF SessionInv, Core
<1>2. TypeOK'
  BY <1>1 DEF IInv, TypeOK
<1>3. \A t \in Sessions : /\ SessionInv(session'[t])
                          /\ session'[t].sock = session[t].sock
                          /\ ~Stopped(session'[t]) => Unsent(session'[t]) = Unsent(session[t])
  BY DEF IInv, TypeOK
<1>4. \A t \in Sessions : Stopped(session'[t]) <=> Stopped(session[t])
  BY <1>3 DEF Stopped
<1>5. SubscribersAreOpen'
  BY <1>4 DEF IInv, SubscribersAreOpen, Open
<1>6. NothingLost'
  BY <1>3, <1>4 DEF IInv, NothingLost, Open
<1> QED
  BY <1>2, <1>3, <1>5, <1>6 DEF IInv

(* A handler that stops its session. *)
LEMMA StopSessionInv ==
  ASSUME IInv, NEW s \in Sessions, NEW r \in SessionState, StopSession(s, r),
         UNCHANGED <<log, from, received>>
  PROVE  IInv'
<1> DEFINE x == Remains(Stop(r))
<1>1. SessionInv(x) /\ x.sock = "closed"
  BY StopType, RemainsInv
<1>2. session' = [session EXCEPT ![s] = x] /\ subscribers' = subscribers \ {s}
  BY StopType DEF StopSession, Set
<1> HIDE DEF x
<1>3. TypeOK'
  BY <1>1, <1>2 DEF IInv, TypeOK, SessionInv, Core
<1>4. \A t \in Sessions : /\ SessionInv(session'[t])
                          /\ t # s => session'[t] = session[t]
                          /\ t = s => session'[t].sock = "closed"
  BY <1>1, <1>2 DEF IInv, TypeOK
<1>5. SubscribersAreOpen'
  BY <1>2, <1>4, BroadcasterAssumption DEF IInv, SubscribersAreOpen, Open, Stopped
<1>6. NothingLost'
  BY <1>4 DEF IInv, NothingLost, Open, Stopped
<1>7. \A t \in Sessions : session'[t].sock = "none" => received'[t] = <<>>
  BY <1>4 DEF IInv
<1> QED
  BY <1>3, <1>4, <1>5, <1>6, <1>7 DEF IInv

(* A handler that finds its session stopped. *)
LEMMA ReturnInv ==
  ASSUME IInv, NEW s \in Sessions, NEW r \in SessionState, Return(s, r),
         session[s].sock = "closed",
         UNCHANGED <<log, from, received>>
  PROVE  IInv'
<1>1. SessionInv(Remains(r)) /\ Remains(r).sock = "closed"
  BY RemainsInv
<1>2. session' = [session EXCEPT ![s] = Remains(r)] /\ UNCHANGED subscribers
  BY DEF Return, Set
<1>3. Stopped(Remains(r))
  BY <1>1 DEF Stopped
<1> QED
  BY <1>1, <1>2, <1>3, KeepsSocket

LEMMA ContinueInv ==
  ASSUME IInv, NEW s \in Sessions, NEW x, Continue(s, x), SessionInv(x), ~Stopped(session[s]),
         Unsent(x) = Unsent(session[s]),
         UNCHANGED <<log, from, received>>
  PROVE  IInv'
<1>1. session' = [session EXCEPT ![s] = x] /\ UNCHANGED subscribers /\ ~Stopped(x)
  BY DEF Continue, Set
<1>2. x.sock = session[s].sock
  BY <1>1 DEF Stopped
<1> QED
  BY <1>1, <1>2, KeepsSocket

(* Only a session that was started has an operation outstanding. *)
LEMMA StartedWhenBusy ==
  ASSUME IInv, NEW s \in Sessions, Stopped(session[s]),
         \/ session[s].reader # "idle"
         \/ session[s].writer # "idle"
         \/ session[s].waiter # "idle"
         \/ \E w \in Timers : session[s].check[w] # "idle"
  PROVE  session[s].sock = "closed"
BY DEF IInv, TypeOK, SessionInv, SessionState, Constructed, Stopped

----------------------------------------------------------------------------
(* Sequences *)

LEMMA ConcatAppend ==
  ASSUME NEW S, NEW x \in Seq(S), NEW y \in Seq(S), NEW e \in S
  PROVE  x \o Append(y, e) = Append(x \o y, e)
OBVIOUS

LEMMA SubSeqAppend ==
  ASSUME NEW S, NEW l \in Seq(S), NEW e \in S, NEW k \in Nat, k <= Len(l)
  PROVE  SubSeq(Append(l, e), k + 1, Len(l) + 1) = Append(SubSeq(l, k + 1, Len(l)), e)
<1> DEFINE n == Len(l)
           long == Append(l, e)
           left == SubSeq(long, k + 1, n + 1)
           right == Append(SubSeq(l, k + 1, n), e)
<1>1. /\ n \in Nat /\ long \in Seq(S) /\ Len(long) = n + 1
      /\ \A i \in 1..n : long[i] = l[i]
      /\ long[n + 1] = e
  BY AppendProperties
<1>2. /\ \A i \in (k + 1)..n : l[i] \in S
      /\ \A i \in (k + 1)..(n + 1) : long[i] \in S
  BY <1>1
<1> HIDE DEF long, n
<1>3. /\ left \in Seq(S) /\ Len(left) = n - k + 1
      /\ \A i \in 1..(n - k + 1) : left[i] = long[k + i]
  BY <1>1, <1>2, SubSeqProperties DEF n
<1>4. /\ SubSeq(l, k + 1, n) \in Seq(S) /\ Len(SubSeq(l, k + 1, n)) = n - k
      /\ \A i \in 1..(n - k) : SubSeq(l, k + 1, n)[i] = l[k + i]
  BY <1>1, <1>2, SubSeqProperties DEF n
<1> DEFINE part == SubSeq(l, k + 1, n)
<1> HIDE DEF left, part
<1>5. /\ right \in Seq(S) /\ Len(right) = n - k + 1
      /\ \A i \in 1..(n - k) : right[i] = l[k + i]
      /\ right[n - k + 1] = e
  <2>1. /\ right \in Seq(S) /\ Len(right) = Len(part) + 1
        /\ \A i \in 1..Len(part) : right[i] = part[i]
        /\ right[Len(part) + 1] = e
    BY <1>4, AppendProperties DEF part
  <2> QED BY <1>4, <2>1 DEF part
<1> HIDE DEF right
<1>6. \A i \in 1..(n - k + 1) : left[i] = right[i]
  <2> SUFFICES ASSUME NEW i \in 1..(n - k + 1) PROVE left[i] = right[i]
    OBVIOUS
  <2>1. CASE i = n - k + 1
    BY <1>1, <1>3, <1>5, <2>1
  <2>2. CASE i # n - k + 1
    <3>1. i \in 1..(n - k) /\ k + i \in 1..n
      BY <1>1, <2>2
    <3> QED BY <1>1, <1>3, <1>5, <3>1
  <2> QED BY <2>1, <2>2
<1> QED
  BY <1>3, <1>5, <1>6, SeqEqual DEF left, right, part, long, n

LEMMA MoveHead ==
  ASSUME NEW S, NEW x \in Seq(S), NEW q \in Seq(S), q # <<>>
  PROVE  Append(x, Head(q)) \o Tail(q) = x \o q
OBVIOUS

LEMMA NextOfConcat ==
  ASSUME NEW S, NEW x \in Seq(S), NEW q \in Seq(S), q # <<>>
  PROVE  /\ Len(x \o q) = Len(x) + Len(q)
         /\ (x \o q)[Len(x) + 1] = Head(q)
         /\ Len(x) \in Nat /\ Len(q) \in Nat /\ Len(q) > 0
OBVIOUS

LEMMA EmptyPrefix ==
  ASSUME NEW S, NEW l \in Seq(S)
  PROVE  <<>> \o <<>> = SubSeq(l, Len(l) + 1, Len(l))
OBVIOUS

----------------------------------------------------------------------------
(* One lemma per action *)

LEMMA AcceptInv ==
  ASSUME IInv, NEW s \in Sessions, Accept(s)
  PROVE  IInv'
<1> DEFINE x == Start(Constructed)
<1>1. session[s] = Constructed
  BY DEF Accept, IInv, SessionInv
<1>2. /\ SessionInv(x) /\ x.sock = "open" /\ x.outputQueue = <<>> /\ x.writer = "idle"
      /\ x \in SessionState
  BY StartInv DEF SessionInv, Core
<1> HIDE DEF x
<1>3. session' = [session EXCEPT ![s] = x]
  BY <1>1, <1>2 DEF Accept, Set, Stopped, x
<1>4. Unsent(x) = <<>>
  BY <1>2 DEF Unsent
<1>5. Len(log) \in Nat
  BY DEF IInv, TypeOK
<1>6. TypeOK'
  BY <1>2, <1>3, <1>5 DEF IInv, TypeOK, Accept
<1>7. \A t \in Sessions : /\ SessionInv(session'[t])
                          /\ t # s => session'[t] = session[t] /\ from'[t] = from[t]
                          /\ t = s => session'[t] = x /\ from'[t] = Len(log)
  BY <1>2, <1>3 DEF IInv, TypeOK, Accept
<1>8. SubscribersAreOpen'
  BY <1>2, <1>7 DEF IInv, SubscribersAreOpen, Open, Stopped, Accept
<1>9. NothingLost'
  <2> SUFFICES ASSUME NEW t \in Sessions, Open(t)'
               PROVE  received'[t] \o Unsent(session'[t]) = SubSeq(log', from'[t] + 1, Len(log'))
    BY DEF NothingLost
  <2>1. CASE t = s
    <3>1. received[s] = <<>>
      BY DEF Accept, IInv
    <3>2. log \in Seq(Messages)
      BY DEF IInv, TypeOK
    <3> QED BY <1>4, <1>7, <2>1, <3>1, <3>2, EmptyPrefix DEF Accept
  <2>2. CASE t # s
    BY <1>7, <2>2 DEF NothingLost, IInv, Open, Accept
  <2> QED BY <2>1, <2>2
<1>10. \A t \in Sessions : from'[t] <= Len(log')
  BY <1>5, <1>7 DEF IInv, Accept
<1>11. \A t \in Sessions : session'[t].sock = "none" => received'[t] = <<>>
  BY <1>2, <1>7 DEF IInv, Accept
<1> QED
  BY <1>6, <1>7, <1>8, <1>9, <1>10, <1>11 DEF IInv

LEMMA DeliverInv ==
  ASSUME IInv, NEW s \in Sessions, NEW msg \in Messages, session[s].reader = msg,
         Deliver(s, [session[s] EXCEPT !.reader = "idle"], msg),
         UNCHANGED <<from, received>>
  PROVE  IInv'
<1> DEFINE r == [session[s] EXCEPT !.reader = "idle"]
           mine == ReadLine(Enqueue(r, msg))
           hears(t) == Enqueue(session[t], msg)
<1>1. ~Stopped(session[s]) /\ ~Stopped(r) /\ Core(r) /\ Unsent(r) = Unsent(session[s])
  <2>1. ~Stopped(session[s])
    BY DEF Deliver, Stopped, IInv, TypeOK, SessionState
  <2> QED BY <2>1, ReaderDone DEF IInv, SessionInv
<1>2. \A t \in Sessions : t \in subscribers <=> ~Stopped(session[t])
  BY BroadcasterAssumption DEF IInv, SubscribersAreOpen, Open
<1>3. /\ SessionInv(mine) /\ ~Stopped(mine)
      /\ Unsent(mine) = Append(Unsent(session[s]), msg)
  <2>1. /\ Core(Enqueue(r, msg)) /\ ~Stopped(Enqueue(r, msg))
        /\ Unsent(Enqueue(r, msg)) = Append(Unsent(r), msg)
    BY <1>1, EnqueueInv
  <2> QED BY <1>1, <2>1, ReadLineInv
<1>4. ASSUME NEW t \in Sessions, ~Stopped(session[t])
      PROVE  /\ SessionInv(hears(t)) /\ ~Stopped(hears(t))
             /\ Unsent(hears(t)) = Append(Unsent(session[t]), msg)
  <2>1. Core(session[t]) /\ session[t].reader # "idle" /\ session[t].sock = "open"
    BY <1>4 DEF IInv, SessionInv, Stopped
  <2>2. /\ Core(hears(t)) /\ ~Stopped(hears(t)) /\ hears(t).reader = session[t].reader
        /\ Unsent(hears(t)) = Append(Unsent(session[t]), msg)
    BY <1>4, <2>1, EnqueueInv
  <2> QED BY <2>1, <2>2 DEF SessionInv, Stopped
<1>5. session' = [t \in Sessions |-> IF t = s THEN mine
                                     ELSE IF Stopped(session[t]) THEN session[t] ELSE hears(t)]
  <2>1. s \in subscribers
    BY <1>1, <1>2
  <2> DEFINE base == [session EXCEPT ![s] = r]
             heard == [t \in Sessions |-> IF t \in subscribers
                                            THEN Enqueue(base[t], msg) ELSE base[t]]
  <2>2. session' = [heard EXCEPT ![s] = ReadLine(heard[s])]
    BY DEF Deliver
  <2>3. \A t \in Sessions : base[t] = IF t = s THEN r ELSE session[t]
    BY DEF IInv, TypeOK
  <2> HIDE DEF base
  <2>4. heard[s] = Enqueue(r, msg)
    BY <2>1, <2>3
  <2>5. \A t \in Sessions : t # s => heard[t] = IF Stopped(session[t]) THEN session[t] ELSE hears(t)
    BY <1>2, <2>3
  <2> HIDE DEF heard, r, hears
  <2>6. session' = [t \in Sessions |-> IF t = s THEN ReadLine(heard[s]) ELSE heard[t]]
    BY <2>2 DEF heard
  <2> QED BY <2>4, <2>5, <2>6
<1> HIDE DEF r, mine, hears
<1>6. \A t \in Sessions :
        /\ SessionInv(session'[t])
        /\ Stopped(session'[t]) <=> Stopped(session[t])
        /\ Stopped(session[t]) => session'[t].sock = session[t].sock
        /\ ~Stopped(session[t]) => Unsent(session'[t]) = Append(Unsent(session[t]), msg)
  BY <1>1, <1>3, <1>4, <1>5 DEF IInv
<1>7. log \in Seq(Messages) /\ log' = Append(log, msg) /\ Len(log') = Len(log) + 1
      /\ log' \in Seq(Messages) /\ UNCHANGED <<subscribers, from, received>>
      /\ Len(log) \in Nat
  BY DEF IInv, TypeOK, Deliver
<1>8. TypeOK'
  <2>1. session' \in [Sessions -> SessionState]
    BY <1>5, <1>6 DEF SessionInv, Core
  <2> QED BY <1>7, <2>1 DEF IInv, TypeOK
<1>9. SubscribersAreOpen'
  BY <1>6, <1>7 DEF IInv, SubscribersAreOpen, Open
<1>10. \A t \in Sessions : from'[t] <= Len(log')
  BY <1>7 DEF IInv, TypeOK
<1>11. \A t \in Sessions : session'[t].sock = "none" => received'[t] = <<>>
  BY <1>6, <1>7 DEF IInv, Stopped
<1>12. NothingLost'
  <2> SUFFICES ASSUME NEW t \in Sessions, ~Stopped(session'[t])
               PROVE  received[t] \o Unsent(session'[t])
                        = SubSeq(log', from[t] + 1, Len(log'))
    BY <1>7 DEF NothingLost, Open
  <2>1. /\ ~Stopped(session[t]) /\ Unsent(session'[t]) = Append(Unsent(session[t]), msg)
        /\ received[t] \o Unsent(session[t]) = SubSeq(log, from[t] + 1, Len(log))
    BY <1>6 DEF IInv, NothingLost, Open
  <2>2. /\ Unsent(session[t]) \in Seq(Messages) /\ received[t] \in Seq(Messages)
        /\ from[t] \in Nat /\ from[t] <= Len(log)
    BY <2>1, UnsentType DEF IInv, TypeOK
  <2>3. received[t] \o Append(Unsent(session[t]), msg)
          = Append(SubSeq(log, from[t] + 1, Len(log)), msg)
    <3>1. received[t] \o Append(Unsent(session[t]), msg)
            = Append(received[t] \o Unsent(session[t]), msg)
      <4> DEFINE a == received[t]
                 b == Unsent(session[t])
      <4>1. a \in Seq(Messages) /\ b \in Seq(Messages) /\ msg \in Messages
        BY <2>2
      <4> HIDE DEF a, b
      <4>2. a \o Append(b, msg) = Append(a \o b, msg)
        BY <4>1, ConcatAppend
      <4> QED BY <4>2 DEF a, b
    <3> QED BY <2>1, <3>1
  <2>4. SubSeq(log', from[t] + 1, Len(log) + 1) = Append(SubSeq(log, from[t] + 1, Len(log)), msg)
    BY <1>7, <2>2, SubSeqAppend
  <2> QED BY <1>7, <2>1, <2>3, <2>4
<1> QED
  BY <1>6, <1>8, <1>9, <1>10, <1>11, <1>12 DEF IInv

LEMMA OnReadLineInv ==
  ASSUME IInv, NEW s \in Sessions, OnReadLine(s)
  PROVE  IInv'
<1> DEFINE line == session[s].reader
           r == [session[s] EXCEPT !.reader = "idle"]
<1>1. /\ line \notin {"idle", "pending"}
      /\ \/ Return(s, r) /\ UNCHANGED log
         \/ line = "failed" /\ StopSession(s, r) /\ UNCHANGED log
         \/ line \in Messages /\ Deliver(s, r, line)
         \/ line = Heartbeat /\ Continue(s, ReadLine(Answer(r))) /\ UNCHANGED log
      /\ UNCHANGED <<from, received>>
  BY DEF OnReadLine
<1>2. session[s] \in SessionState /\ r \in SessionState /\ r.sock = session[s].sock
  BY DEF IInv, TypeOK, SessionState
<1>3. CASE Return(s, r) /\ UNCHANGED log
  <2>1. session[s].sock = "closed"
    BY <1>1, <1>2, <1>3, StartedWhenBusy DEF Return, Stopped
  <2> QED BY <1>1, <1>2, <1>3, <2>1, ReturnInv
<1>4. CASE StopSession(s, r) /\ UNCHANGED log
  BY <1>1, <1>2, <1>4, StopSessionInv
<1>5. CASE line \in Messages /\ Deliver(s, r, line)
  BY <1>1, <1>5, DeliverInv
<1>6. CASE Continue(s, ReadLine(Answer(r))) /\ UNCHANGED log
  <2> DEFINE x == ReadLine(Answer(r))
  <2>1. ~Stopped(session[s])
    <3>1. ~Stopped(x)
      BY <1>6 DEF Continue
    <3>2. x.sock = r.sock
      BY <1>2 DEF ReadLine, Answer, Enqueue, SessionState
    <3> QED BY <1>2, <3>1, <3>2 DEF Stopped
  <2>2. Core(r) /\ ~Stopped(r) /\ Unsent(r) = Unsent(session[s])
    BY <2>1, ReaderDone DEF IInv, SessionInv
  <2>3. SessionInv(x) /\ Unsent(x) = Unsent(session[s])
    <3>1. Core(Answer(r)) /\ ~Stopped(Answer(r)) /\ Unsent(Answer(r)) = Unsent(r)
      BY <2>2, AnswerInv
    <3> QED BY <2>2, <3>1, ReadLineInv
  <2> QED BY <1>1, <1>6, <2>1, <2>3, ContinueInv
<1> QED
  BY <1>1, <1>3, <1>4, <1>5, <1>6

LEMMA OnAwaitOutputInv ==
  ASSUME IInv, NEW s \in Sessions, OnAwaitOutput(s)
  PROVE  IInv'
<1> DEFINE r == [session[s] EXCEPT !.waiter = "idle"]
           sleep == AwaitOutput([r EXCEPT !.nonEmpty = "max"])
<1>1. /\ session[s].waiter # "idle"
      /\ \/ Return(s, r)
         \/ Continue(s, IF r.outputQueue = <<>> THEN sleep ELSE WriteLine(r))
      /\ UNCHANGED <<log, from, received>>
  BY DEF OnAwaitOutput, Fires
<1>2. /\ session[s] \in SessionState /\ SessionInv(session[s])
      /\ r \in SessionState /\ r.sock = session[s].sock
      /\ r.outputQueue = session[s].outputQueue
  <2>1. session[s] \in SessionState /\ SessionInv(session[s])
    BY DEF IInv, TypeOK
  <2> QED BY <2>1 DEF SessionState, Wait
<1>3. CASE Return(s, r)
  <2>1. session[s].sock = "closed"
    BY <1>1, <1>2, <1>3, StartedWhenBusy DEF Return, Stopped
  <2> QED BY <1>1, <1>2, <1>3, <2>1, ReturnInv
<1>4. CASE Continue(s, IF r.outputQueue = <<>> THEN sleep ELSE WriteLine(r))
  <2>1. sleep.sock = r.sock /\ WriteLine(r).sock = r.sock
    BY <1>2 DEF AwaitOutput, WriteLine, SessionState
  <2>2. ~Stopped(session[s])
    BY <1>2, <1>4, <2>1 DEF Continue, Stopped
  <2>3. CASE r.outputQueue = <<>>
    <3>1. SessionInv(sleep) /\ Unsent(sleep) = Unsent(session[s])
      BY <1>1, <1>2, <2>2, <2>3, SleepInv
    <3> QED BY <1>1, <1>4, <2>2, <2>3, <3>1, ContinueInv
  <2>4. CASE r.outputQueue # <<>>
    <3>1. SessionInv(WriteLine(r)) /\ Unsent(WriteLine(r)) = Unsent(session[s])
      BY <1>1, <1>2, <2>2, <2>4, WriteLineInv
    <3> QED BY <1>1, <1>4, <2>2, <2>4, <3>1, ContinueInv
  <2> QED BY <2>3, <2>4
<1> QED
  BY <1>1, <1>3, <1>4

LEMMA OnWriteLineInv ==
  ASSUME IInv, NEW s \in Sessions, OnWriteLine(s)
  PROVE  IInv'
<1> DEFINE result == session[s].writer
           r == [session[s] EXCEPT !.writer = "idle"]
           x == AwaitOutput([r EXCEPT !.outputQueue = Tail(r.outputQueue)])
<1>1. /\ result \in {"sent", "failed"}
      /\ \/ Return(s, r)
         \/ result = "failed" /\ StopSession(s, r)
         \/ result = "sent" /\ Continue(s, x)
      /\ UNCHANGED <<log, from, received>>
  BY DEF OnWriteLine
<1>2. /\ session[s] \in SessionState /\ SessionInv(session[s])
      /\ r \in SessionState /\ r.sock = session[s].sock
      /\ r.outputQueue = session[s].outputQueue
  BY DEF IInv, TypeOK, SessionState
<1>3. CASE Return(s, r)
  <2>1. session[s].sock = "closed"
    BY <1>1, <1>2, <1>3, StartedWhenBusy DEF Return, Stopped
  <2> QED BY <1>1, <1>2, <1>3, <2>1, ReturnInv
<1>4. CASE StopSession(s, r)
  BY <1>1, <1>2, <1>4, StopSessionInv
<1>5. CASE result = "sent" /\ Continue(s, x)
  <2>1. x.sock = r.sock
    BY <1>2 DEF AwaitOutput, SessionState
  <2>2. ~Stopped(session[s])
    BY <1>2, <1>5, <2>1 DEF Continue, Stopped
  <2>3. SessionInv(x) /\ Unsent(x) = Unsent(session[s])
    BY <1>2, <1>5, <2>2, PopFrontInv
  <2> QED BY <1>1, <1>5, <2>2, <2>3, ContinueInv
<1> QED
  BY <1>1, <1>3, <1>4, <1>5

LEMMA OnCheckDeadlineInv ==
  ASSUME IInv, NEW s \in Sessions, NEW w \in Timers, OnCheckDeadline(s, w)
  PROVE  IInv'
<1> DEFINE r == [session[s] EXCEPT !.check[w] = "idle"]
           x == CheckDeadline(r, w)
<1>1. /\ session[s].check[w] # "idle"
      /\ \/ Return(s, r)
         \/ StopSession(s, r)
         \/ Continue(s, x)
      /\ UNCHANGED <<log, from, received>>
  BY DEF OnCheckDeadline, Fires
<1>2. /\ session[s] \in SessionState /\ SessionInv(session[s])
      /\ r \in SessionState /\ r.sock = session[s].sock
  BY DEF IInv, TypeOK, SessionState, Wait, Timers
<1>3. CASE Return(s, r)
  <2>1. session[s].sock = "closed"
    BY <1>1, <1>2, <1>3, StartedWhenBusy DEF Return, Stopped
  <2> QED BY <1>1, <1>2, <1>3, <2>1, ReturnInv
<1>4. CASE StopSession(s, r)
  BY <1>1, <1>2, <1>4, StopSessionInv
<1>5. CASE Continue(s, x)
  <2>1. x.sock = r.sock
    BY <1>2 DEF CheckDeadline, SessionState
  <2>2. ~Stopped(session[s])
    BY <1>2, <1>5, <2>1 DEF Continue, Stopped
  <2>3. SessionInv(x) /\ Unsent(x) = Unsent(session[s])
    BY <1>2, <2>2, CheckAgainInv
  <2> QED BY <1>1, <1>5, <2>2, <2>3, ContinueInv
<1> QED
  BY <1>1, <1>3, <1>4, <1>5

(* The network completes a read with a line or a failure. *)
LEMMA ReadCompletesInv ==
  ASSUME IInv, NEW s \in Sessions, NEW result \in Lines \cup {"failed"},
         session[s].reader = "pending",
         session' = [session EXCEPT ![s].reader = result],
         UNCHANGED <<subscribers, log, from, received>>
  PROVE  IInv'
<1> DEFINE x == [session[s] EXCEPT !.reader = result]
<1>1. session[s] \in SessionState /\ SessionInv(session[s])
  BY DEF IInv, TypeOK
<1>2. session' = [session EXCEPT ![s] = x] /\ result # "idle"
  BY LinesAssumption
<1>3. /\ x \in SessionState /\ x.sock = session[s].sock /\ x.reader = result
      /\ x.writer = session[s].writer /\ x.waiter = session[s].waiter
      /\ x.check = session[s].check /\ x.nonEmpty = session[s].nonEmpty
      /\ x.outputQueue = session[s].outputQueue
  BY <1>1 DEF SessionState
<1> HIDE DEF x
<1>4. session[s].sock # "none"
  BY <1>1 DEF SessionInv, Constructed
<1>5. SessionInv(x)
  BY <1>1, <1>2, <1>3, <1>4 DEF SessionInv, Core, Stopped
<1>6. Unsent(x) = Unsent(session[s])
  BY <1>3 DEF Unsent
<1> QED
  BY <1>2, <1>3, <1>5, <1>6, KeepsSocket

LEMMA WriteFailsInv ==
  ASSUME IInv, NEW s \in Sessions, WriteFails(s)
  PROVE  IInv'
<1> DEFINE x == [session[s] EXCEPT !.writer = "failed"]
<1>1. session[s] \in SessionState /\ SessionInv(session[s]) /\ session[s].writer = "pending"
  BY DEF IInv, TypeOK, WriteFails
<1>2. session' = [session EXCEPT ![s] = x]
  BY DEF WriteFails
<1>3. /\ x \in SessionState /\ x.sock = session[s].sock /\ x.reader = session[s].reader
      /\ x.writer = "failed" /\ x.waiter = session[s].waiter
      /\ x.check = session[s].check /\ x.nonEmpty = session[s].nonEmpty
      /\ x.outputQueue = session[s].outputQueue
  BY <1>1 DEF SessionState
<1> HIDE DEF x
<1>4. session[s].sock # "none"
  BY <1>1 DEF SessionInv, Constructed
<1>5. SessionInv(x)
  BY <1>1, <1>3, <1>4 DEF SessionInv, Core, Stopped
<1>6. Unsent(x) = Unsent(session[s])
  BY <1>1, <1>3 DEF Unsent
<1> QED
  BY <1>2, <1>3, <1>5, <1>6, KeepsSocket DEF WriteFails

LEMMA LineSentInv ==
  ASSUME IInv, NEW s \in Sessions, LineSent(s)
  PROVE  IInv'
<1> DEFINE x == [session[s] EXCEPT !.writer = "sent"]
           q == session[s].outputQueue
<1>1. session[s] \in SessionState /\ SessionInv(session[s]) /\ session[s].writer = "pending"
  BY DEF IInv, TypeOK, LineSent
<1>2. session' = [session EXCEPT ![s] = x] /\ UNCHANGED <<subscribers, log, from>>
  BY DEF LineSent
<1>3. /\ x \in SessionState /\ x.sock = session[s].sock /\ x.reader = session[s].reader
      /\ x.writer = "sent" /\ x.waiter = session[s].waiter
      /\ x.check = session[s].check /\ x.nonEmpty = session[s].nonEmpty
      /\ x.outputQueue = q
  BY <1>1 DEF SessionState
<1> HIDE DEF x
<1>4. session[s].sock # "none"
  BY <1>1 DEF SessionInv, Constructed
<1>5. SessionInv(x)
  BY <1>1, <1>3, <1>4 DEF SessionInv, Core, Stopped
<1>6. ~Stopped(session[s]) /\ q \in Seq(Lines) /\ q # <<>>
  BY <1>1 DEF SessionInv, Core, SessionState
<1>7. CASE Head(q) = Heartbeat
  <2>1. UNCHANGED received
    BY <1>7 DEF LineSent
  <2>2. Unsent(x) = Unsent(session[s])
    BY <1>3, <1>7 DEF Unsent
  <2> QED BY <1>2, <1>3, <1>5, <2>1, <2>2, KeepsSocket
<1>8. CASE Head(q) # Heartbeat
  <2>1. Unsent(session[s]) = q /\ Unsent(x) = Tail(q)
    BY <1>1, <1>3, <1>6, <1>8 DEF Unsent
  <2>2. q \in Seq(Messages)
    BY <1>1, <1>6, <2>1, UnsentType
  <2>3. Head(q) \in Messages
    BY <1>6, <2>2, HeadTailProperties
  <2>4. received' = [received EXCEPT ![s] = Append(received[s], Head(q))]
    BY <1>8 DEF LineSent
  <2>5. received[s] \in Seq(Messages)
    BY DEF IInv, TypeOK
  <2>6. Append(received[s], Head(q)) \in Seq(Messages)
    BY <2>3, <2>5, AppendProperties
  <2>7. TypeOK'
    BY <1>2, <1>3, <2>4, <2>6 DEF IInv, TypeOK
  <2>8. \A t \in Sessions : /\ SessionInv(session'[t])
                            /\ session'[t].sock = session[t].sock
                            /\ t = s => session'[t] = x
                                        /\ received'[t] = Append(received[t], Head(q))
                            /\ t # s => session'[t] = session[t] /\ received'[t] = received[t]
    BY <1>2, <1>3, <1>5, <2>4 DEF IInv, TypeOK
  <2>9. SubscribersAreOpen'
    BY <1>2, <2>8 DEF IInv, SubscribersAreOpen, Open, Stopped
  <2>10. NothingLost'
    <3> SUFFICES ASSUME NEW t \in Sessions, ~Stopped(session'[t])
                 PROVE  received'[t] \o Unsent(session'[t])
                          = SubSeq(log, from[t] + 1, Len(log))
      BY <1>2 DEF NothingLost, Open
    <3>1. received[t] \o Unsent(session[t]) = SubSeq(log, from[t] + 1, Len(log))
      BY <2>8 DEF IInv, NothingLost, Open, Stopped
    <3>2. CASE t # s
      BY <2>8, <3>1, <3>2
    <3>3. CASE t = s
      <4>1. Append(received[s], Head(q)) \o Tail(q) = received[s] \o q
        BY <1>6, <2>2, <2>5, MoveHead
      <4> QED BY <2>1, <2>8, <3>1, <3>3, <4>1
    <3> QED BY <3>2, <3>3
  <2>11. \A t \in Sessions : session'[t].sock = "none" => received'[t] = <<>>
    BY <1>4, <2>8 DEF IInv
  <2> QED BY <1>2, <2>7, <2>8, <2>9, <2>10, <2>11 DEF IInv
<1> QED
  BY <1>7, <1>8

LEMMA TickInv ==
  ASSUME IInv, Tick
  PROVE  IInv'
<1>1. /\ session' = [s \in Sessions |-> Countdown(session[s])]
      /\ UNCHANGED <<subscribers, log, from, received>>
  BY DEF Tick
<1>2. \A t \in Sessions : /\ SessionInv(session'[t])
                          /\ session'[t].sock = session[t].sock
                          /\ Unsent(session'[t]) = Unsent(session[t])
  BY <1>1, CountdownInv DEF IInv
<1>3. TypeOK'
  BY <1>1, <1>2 DEF IInv, TypeOK, SessionInv, Core
<1>4. SubscribersAreOpen' /\ NothingLost'
  BY <1>1, <1>2 DEF IInv, SubscribersAreOpen, NothingLost, Open, Stopped
<1> QED
  BY <1>1, <1>2, <1>3, <1>4 DEF IInv

LEMMA InitInv == Init => IInv
<1> SUFFICES ASSUME Init PROVE IInv
  OBVIOUS
<1>1. Constructed \in SessionState /\ SessionInv(Constructed)
  BY ConstructedInv DEF SessionInv, Core
<1>2. TypeOK
  BY <1>1 DEF Init, TypeOK
<1>3. \A s \in Sessions : session[s] = Constructed /\ Constructed.sock = "none"
  BY DEF Init, Constructed
<1> QED
  BY <1>1, <1>2, <1>3 DEF Init, IInv, SubscribersAreOpen, NothingLost, Open, Stopped

LEMMA NextInv == IInv /\ [Next]_vars => IInv'
<1> SUFFICES ASSUME IInv, [Next]_vars PROVE IInv'
  OBVIOUS
<1>1. CASE UNCHANGED vars
  BY <1>1 DEF vars, IInv, TypeOK, SubscribersAreOpen, NothingLost, Open
<1>2. CASE Tick
  BY <1>2, TickInv
<1>3. ASSUME NEW s \in Sessions, Handlers(s) PROVE IInv'
  BY <1>3, OnReadLineInv, OnAwaitOutputInv, OnWriteLineInv, OnCheckDeadlineInv DEF Handlers
<1>4. ASSUME NEW s \in Sessions, Network(s) PROVE IInv'
  <2>1. CASE Accept(s)
    BY <2>1, AcceptInv
  <2>2. ASSUME NEW line \in Lines, LineArrives(s, line) PROVE IInv'
    BY <2>2, ReadCompletesInv DEF LineArrives
  <2>3. CASE ReadFails(s)
    BY <2>3, ReadCompletesInv DEF ReadFails
  <2>4. CASE LineSent(s)
    BY <2>4, LineSentInv
  <2>5. CASE WriteFails(s)
    BY <2>5, WriteFailsInv
  <2> QED BY <1>4, <2>1, <2>2, <2>3, <2>4, <2>5 DEF Network
<1> QED
  BY <1>1, <1>2, <1>3, <1>4 DEF Next

----------------------------------------------------------------------------
(* Theorems *)

LEMMA Invariance == Safety => []IInv
BY InitInv, NextInv, PTL DEF Safety

(* Every variable of the server keeps its type. *)
THEOREM TypeCorrect == Safety => []TypeOK
BY Invariance, PTL DEF IInv

(* net::channel and tcp_session lose, repeat and reorder no message of an   *)
(* open session, for any number of sessions and messages: what a client has *)
(* received and what waits for it is the log since the session joined.      *)
THEOREM DeliveryCorrect == Safety => []NothingLost
BY Invariance, PTL DEF IInv

(* The channel holds exactly the open sessions and the broadcaster. *)
THEOREM MembershipCorrect == Safety => []SubscribersAreOpen
BY Invariance, PTL DEF IInv

(* No actor of an open session dies, whatever the interleaving. *)
THEOREM ActorsCorrect == Safety => []ActorsAlive
<1>1. IInv => ActorsAlive
  BY DEF IInv, SessionInv, Core, ActorsAlive, Open
<1> QED
  BY <1>1, Invariance, PTL

(* The condition timer loses no wake-up. *)
THEOREM WakeupCorrect == Safety => []NoLostWakeup
<1>1. IInv => NoLostWakeup
  BY DEF IInv, SessionInv, Core, NoLostWakeup, Open
<1> QED
  BY <1>1, Invariance, PTL

(* A heartbeat is never enqueued behind or before another message. *)
THEOREM HeartbeatCorrect == Safety => []HeartbeatOnlyInFront
<1>1. IInv => HeartbeatOnlyInFront
  <2> SUFFICES ASSUME IInv, NEW s \in Sessions, Open(s)
               PROVE  \A i \in 2..Len(session[s].outputQueue) :
                         session[s].outputQueue[i] # Heartbeat
    BY DEF HeartbeatOnlyInFront
  <2> QED BY DEF IInv, SessionInv, Core, Open
<1> QED
  BY <1>1, Invariance, PTL

----------------------------------------------------------------------------
(* The server implements OrderedBroadcast *)

LEMMA Stutters ==
  ASSUME \A t \in Sessions : session'[t].sock = session[t].sock,
         UNCHANGED <<log, from, received>>
  PROVE  UNCHANGED Clients!vars
<1>1. [t \in Sessions |-> session'[t].sock] = [t \in Sessions |-> session[t].sock]
  OBVIOUS
<1> QED
  BY <1>1 DEF Clients!vars

LEMMA ReplacedStutters ==
  ASSUME IInv, NEW s \in Sessions, NEW x, session' = [session EXCEPT ![s] = x],
         x.sock = session[s].sock,
         UNCHANGED <<log, from, received>>
  PROVE  UNCHANGED Clients!vars
<1>1. \A t \in Sessions : session'[t].sock = session[t].sock
  BY DEF IInv, TypeOK
<1> QED
  BY <1>1, Stutters

(* Return, StopSession and Continue, for a handler that leaves the log alone. *)
LEMMA HandlerMaps ==
  ASSUME IInv, NEW s \in Sessions, NEW r \in SessionState, NEW x,
         r.sock = session[s].sock, x.sock = session[s].sock,
         Stopped(session[s]) => session[s].sock = "closed",
         Return(s, r) \/ StopSession(s, r) \/ Continue(s, x),
         UNCHANGED <<log, from, received>>
  PROVE  [Clients!Next]_Clients!vars
<1>1. CASE Return(s, r)
  <2>1. Remains(r).sock = "closed" /\ session[s].sock = "closed"
    BY <1>1, RemainsInv DEF Return, Stopped
  <2>2. session' = [session EXCEPT ![s] = Remains(r)]
    BY <1>1 DEF Return, Set
  <2> QED BY <2>1, <2>2, ReplacedStutters
<1>2. CASE StopSession(s, r)
  <2> DEFINE x0 == Remains(Stop(r))
  <2>1. x0.sock = "closed"
    BY StopType, RemainsInv
  <2>2. session' = [session EXCEPT ![s] = x0] /\ session[s].sock = "open"
    BY <1>2, StopType DEF StopSession, Set, Stopped
  <2> HIDE DEF x0
  <2>3. [t \in Sessions |-> session'[t].sock]
          = [[t \in Sessions |-> session[t].sock] EXCEPT ![s] = "closed"]
    BY <2>1, <2>2 DEF IInv, TypeOK
  <2>4. Clients!Leave(s)
    BY <2>2, <2>3 DEF Clients!Leave
  <2> QED BY <2>4 DEF Clients!Next
<1>3. CASE Continue(s, x)
  <2>1. session' = [session EXCEPT ![s] = x]
    BY <1>3 DEF Continue, Set
  <2> QED BY <2>1, ReplacedStutters
<1> QED
  BY <1>1, <1>2, <1>3

LEMMA BusyWhenStopped ==
  ASSUME IInv, NEW s \in Sessions,
         \/ session[s].reader # "idle"
         \/ session[s].writer # "idle"
         \/ session[s].waiter # "idle"
         \/ \E w \in Timers : session[s].check[w] # "idle"
  PROVE  Stopped(session[s]) => session[s].sock = "closed"
BY StartedWhenBusy

LEMMA OnReadLineMaps ==
  ASSUME IInv, NEW s \in Sessions, OnReadLine(s)
  PROVE  [Clients!Next]_Clients!vars
<1> DEFINE line == session[s].reader
           r == [session[s] EXCEPT !.reader = "idle"]
           x == ReadLine(Answer(r))
<1>1. /\ line \notin {"idle", "pending"}
      /\ \/ Return(s, r) /\ UNCHANGED log
         \/ line = "failed" /\ StopSession(s, r) /\ UNCHANGED log
         \/ line \in Messages /\ Deliver(s, r, line)
         \/ line = Heartbeat /\ Continue(s, x) /\ UNCHANGED log
      /\ UNCHANGED <<from, received>>
  BY DEF OnReadLine
<1>2. session[s] \in SessionState
  BY DEF IInv, TypeOK
<1>3. r \in SessionState /\ r.sock = session[s].sock /\ x.sock = session[s].sock
  BY <1>2 DEF SessionState, ReadLine, Answer, Enqueue
<1>4. CASE (Return(s, r) \/ StopSession(s, r) \/ Continue(s, x)) /\ UNCHANGED log
  BY <1>1, <1>3, <1>4, HandlerMaps, BusyWhenStopped
<1>5. CASE line \in Messages /\ Deliver(s, r, line)
  <2> DEFINE base == [session EXCEPT ![s] = r]
             heard == [t \in Sessions |-> IF t \in subscribers
                                            THEN Enqueue(base[t], line) ELSE base[t]]
  <2>1. /\ ~Stopped(r) /\ log' = Append(log, line)
        /\ session' = [heard EXCEPT ![s] = ReadLine(heard[s])]
    BY <1>5 DEF Deliver
  <2>2. \A t \in Sessions : base[t] \in SessionState /\ base[t].sock = session[t].sock
    BY <1>3 DEF IInv, TypeOK
  <2> HIDE DEF base, r
  <2>3. \A t \in Sessions : line \in Lines /\ Enqueue(base[t], line) \in SessionState
                            /\ Enqueue(base[t], line).sock = base[t].sock
    <3> SUFFICES ASSUME NEW t \in Sessions
                 PROVE  line \in Lines /\ Enqueue(base[t], line) \in SessionState
                        /\ Enqueue(base[t], line).sock = base[t].sock
      OBVIOUS
    <3>1. line \in Lines
      BY <1>5 DEF Lines
    <3>2. base[t].outputQueue \in Seq(Lines)
      BY <2>2 DEF SessionState
    <3>3. Append(base[t].outputQueue, line) \in Seq(Lines)
      BY <3>1, <3>2, AppendProperties
    <3> QED BY <2>2, <3>1, <3>3, CancelType DEF Enqueue, SessionState
  <2>4. \A t \in Sessions : heard[t] \in SessionState /\ heard[t].sock = session[t].sock
    BY <2>2, <2>3
  <2> HIDE DEF heard
  <2>5. ReadLine(heard[s]).sock = session[s].sock
    BY <2>4 DEF ReadLine, SessionState
  <2>6. \A t \in Sessions : session'[t].sock = session[t].sock
    <3>1. DOMAIN heard = Sessions
      BY DEF heard
    <3> QED BY <2>1, <2>4, <2>5, <3>1
  <2>7. [t \in Sessions |-> session'[t].sock] = [t \in Sessions |-> session[t].sock]
    BY <2>6
  <2>8. session[s].sock = "open"
    BY <1>3, <2>1 DEF Stopped
  <2>9. Clients!Post(s, line)
    BY <1>1, <2>1, <2>7, <2>8 DEF Clients!Post
  <2> QED BY <1>5, <2>9 DEF Clients!Next
<1> QED
  BY <1>1, <1>4, <1>5

LEMMA OnAwaitOutputMaps ==
  ASSUME IInv, NEW s \in Sessions, OnAwaitOutput(s)
  PROVE  [Clients!Next]_Clients!vars
<1> DEFINE r == [session[s] EXCEPT !.waiter = "idle"]
           x == IF r.outputQueue = <<>> THEN AwaitOutput([r EXCEPT !.nonEmpty = "max"])
                ELSE WriteLine(r)
<1>1. /\ session[s].waiter # "idle"
      /\ Return(s, r) \/ Continue(s, x)
      /\ UNCHANGED <<log, from, received>>
  BY DEF OnAwaitOutput, Fires
<1>2. session[s] \in SessionState
  BY DEF IInv, TypeOK
<1>3. r \in SessionState /\ r.sock = session[s].sock /\ x.sock = session[s].sock
  BY <1>2 DEF SessionState, Wait, AwaitOutput, WriteLine
<1> QED
  BY <1>1, <1>3, HandlerMaps, BusyWhenStopped

LEMMA OnWriteLineMaps ==
  ASSUME IInv, NEW s \in Sessions, OnWriteLine(s)
  PROVE  [Clients!Next]_Clients!vars
<1> DEFINE r == [session[s] EXCEPT !.writer = "idle"]
           x == AwaitOutput([r EXCEPT !.outputQueue = Tail(r.outputQueue)])
<1>1. /\ session[s].writer # "idle"
      /\ Return(s, r) \/ StopSession(s, r) \/ Continue(s, x)
      /\ UNCHANGED <<log, from, received>>
  BY DEF OnWriteLine
<1>2. session[s] \in SessionState
  BY DEF IInv, TypeOK
<1>3. r \in SessionState /\ r.sock = session[s].sock /\ x.sock = session[s].sock
  BY <1>2 DEF SessionState, AwaitOutput
<1> QED
  BY <1>1, <1>3, HandlerMaps, BusyWhenStopped

LEMMA OnCheckDeadlineMaps ==
  ASSUME IInv, NEW s \in Sessions, NEW w \in Timers, OnCheckDeadline(s, w)
  PROVE  [Clients!Next]_Clients!vars
<1> DEFINE r == [session[s] EXCEPT !.check[w] = "idle"]
           x == CheckDeadline(r, w)
<1>1. /\ session[s].check[w] # "idle"
      /\ Return(s, r) \/ StopSession(s, r) \/ Continue(s, x)
      /\ UNCHANGED <<log, from, received>>
  BY DEF OnCheckDeadline, Fires
<1>2. session[s] \in SessionState
  BY DEF IInv, TypeOK
<1>3. r \in SessionState /\ r.sock = session[s].sock /\ x.sock = session[s].sock
  BY <1>2 DEF SessionState, Wait, CheckDeadline
<1> QED
  BY <1>1, <1>3, HandlerMaps, BusyWhenStopped

(* A message sent in full is the next one of the log for this client. *)
LEMMA LineSentMaps ==
  ASSUME IInv, NEW s \in Sessions, LineSent(s)
  PROVE  [Clients!Next]_Clients!vars
<1> DEFINE x == [session[s] EXCEPT !.writer = "sent"]
           q == session[s].outputQueue
<1>1. /\ session[s] \in SessionState /\ SessionInv(session[s]) /\ session[s].writer = "pending"
      /\ session' = [session EXCEPT ![s] = x] /\ UNCHANGED <<subscribers, log, from>>
  BY DEF IInv, TypeOK, LineSent
<1>2. x.sock = session[s].sock
  BY <1>1 DEF SessionState
<1> HIDE DEF x
<1>3. session[s].sock = "open" /\ q \in Seq(Lines) /\ q # <<>>
  BY <1>1 DEF SessionInv, Core, SessionState, Stopped
<1>4. CASE Head(q) = Heartbeat
  <2>1. UNCHANGED received
    BY <1>4 DEF LineSent
  <2> QED BY <1>1, <1>2, <2>1, ReplacedStutters
<1>5. CASE Head(q) # Heartbeat
  <2> DEFINE got == received[s]
             rest == SubSeq(log, from[s] + 1, Len(log))
  <2>1. Unsent(session[s]) = q
    BY <1>1, <1>3, <1>5 DEF Unsent
  <2>2. q \in Seq(Messages)
    BY <1>1, <1>3, <2>1, UnsentType DEF Stopped
  <2>3. /\ got \in Seq(Messages) /\ log \in Seq(Messages)
        /\ from[s] \in Nat /\ from[s] <= Len(log)
    BY DEF IInv, TypeOK
  <2>4. got \o q = rest
    BY <1>3, <2>1 DEF IInv, NothingLost, Open, Stopped
  <2>5. /\ Len(got \o q) = Len(got) + Len(q)
        /\ (got \o q)[Len(got) + 1] = Head(q)
        /\ Len(got) \in Nat /\ Len(q) \in Nat /\ Len(q) > 0
    <3> HIDE DEF got, q
    <3> QED BY <1>3, <2>2, <2>3, NextOfConcat
  <2>6. /\ Len(rest) = Len(log) - from[s]
        /\ \A i \in 1..(Len(log) - from[s]) : rest[i] = log[from[s] + i]
    <3>1. \A i \in (from[s] + 1)..Len(log) : log[i] \in Messages
      BY <2>3
    <3>2. Len(log) \in Nat /\ from[s] + 1 \in Int
      BY <2>3
    <3> QED BY <2>3, <3>1, <3>2, SubSeqProperties
  <2> HIDE DEF got, rest
  <2>7. Len(got) + 1 \in 1..(Len(log) - from[s])
    BY <2>3, <2>4, <2>5, <2>6
  <2>8. Head(q) = log[from[s] + Len(got) + 1] /\ from[s] + Len(got) + 1 <= Len(log)
    <3>1. from[s] + (Len(got) + 1) = from[s] + Len(got) + 1
      BY <2>3, <2>5
    <3> QED BY <2>3, <2>4, <2>5, <2>6, <2>7, <3>1
  <2>9. received' = [received EXCEPT ![s] = Append(received[s], Head(q))]
    BY <1>5 DEF LineSent
  <2>10. [t \in Sessions |-> session'[t].sock] = [t \in Sessions |-> session[t].sock]
    BY <1>1, <1>2 DEF IInv, TypeOK
  <2>11. Clients!Receive(s)
    BY <1>1, <1>3, <2>8, <2>9, <2>10 DEF Clients!Receive, Clients!Position, got
  <2> QED BY <2>11 DEF Clients!Next
<1> QED
  BY <1>4, <1>5

LEMMA AcceptMaps ==
  ASSUME IInv, NEW s \in Sessions, Accept(s)
  PROVE  [Clients!Next]_Clients!vars
<1> DEFINE x == Start(Constructed)
<1>1. session[s] = Constructed /\ session[s].sock = "none"
  BY DEF Accept, IInv, SessionInv
<1>2. x.sock = "open"
  BY StartInv
<1> HIDE DEF x
<1>3. session' = [session EXCEPT ![s] = x]
  BY <1>1, <1>2 DEF Accept, Set, Stopped, x
<1>4. [t \in Sessions |-> session'[t].sock]
        = [[t \in Sessions |-> session[t].sock] EXCEPT ![s] = "open"]
  BY <1>2, <1>3 DEF IInv, TypeOK
<1>5. Clients!Join(s)
  BY <1>1, <1>4 DEF Clients!Join, Accept
<1> QED
  BY <1>5 DEF Clients!Next

LEMMA StepMaps == IInv /\ [Next]_vars => [Clients!Next]_Clients!vars
<1> SUFFICES ASSUME IInv, [Next]_vars PROVE [Clients!Next]_Clients!vars
  OBVIOUS
<1>1. CASE UNCHANGED vars
  BY <1>1 DEF vars, Clients!vars
<1>2. CASE Tick
  <2>1. \A t \in Sessions : session'[t].sock = session[t].sock
    <3>1. \A t \in Sessions : Countdown(session[t]).sock = session[t].sock
      BY CountdownInv DEF IInv
    <3>2. session' = [t \in Sessions |-> Countdown(session[t])]
      BY <1>2 DEF Tick
    <3> QED BY <3>1, <3>2
  <2> QED BY <1>2, <2>1, Stutters DEF Tick
<1>3. ASSUME NEW s \in Sessions, Handlers(s) PROVE [Clients!Next]_Clients!vars
  BY <1>3, OnReadLineMaps, OnAwaitOutputMaps, OnWriteLineMaps, OnCheckDeadlineMaps DEF Handlers
<1>4. ASSUME NEW s \in Sessions, Network(s) PROVE [Clients!Next]_Clients!vars
  <2>1. session[s] \in SessionState
    BY DEF IInv, TypeOK
  <2>2. CASE Accept(s)
    BY <2>2, AcceptMaps
  <2>3. ASSUME NEW line \in Lines, LineArrives(s, line) PROVE [Clients!Next]_Clients!vars
    <3>1. [session[s] EXCEPT !.reader = line].sock = session[s].sock
      BY <2>1 DEF SessionState
    <3> QED BY <2>3, <3>1, ReplacedStutters DEF LineArrives
  <2>4. CASE ReadFails(s)
    <3>1. [session[s] EXCEPT !.reader = "failed"].sock = session[s].sock
      BY <2>1 DEF SessionState
    <3> QED BY <2>4, <3>1, ReplacedStutters DEF ReadFails
  <2>5. CASE LineSent(s)
    BY <2>5, LineSentMaps
  <2>6. CASE WriteFails(s)
    <3>1. [session[s] EXCEPT !.writer = "failed"].sock = session[s].sock
      BY <2>1 DEF SessionState
    <3> QED BY <2>6, <3>1, ReplacedStutters DEF WriteFails
  <2> QED BY <1>4, <2>2, <2>3, <2>4, <2>5, <2>6 DEF Network
<1> QED
  BY <1>1, <1>2, <1>3, <1>4 DEF Next

(* The server implements the broadcast of one log: its four actors, its     *)
(* queues and its timers show through to no client.  Liveness is TLC's.     *)
THEOREM Implementation == Safety => BroadcastsInOrder
<1>1. Init => Clients!Init
  BY DEF Init, Clients!Init, Constructed
<1> QED
  BY <1>1, Invariance, StepMaps, PTL DEF Safety, BroadcastsInOrder, Clients!Safety

----------------------------------------------------------------------------
(* What a step does to an open session                                      *)

Reason(s) ==
    \/ session[s].reader = "failed"
    \/ session[s].writer = "failed"
    \/ \E w \in Timers : session[s].deadline[w] = 0

Grows(old, new) == new = old \/ \E line \in Lines : new = Append(old, line)

(* It is stopped for a reason, or stays open; and while a write is            *)
(* outstanding its queue only grows.                                        *)
Becomes(s, x) ==
    \/ x.sock = "closed" /\ Reason(s)
    \/ /\ x.sock = "open"
       /\ session[s].writer = "pending" => Grows(session[s].outputQueue, x.outputQueue)

(* A step that replaces one session only. *)
LEMMA ReplacedBecomes ==
  ASSUME IInv, NEW s \in Sessions, Open(s), NEW t \in Sessions, NEW x,
         session' = [session EXCEPT ![t] = x],
         s = t => Becomes(s, x)
  PROVE  Becomes(s, session'[s])
<1>1. CASE s = t
  <2>1. session'[s] = x
    BY <1>1 DEF IInv, TypeOK
  <2> QED BY <1>1, <2>1
<1>2. CASE s # t
  <2>1. session'[s] = session[s]
    BY <1>2 DEF IInv, TypeOK
  <2> QED BY <2>1 DEF Becomes, Grows, Open, Stopped
<1> QED
  BY <1>1, <1>2

(* A handler that finds its session stopped, or stops it. *)
LEMMA ReturnBecomes ==
  ASSUME IInv, NEW s \in Sessions, Open(s), NEW t \in Sessions, NEW r,
         r.sock = session[t].sock, Return(t, r)
  PROVE  Becomes(s, session'[s])
<1>1. s # t
  BY DEF Return, Stopped, Open
<1>2. session' = [session EXCEPT ![t] = Remains(r)]
  BY DEF Return, Set
<1> QED
  BY <1>1, <1>2, ReplacedBecomes

LEMMA StopBecomes ==
  ASSUME IInv, NEW s \in Sessions, Open(s), NEW t \in Sessions, NEW r \in SessionState,
         StopSession(t, r), s = t => Reason(s)
  PROVE  Becomes(s, session'[s])
<1> DEFINE x == Remains(Stop(r))
<1>1. x.sock = "closed"
  BY StopType, RemainsInv
<1>2. session' = [session EXCEPT ![t] = x]
  BY StopType DEF StopSession, Set
<1> HIDE DEF x
<1>3. s = t => Becomes(s, x)
  BY <1>1 DEF Becomes
<1> QED
  BY <1>2, <1>3, ReplacedBecomes

LEMMA ContinueBecomes ==
  ASSUME IInv, NEW s \in Sessions, Open(s), NEW t \in Sessions, NEW x, Continue(t, x),
         s = t /\ session[s].writer = "pending" => Grows(session[s].outputQueue, x.outputQueue)
  PROVE  Becomes(s, session'[s])
<1>1. session' = [session EXCEPT ![t] = x] /\ x.sock = "open"
  BY DEF Continue, Set, Stopped
<1>2. s = t => Becomes(s, x)
  BY <1>1 DEF Becomes
<1> QED
  BY <1>1, <1>2, ReplacedBecomes

LEMMA OnReadLineBecomes ==
  ASSUME IInv, NEW s \in Sessions, Open(s), NEW t \in Sessions, OnReadLine(t)
  PROVE  Becomes(s, session'[s])
<1> DEFINE line == session[t].reader
           r == [session[t] EXCEPT !.reader = "idle"]
<1>1. \/ Return(t, r)
      \/ line = "failed" /\ StopSession(t, r)
      \/ line \in Messages /\ Deliver(t, r, line)
      \/ Continue(t, ReadLine(Answer(r)))
  BY DEF OnReadLine
<1>2. /\ session[t] \in SessionState /\ r \in SessionState /\ r.sock = session[t].sock
      /\ r.outputQueue = session[t].outputQueue
  BY DEF IInv, TypeOK, SessionState
<1>3. CASE Return(t, r)
  BY <1>2, <1>3, ReturnBecomes
<1>4. CASE line = "failed" /\ StopSession(t, r)
  BY <1>2, <1>4, StopBecomes DEF Reason
<1>5. CASE line \in Messages /\ Deliver(t, r, line)
  <2> DEFINE base == [session EXCEPT ![t] = r]
             heard == [u \in Sessions |-> IF u \in subscribers
                                            THEN Enqueue(base[u], line) ELSE base[u]]
  <2>1. session' = [heard EXCEPT ![t] = ReadLine(@)]
    BY <1>5 DEF Deliver
  <2>2. /\ session[s] \in SessionState /\ base[s] \in SessionState
        /\ base[s].sock = "open" /\ base[s].outputQueue = session[s].outputQueue
    BY <1>2 DEF IInv, TypeOK, Open, Stopped
  <2> HIDE DEF base
  <2>3. heard[s].sock = "open" /\ heard[s] \in {Enqueue(base[s], line), base[s]}
    BY <2>2 DEF Enqueue, SessionState
  <2>4. Grows(session[s].outputQueue, heard[s].outputQueue)
    <3>1. line \in Lines
      BY <1>5 DEF Lines
    <3>2. Enqueue(base[s], line).outputQueue = Append(base[s].outputQueue, line)
      BY <2>2 DEF Enqueue, SessionState
    <3> QED BY <2>2, <2>3, <3>1, <3>2 DEF Grows
  <2>5. heard[s] \in SessionState
    <3>1. line \in Lines
      BY <1>5 DEF Lines
    <3>2. Enqueue(base[s], line) \in SessionState
      <4> DEFINE b == base[s]
      <4>1. /\ b \in SessionState
            /\ Append(b.outputQueue, line) \in Seq(Lines) /\ Cancel(b.waiter) \in Wait
        BY <2>2, <3>1, CancelType DEF SessionState
      <4> HIDE DEF b
      <4>2. Enqueue(b, line) \in SessionState
        BY <4>1 DEF Enqueue, SessionState
      <4> QED BY <4>2 DEF b
    <3> QED BY <2>2, <2>3, <3>2
  <2>6. /\ ReadLine(heard[s]).sock = heard[s].sock
        /\ ReadLine(heard[s]).outputQueue = heard[s].outputQueue
    BY <2>5 DEF ReadLine, SessionState
  <2>7. session'[s] \in {ReadLine(heard[s]), heard[s]}
    BY <2>1
  <2> HIDE DEF heard
  <2> QED BY <2>3, <2>4, <2>6, <2>7 DEF Becomes
<1>6. CASE Continue(t, ReadLine(Answer(r)))
  <2>1. ReadLine(Answer(r)).outputQueue = Answer(r).outputQueue
    BY <1>2 DEF ReadLine, Answer, Enqueue, SessionState
  <2>2. Grows(r.outputQueue, Answer(r).outputQueue)
    BY <1>2 DEF Answer, Enqueue, Grows, Lines, SessionState
  <2> QED BY <1>2, <1>6, <2>1, <2>2, ContinueBecomes
<1> QED
  BY <1>1, <1>3, <1>4, <1>5, <1>6

LEMMA OnAwaitOutputBecomes ==
  ASSUME IInv, NEW s \in Sessions, Open(s), NEW t \in Sessions, OnAwaitOutput(t)
  PROVE  Becomes(s, session'[s])
<1> DEFINE r == [session[t] EXCEPT !.waiter = "idle"]
           sleep == AwaitOutput([r EXCEPT !.nonEmpty = "max"])
           x == IF r.outputQueue = <<>> THEN sleep ELSE WriteLine(r)
<1>1. Return(t, r) \/ Continue(t, x)
  BY DEF OnAwaitOutput
<1>2. /\ session[t] \in SessionState /\ r.sock = session[t].sock
      /\ x.outputQueue = session[t].outputQueue
  BY DEF IInv, TypeOK, SessionState, AwaitOutput, WriteLine
<1>3. Grows(session[t].outputQueue, x.outputQueue)
  BY <1>2 DEF Grows
<1> QED
  BY <1>1, <1>2, <1>3, ReturnBecomes, ContinueBecomes

LEMMA OnWriteLineBecomes ==
  ASSUME IInv, NEW s \in Sessions, Open(s), NEW t \in Sessions, OnWriteLine(t)
  PROVE  Becomes(s, session'[s])
<1> DEFINE r == [session[t] EXCEPT !.writer = "idle"]
           x == AwaitOutput([r EXCEPT !.outputQueue = Tail(@)])
<1>1. /\ session[t].writer # "pending"
      /\ \/ Return(t, r)
         \/ session[t].writer = "failed" /\ StopSession(t, r)
         \/ Continue(t, x)
  BY DEF OnWriteLine
<1>2. r \in SessionState /\ r.sock = session[t].sock
  BY DEF IInv, TypeOK, SessionState
<1>3. CASE session[t].writer = "failed" /\ StopSession(t, r)
  BY <1>2, <1>3, StopBecomes DEF Reason
<1> QED
  BY <1>1, <1>2, <1>3, ReturnBecomes, ContinueBecomes

LEMMA OnCheckDeadlineBecomes ==
  ASSUME IInv, NEW s \in Sessions, Open(s), NEW t \in Sessions, NEW w \in Timers,
         OnCheckDeadline(t, w)
  PROVE  Becomes(s, session'[s])
<1> DEFINE r == [session[t] EXCEPT !.check[w] = "idle"]
           x == CheckDeadline(r, w)
<1>1. \/ Return(t, r)
      \/ Expired(r, w) /\ StopSession(t, r)
      \/ Continue(t, x)
  BY DEF OnCheckDeadline
<1>2. /\ session[t] \in SessionState /\ r \in SessionState /\ r.sock = session[t].sock
      /\ r.deadline = session[t].deadline /\ x.outputQueue = session[t].outputQueue
  BY DEF IInv, TypeOK, SessionState, Wait, Timers, CheckDeadline
<1>3. CASE Expired(r, w) /\ StopSession(t, r)
  BY <1>2, <1>3, StopBecomes DEF Reason, Expired
<1>4. Grows(session[t].outputQueue, x.outputQueue)
  BY <1>2 DEF Grows
<1> QED
  BY <1>1, <1>2, <1>3, <1>4, ReturnBecomes, ContinueBecomes

LEMMA NetworkBecomes ==
  ASSUME IInv, NEW s \in Sessions, Open(s), NEW t \in Sessions, Network(t)
  PROVE  Becomes(s, session'[s])
<1>1. session[t] \in SessionState
  BY DEF IInv, TypeOK
<1>2. CASE Accept(t)
  <2>1. s # t
    BY <1>2 DEF Accept, Open, Stopped
  <2>2. PICK x : session' = [session EXCEPT ![t] = x]
    BY <1>2 DEF Accept, Set
  <2> QED BY <2>1, <2>2, ReplacedBecomes
<1>3. ASSUME NEW x, session' = [session EXCEPT ![t] = x],
             x.sock = session[t].sock, x.outputQueue = session[t].outputQueue
      PROVE  Becomes(s, session'[s])
  <2>1. s = t => Becomes(s, x)
    BY <1>3 DEF Becomes, Grows, Open, Stopped
  <2> QED BY <1>3, <2>1, ReplacedBecomes
<1>4. ASSUME NEW line \in Lines, LineArrives(t, line)
      PROVE  Becomes(s, session'[s])
  <2> DEFINE x == [session[t] EXCEPT !.reader = line]
  <2>1. /\ session' = [session EXCEPT ![t] = x]
        /\ x.sock = session[t].sock /\ x.outputQueue = session[t].outputQueue
    BY <1>1, <1>4 DEF LineArrives, SessionState
  <2> HIDE DEF x
  <2> QED BY <1>3, <2>1
<1>5. CASE ReadFails(t)
  <2> DEFINE x == [session[t] EXCEPT !.reader = "failed"]
  <2>1. /\ session' = [session EXCEPT ![t] = x]
        /\ x.sock = session[t].sock /\ x.outputQueue = session[t].outputQueue
    BY <1>1, <1>5 DEF ReadFails, SessionState
  <2> HIDE DEF x
  <2> QED BY <1>3, <2>1
<1>6. CASE LineSent(t) \/ WriteFails(t)
  <2>1. PICK result \in {"sent", "failed"} :
            session' = [session EXCEPT ![t].writer = result]
    BY <1>6 DEF LineSent, WriteFails
  <2> DEFINE x == [session[t] EXCEPT !.writer = result]
  <2>2. /\ session' = [session EXCEPT ![t] = x]
        /\ x.sock = session[t].sock /\ x.outputQueue = session[t].outputQueue
    BY <1>1, <2>1 DEF SessionState
  <2> HIDE DEF x
  <2> QED BY <1>3, <2>2
<1> QED
  BY <1>2, <1>4, <1>5, <1>6 DEF Network

LEMMA TickBecomes ==
  ASSUME IInv, NEW s \in Sessions, Open(s), Tick
  PROVE  Becomes(s, session'[s])
<1>1. session'[s] = Countdown(session[s])
  BY DEF Tick
<1>2. session[s] \in SessionState
  BY DEF IInv, TypeOK
<1>3. /\ Countdown(session[s]).sock = session[s].sock
      /\ Countdown(session[s]).outputQueue = session[s].outputQueue
  BY <1>2 DEF Countdown, SessionState
<1> QED
  BY <1>1, <1>3 DEF Becomes, Grows, Open, Stopped

LEMMA StepBecomes ==
  ASSUME IInv, [Next]_vars, NEW s \in Sessions, Open(s)
  PROVE  Becomes(s, session'[s])
<1>1. CASE UNCHANGED vars
  BY <1>1 DEF vars, Becomes, Grows, Open, Stopped
<1>2. CASE Tick
  BY <1>2, TickBecomes
<1>3. ASSUME NEW t \in Sessions, Handlers(t) PROVE Becomes(s, session'[s])
  BY <1>3, OnReadLineBecomes, OnAwaitOutputBecomes, OnWriteLineBecomes,
     OnCheckDeadlineBecomes DEF Handlers
<1>4. ASSUME NEW t \in Sessions, Network(t) PROVE Becomes(s, session'[s])
  BY <1>4, NetworkBecomes
<1> QED
  BY <1>1, <1>2, <1>3, <1>4 DEF Next

(* The front of the queue, to which async_write holds a reference, stays    *)
(* where it is while the write is outstanding, whatever deliver appends.    *)
THEOREM FrontCorrect == Safety => FrontStaysWhileWriting
<1>1. IInv /\ [Next]_vars =>
        [\A s \in Sessions :
           session[s].writer = "pending" /\ Open(s)' =>
              /\ session[s].outputQueue # <<>>
              /\ session'[s].outputQueue # <<>>
              /\ Head(session'[s].outputQueue) = Head(session[s].outputQueue)]_vars
  <2> SUFFICES ASSUME IInv, [Next]_vars, NEW s \in Sessions,
                      session[s].writer = "pending", Open(s)'
               PROVE  /\ session[s].outputQueue # <<>>
                      /\ session'[s].outputQueue # <<>>
                      /\ Head(session'[s].outputQueue) = Head(session[s].outputQueue)
    OBVIOUS
  <2> DEFINE q == session[s].outputQueue
             next == session'[s].outputQueue
  <2>1. Open(s) /\ q # <<>> /\ q \in Seq(Lines)
    BY DEF IInv, SessionInv, Core, SessionState, Open, Stopped
  <2>2. Grows(q, next)
    <3>1. Becomes(s, session'[s])
      BY <2>1, StepBecomes
    <3>2. session'[s].sock = "open"
      BY DEF Open, Stopped
    <3> QED BY <3>1, <3>2 DEF Becomes
  <2> HIDE DEF q, next
  <2>3. next # <<>> /\ Head(next) = Head(q)
    BY <2>1, <2>2 DEF Grows
  <2> QED BY <2>1, <2>3 DEF q, next
<1> QED
  BY <1>1, Invariance, PTL DEF Safety, FrontStaysWhileWriting

(* No session is stopped but for a failure of its socket or a deadline that *)
(* has passed.                                                              *)
THEOREM StopCorrect == Safety => StopsForAReason
<1>1. IInv /\ [Next]_vars =>
        [\A s \in Sessions : (Open(s) /\ session'[s].sock = "closed") =>
           \/ session[s].reader = "failed"
           \/ session[s].writer = "failed"
           \/ \E w \in Timers : session[s].deadline[w] = 0]_vars
  BY StepBecomes DEF Becomes, Reason
<1> QED
  BY <1>1, Invariance, PTL DEF Safety, StopsForAReason

----------------------------------------------------------------------------
(* The end of a stopped session                                             *)

(* Of a stopped session nothing else is kept, and no operation waits.        *)
Quiet(r) ==
    /\ r = Remains(r)
    /\ r.waiter # "pending" /\ \A w \in Timers : r.check[w] # "pending"

QuietInv == \A s \in Sessions : session[s].sock = "closed" => Quiet(session[s])

Fewer(new, old) ==
    Outstanding(new) \subseteq Outstanding(old) /\ Outstanding(new) # Outstanding(old)

WindsUp(old, new) ==
    /\ new.sock = "closed" => Quiet(new)
    /\ old.sock = "closed" => new.sock = "closed" /\ (new = old \/ Fewer(new, old))

LEMMA OutstandingIs ==
  ASSUME NEW r \in SessionState
  PROVE  /\ "reader" \in Outstanding(r) <=> r.reader # "idle"
         /\ "writer" \in Outstanding(r) <=> r.writer # "idle"
         /\ "waiter" \in Outstanding(r) <=> r.waiter # "idle"
         /\ \A w \in Timers : w \in Outstanding(r) <=> r.check[w] # "idle"
         /\ Outstanding(r) \subseteq {"reader", "writer", "waiter"} \cup Timers
BY DEF Outstanding, Timers

LEMMA RemainsIs ==
  ASSUME NEW r \in SessionState
  PROVE  LET x == Remains(r)
         IN  /\ x \in SessionState /\ x.sock = "closed"
             /\ x.reader = (IF r.reader = "idle" THEN "idle" ELSE "failed")
             /\ x.writer = (IF r.writer = "idle" THEN "idle" ELSE "failed")
             /\ x.waiter = r.waiter /\ x.check = r.check
             /\ Remains(x) = x
<1>1. Constructed \in SessionState
  BY ConstructedInv DEF SessionInv, Core
<1> DEFINE x == Remains(r)
<1>2. /\ x \in SessionState /\ x.sock = "closed"
      /\ x.reader = (IF r.reader = "idle" THEN "idle" ELSE "failed")
      /\ x.writer = (IF r.writer = "idle" THEN "idle" ELSE "failed")
      /\ x.waiter = r.waiter /\ x.check = r.check
  BY <1>1 DEF Remains, SessionState
<1>3. Remains(x) = x
  <2> HIDE DEF x
  <2>1. /\ (IF x.reader = "idle" THEN "idle" ELSE "failed") = IF r.reader = "idle" THEN "idle" ELSE "failed"
        /\ (IF x.writer = "idle" THEN "idle" ELSE "failed") = IF r.writer = "idle" THEN "idle" ELSE "failed"
    BY <1>2
  <2>2. Remains(x) = Remains(r)
    BY <1>2, <2>1 DEF Remains
  <2> QED BY <2>2 DEF x
<1> QED
  BY <1>2, <1>3

(* What runs with r is a handler that has taken its operation from old. *)
Taken(r, old) ==
    /\ r \in SessionState /\ r.sock = old.sock
    /\ r.waiter \in {old.waiter, "idle"}
    /\ \A w \in Timers : r.check[w] \in {old.check[w], "idle"}
    /\ Fewer(r, old)

LEMMA ReplacedWindsUp ==
  ASSUME IInv, QuietInv, NEW s \in Sessions, NEW t \in Sessions, NEW x,
         session' = [session EXCEPT ![t] = x], WindsUp(session[t], x)
  PROVE  WindsUp(session[s], session'[s])
<1>1. s = t => session'[s] = x
  BY DEF IInv, TypeOK
<1>2. s # t => session'[s] = session[s]
  BY DEF IInv, TypeOK
<1> QED
  BY <1>1, <1>2 DEF WindsUp, QuietInv

LEMMA HandlerWindsUp ==
  ASSUME IInv, QuietInv, NEW s \in Sessions, NEW t \in Sessions, NEW r, NEW x,
         Taken(r, session[t]), x.sock = session[t].sock,
         Return(t, r) \/ StopSession(t, r) \/ Continue(t, x),
         Stopped(session[t]) => session[t].sock = "closed"
  PROVE  WindsUp(session[s], session'[s])
<1>1. session[t] \in SessionState /\ r \in SessionState
  BY DEF IInv, TypeOK, Taken
<1>2. CASE Return(t, r)
  <2>1. session' = [session EXCEPT ![t] = Remains(r)]
    BY <1>2 DEF Return, Set
  <2>2. session[t].sock = "closed"
    BY <1>2 DEF Return, Stopped, Taken
  <2>3. PICK y : y = Remains(r)
    OBVIOUS
  <2>4. /\ y \in SessionState /\ y.sock = "closed" /\ y = Remains(y)
        /\ y.reader = (IF r.reader = "idle" THEN "idle" ELSE "failed")
        /\ y.writer = (IF r.writer = "idle" THEN "idle" ELSE "failed")
        /\ y.waiter = r.waiter /\ y.check = r.check
    BY <1>1, <2>3, RemainsIs
  <2>5. Quiet(y)
    BY <2>2, <2>4 DEF QuietInv, Quiet, Taken
  <2>6. Outstanding(y) = Outstanding(r)
    <3>1. \A a \in {"reader", "writer", "waiter"} : a \in Outstanding(y) <=> a \in Outstanding(r)
      BY <1>1, <2>4, OutstandingIs
    <3>2. \A w \in Timers : w \in Outstanding(y) <=> w \in Outstanding(r)
      BY <1>1, <2>4, OutstandingIs
    <3>3. /\ Outstanding(y) \subseteq {"reader", "writer", "waiter"} \cup Timers
          /\ Outstanding(r) \subseteq {"reader", "writer", "waiter"} \cup Timers
      BY <1>1, <2>4, OutstandingIs
    <3> QED BY <3>1, <3>2, <3>3
  <2>7. WindsUp(session[t], y)
    BY <2>4, <2>5, <2>6 DEF WindsUp, Fewer, Taken
  <2> QED BY <2>1, <2>3, <2>7, ReplacedWindsUp
<1>3. CASE StopSession(t, r)
  <2>1. PICK z : z = Stop(r)
    OBVIOUS
  <2>2. /\ z \in SessionState /\ z.waiter = Cancel(r.waiter)
        /\ z.check = [w \in Timers |-> Cancel(r.check[w])]
    BY <1>1, <2>1, StopType DEF Stop, SessionState
  <2>3. z.waiter # "pending" /\ \A w \in Timers : z.check[w] # "pending"
    BY <1>1, <2>2, CancelType DEF SessionState
  <2>4. PICK y : y = Remains(z)
    OBVIOUS
  <2>5. y.sock = "closed" /\ y = Remains(y) /\ y.waiter = z.waiter /\ y.check = z.check
    BY <2>2, <2>4, RemainsIs
  <2>6. session' = [session EXCEPT ![t] = y] /\ session[t].sock # "closed"
    BY <1>1, <1>3, <2>1, <2>4, StopType DEF StopSession, Set, Stopped, Taken
  <2>7. WindsUp(session[t], y)
    BY <2>3, <2>5, <2>6 DEF WindsUp, Quiet
  <2> QED BY <2>6, <2>7, ReplacedWindsUp
<1>4. CASE Continue(t, x)
  <2>1. session' = [session EXCEPT ![t] = x] /\ x.sock = "open" /\ session[t].sock = "open"
    BY <1>4 DEF Continue, Set, Stopped
  <2>2. WindsUp(session[t], x)
    BY <2>1 DEF WindsUp
  <2> QED BY <2>1, <2>2, ReplacedWindsUp
<1> QED
  BY <1>2, <1>3, <1>4

LEMMA OnReadLineWindsUp ==
  ASSUME IInv, QuietInv, NEW s \in Sessions, NEW t \in Sessions, OnReadLine(t)
  PROVE  WindsUp(session[s], session'[s])
<1> DEFINE line == session[t].reader
           r == [session[t] EXCEPT !.reader = "idle"]
           x == ReadLine(Answer(r))
<1>1. /\ line # "idle"
      /\ \/ Return(t, r) \/ StopSession(t, r) \/ Continue(t, x)
         \/ line \in Messages /\ Deliver(t, r, line)
  BY DEF OnReadLine
<1>2. session[t] \in SessionState
  BY DEF IInv, TypeOK
<1>3. /\ r \in SessionState /\ r.sock = session[t].sock /\ r.reader = "idle" /\ r.writer = session[t].writer
      /\ r.waiter = session[t].waiter /\ r.check = session[t].check
  BY <1>2 DEF SessionState
<1>4. x.sock = session[t].sock
  BY <1>2 DEF ReadLine, Answer, Enqueue, SessionState
<1> HIDE DEF x
<1>5. Taken(r, session[t])
  <2> HIDE DEF r
  <2> QED BY <1>1, <1>2, <1>3, OutstandingIs DEF Taken, Fewer
<1>6. CASE Return(t, r) \/ StopSession(t, r) \/ Continue(t, x)
  BY <1>1, <1>4, <1>5, <1>6, HandlerWindsUp, BusyWhenStopped
<1>7. CASE line \in Messages /\ Deliver(t, r, line)
  <2> DEFINE base == [session EXCEPT ![t] = r]
             heard == [u \in Sessions |-> IF u \in subscribers
                                            THEN Enqueue(base[u], line) ELSE base[u]]
  <2>1. session' = [heard EXCEPT ![t] = ReadLine(@)] /\ r.sock = "open"
    BY <1>7 DEF Deliver, Stopped
  <2>2. CASE session[s].sock = "open"
    <3>1. base[s] \in SessionState /\ base[s].sock = "open"
      BY <1>3, <2>1, <2>2 DEF IInv, TypeOK
    <3> HIDE DEF base
    <3>2. heard[s].sock = "open" /\ ReadLine(heard[s]).sock = "open"
      BY <3>1 DEF Enqueue, ReadLine, SessionState
    <3>3. session'[s] \in {heard[s], ReadLine(heard[s])}
      BY <2>1
    <3> QED BY <2>2, <3>2, <3>3 DEF WindsUp
  <2>3. CASE session[s].sock # "open"
    <3>1. s # t /\ s \notin subscribers
      BY <1>3, <2>1, <2>3, BroadcasterAssumption DEF IInv, SubscribersAreOpen, Open, Stopped
    <3>2. session'[s] = session[s]
      BY <2>1, <3>1 DEF IInv, TypeOK
    <3> QED BY <3>2 DEF WindsUp, QuietInv
  <2> QED BY <2>2, <2>3
<1> QED
  BY <1>1, <1>6, <1>7

LEMMA OnAwaitOutputWindsUp ==
  ASSUME IInv, QuietInv, NEW s \in Sessions, NEW t \in Sessions, OnAwaitOutput(t)
  PROVE  WindsUp(session[s], session'[s])
<1> DEFINE r == [session[t] EXCEPT !.waiter = "idle"]
           x == IF r.outputQueue = <<>> THEN AwaitOutput([r EXCEPT !.nonEmpty = "max"])
                ELSE WriteLine(r)
<1>1. session[t].waiter # "idle" /\ (Return(t, r) \/ Continue(t, x))
  BY DEF OnAwaitOutput, Fires
<1>2. session[t] \in SessionState
  BY DEF IInv, TypeOK
<1>3. /\ r \in SessionState /\ r.sock = session[t].sock /\ x.sock = session[t].sock
      /\ r.reader = session[t].reader /\ r.writer = session[t].writer
      /\ r.waiter = "idle" /\ r.check = session[t].check
  BY <1>2 DEF SessionState, Wait, AwaitOutput, WriteLine
<1> HIDE DEF x
<1>4. Taken(r, session[t])
  <2> HIDE DEF r
  <2> QED BY <1>1, <1>2, <1>3, OutstandingIs DEF Taken, Fewer
<1> QED
  BY <1>1, <1>3, <1>4, HandlerWindsUp, BusyWhenStopped

LEMMA OnWriteLineWindsUp ==
  ASSUME IInv, QuietInv, NEW s \in Sessions, NEW t \in Sessions, OnWriteLine(t)
  PROVE  WindsUp(session[s], session'[s])
<1> DEFINE r == [session[t] EXCEPT !.writer = "idle"]
           x == AwaitOutput([r EXCEPT !.outputQueue = Tail(r.outputQueue)])
<1>1. session[t].writer # "idle" /\ (Return(t, r) \/ StopSession(t, r) \/ Continue(t, x))
  BY DEF OnWriteLine
<1>2. session[t] \in SessionState
  BY DEF IInv, TypeOK
<1>3. /\ r \in SessionState /\ r.sock = session[t].sock /\ x.sock = session[t].sock
      /\ r.reader = session[t].reader /\ r.writer = "idle"
      /\ r.waiter = session[t].waiter /\ r.check = session[t].check
  BY <1>2 DEF SessionState, AwaitOutput
<1> HIDE DEF x
<1>4. Taken(r, session[t])
  <2> HIDE DEF r
  <2> QED BY <1>1, <1>2, <1>3, OutstandingIs DEF Taken, Fewer
<1> QED
  BY <1>1, <1>3, <1>4, HandlerWindsUp, BusyWhenStopped

LEMMA OnCheckDeadlineWindsUp ==
  ASSUME IInv, QuietInv, NEW s \in Sessions, NEW t \in Sessions, NEW w \in Timers,
         OnCheckDeadline(t, w)
  PROVE  WindsUp(session[s], session'[s])
<1> DEFINE r == [session[t] EXCEPT !.check[w] = "idle"]
           x == CheckDeadline(r, w)
<1>1. session[t].check[w] # "idle" /\ (Return(t, r) \/ StopSession(t, r) \/ Continue(t, x))
  BY DEF OnCheckDeadline, Fires
<1>2. session[t] \in SessionState
  BY DEF IInv, TypeOK
<1>3. /\ r \in SessionState /\ r.sock = session[t].sock /\ x.sock = session[t].sock
      /\ r.reader = session[t].reader /\ r.writer = session[t].writer
      /\ r.waiter = session[t].waiter /\ r.check = [session[t].check EXCEPT ![w] = "idle"]
  BY <1>2 DEF SessionState, Wait, CheckDeadline
<1> HIDE DEF x
<1>4. /\ r.check[w] = "idle" /\ \A v \in Timers : v # w => r.check[v] = session[t].check[v]
  <2> HIDE DEF r
  <2> QED BY <1>2, <1>3 DEF SessionState
<1>5. Taken(r, session[t])
  <2> HIDE DEF r
  <2>1. w \in Outstanding(session[t]) /\ w \notin Outstanding(r)
    BY <1>1, <1>2, <1>3, <1>4, OutstandingIs
  <2>2. \A v \in Timers : r.check[v] \in {session[t].check[v], "idle"}
    BY <1>4
  <2>3. \A v \in Timers : v \in Outstanding(r) => v \in Outstanding(session[t])
    BY <1>2, <1>3, <2>2, OutstandingIs
  <2>4. \A a \in {"reader", "writer", "waiter"} : a \in Outstanding(r) => a \in Outstanding(session[t])
    BY <1>2, <1>3, OutstandingIs
  <2>5. Outstanding(r) \subseteq {"reader", "writer", "waiter"} \cup Timers
    BY <1>3, OutstandingIs
  <2>6. Fewer(r, session[t])
    BY <2>1, <2>3, <2>4, <2>5 DEF Fewer
  <2> QED BY <1>3, <2>2, <2>6 DEF Taken
<1> QED
  BY <1>1, <1>3, <1>5, HandlerWindsUp, BusyWhenStopped

(* The network completes no operation of a stopped session. *)
LEMMA NetworkWindsUp ==
  ASSUME IInv, QuietInv, NEW s \in Sessions, NEW t \in Sessions, Network(t)
  PROVE  WindsUp(session[s], session'[s])
<1>1. session[t] \in SessionState
  BY DEF IInv, TypeOK
<1>2. CASE Accept(t)
  <2>1. session[t] = Constructed /\ session[t].sock = "none"
    BY <1>2 DEF Accept, IInv, SessionInv
  <2>2. PICK x : x = Start(Constructed) /\ x.sock = "open"
    BY StartInv
  <2>3. session' = [session EXCEPT ![t] = x]
    BY <1>2, <2>1, <2>2 DEF Accept, Set, Stopped
  <2>4. WindsUp(session[t], x)
    BY <2>1, <2>2 DEF WindsUp
  <2> QED BY <2>3, <2>4, ReplacedWindsUp
<1>3. ASSUME session[t].reader = "pending" \/ session[t].writer = "pending"
      PROVE  session[t].sock # "closed"
  <2>1. /\ Remains(session[t]).reader # "pending" /\ Remains(session[t]).writer # "pending"
    BY <1>1, RemainsIs
  <2> QED BY <1>3, <2>1 DEF QuietInv, Quiet
<1>4. ASSUME NEW line \in Lines \cup {"failed"}, session[t].reader = "pending",
             session' = [session EXCEPT ![t].reader = line]
      PROVE  WindsUp(session[s], session'[s])
  <2>1. PICK x : x = [session[t] EXCEPT !.reader = line]
    OBVIOUS
  <2>2. session' = [session EXCEPT ![t] = x] /\ x.sock = session[t].sock
    BY <1>1, <1>4, <2>1 DEF SessionState
  <2>3. WindsUp(session[t], x)
    BY <1>3, <1>4, <2>2 DEF WindsUp
  <2> QED BY <2>2, <2>3, ReplacedWindsUp
<1>5. ASSUME NEW result \in {"sent", "failed"}, session[t].writer = "pending",
             session' = [session EXCEPT ![t].writer = result]
      PROVE  WindsUp(session[s], session'[s])
  <2>1. PICK x : x = [session[t] EXCEPT !.writer = result]
    OBVIOUS
  <2>2. session' = [session EXCEPT ![t] = x] /\ x.sock = session[t].sock
    BY <1>1, <1>5, <2>1 DEF SessionState
  <2>3. WindsUp(session[t], x)
    BY <1>3, <1>5, <2>2 DEF WindsUp
  <2> QED BY <2>2, <2>3, ReplacedWindsUp
<1> QED
  BY <1>2, <1>4, <1>5 DEF Network, LineArrives, ReadFails, LineSent, WriteFails

LEMMA StepWindsUp ==
  ASSUME IInv, QuietInv, [Next]_vars, NEW s \in Sessions
  PROVE  WindsUp(session[s], session'[s])
<1>1. CASE UNCHANGED vars
  BY <1>1 DEF vars, WindsUp, QuietInv
<1>2. CASE Tick
  <2>1. session'[s] = Countdown(session[s]) /\ session[s] \in SessionState
    BY <1>2 DEF Tick, IInv, TypeOK
  <2>2. CASE session[s].sock = "open"
    <3>1. Countdown(session[s]).sock = "open"
      BY <2>1, <2>2 DEF Countdown, SessionState
    <3> QED BY <2>1, <2>2, <3>1 DEF WindsUp
  <2>3. CASE session[s].sock # "open"
    <3>1. session'[s] = session[s]
      BY <2>1, <2>3 DEF Countdown, Stopped
    <3> QED BY <3>1 DEF WindsUp, QuietInv
  <2> QED BY <2>2, <2>3
<1>3. ASSUME NEW t \in Sessions, Handlers(t) PROVE WindsUp(session[s], session'[s])
  BY <1>3, OnReadLineWindsUp, OnAwaitOutputWindsUp, OnWriteLineWindsUp,
     OnCheckDeadlineWindsUp DEF Handlers
<1>4. ASSUME NEW t \in Sessions, Network(t) PROVE WindsUp(session[s], session'[s])
  BY <1>4, NetworkWindsUp
<1> QED
  BY <1>1, <1>2, <1>3, <1>4 DEF Next

(* Nothing but Destroyed is left without an operation. *)
LEMMA QuietIs ==
  ASSUME NEW r \in SessionState, Quiet(r)
  PROVE  Ready(r) /\ (Outstanding(r) = {} => r = Destroyed)
<1>1. r = Remains(r) /\ r.reader \in {"idle", "failed"} /\ r.writer \in {"idle", "failed"}
  BY RemainsIs DEF Quiet
<1>2. Ready(r)
  BY <1>1 DEF Ready, Quiet
<1>3. ASSUME Outstanding(r) = {} PROVE r = Destroyed
  <2>1. /\ r.reader = "idle" /\ r.writer = "idle" /\ r.waiter = "idle"
        /\ \A w \in Timers : r.check[w] = "idle"
    BY <1>3, OutstandingIs
  <2>2. r.check = [w \in Timers |-> "idle"]
    BY <2>1 DEF SessionState
  <2>3. Constructed \in SessionState
    BY ConstructedInv DEF SessionInv, Core
  <2>4. /\ Remains(r).sock = "closed" /\ Remains(r).nonEmpty = Constructed.nonEmpty
        /\ Remains(r).deadline = Constructed.deadline
        /\ Remains(r).outputQueue = Constructed.outputQueue
    BY <2>3 DEF Remains, SessionState
  <2>5. /\ Destroyed \in SessionState /\ Destroyed.sock = "closed"
        /\ \A f \in {"reader", "writer", "waiter", "check", "nonEmpty", "deadline", "outputQueue"} :
             Destroyed[f] = Constructed[f]
    BY <2>3 DEF Destroyed, SessionState
  <2>6. /\ Constructed.reader = "idle" /\ Constructed.writer = "idle" /\ Constructed.waiter = "idle"
        /\ Constructed.check = [w \in Timers |-> "idle"]
    BY DEF Constructed
  <2>7. \A f \in {"sock", "reader", "writer", "waiter", "check", "nonEmpty", "deadline", "outputQueue"} :
           r[f] = Destroyed[f]
    BY <1>1, <2>1, <2>2, <2>4, <2>5, <2>6
  <2> QED
    BY <2>5, <2>7 DEF SessionState
<1> QED
  BY <1>2, <1>3

(* A stopped session waits for nothing that may not come, and each of its    *)
(* handlers leaves fewer: what its destruction rests on, for any number of   *)
(* sessions, messages and ticks (lines 153-156, 188-191, 230-233).           *)
THEOREM WindingUpCorrect == Safety => StoppedSessionWindsUp
<1>1. Init => QuietInv
  BY DEF Init, QuietInv, Constructed
<1>2. IInv /\ QuietInv /\ [Next]_vars => QuietInv'
  BY StepWindsUp DEF WindsUp, QuietInv
<1>3. IInv /\ QuietInv /\ [Next]_vars /\ IInv' =>
        [\A s \in Sessions :
           /\ session'[s].sock = "closed" =>
                 /\ Ready(session'[s])
                 /\ Outstanding(session'[s]) = {} => session'[s] = Destroyed
           /\ session[s].sock = "closed" =>
                 /\ session'[s].sock = "closed"
                 /\ \/ session'[s] = session[s]
                    \/ /\ Outstanding(session'[s]) \subseteq Outstanding(session[s])
                       /\ Outstanding(session'[s]) # Outstanding(session[s])]_vars
  <2> SUFFICES ASSUME IInv, QuietInv, [Next]_vars, IInv', NEW s \in Sessions
               PROVE  /\ session'[s].sock = "closed" =>
                            /\ Ready(session'[s])
                            /\ Outstanding(session'[s]) = {} => session'[s] = Destroyed
                      /\ session[s].sock = "closed" =>
                            /\ session'[s].sock = "closed"
                            /\ session'[s] = session[s] \/ Fewer(session'[s], session[s])
    BY DEF Fewer
  <2>1. WindsUp(session[s], session'[s])
    BY StepWindsUp
  <2>2. session'[s] \in SessionState
    BY DEF IInv, TypeOK
  <2> QED BY <2>1, <2>2, QuietIs DEF WindsUp
<1> QED
  BY <1>1, <1>2, <1>3, Invariance, PTL DEF Safety, StoppedSessionWindsUp

=============================================================================
