-------------------------- MODULE TcpClientProofs --------------------------
(***************************************************************************)
(* Proofs about TcpClient, for any number of endpoints and any time-outs:  *)
(* no actor dies before stop(), a socket is closed only for a reason, and  *)
(* a connect that came too late is no connection.                          *)
(***************************************************************************)
EXTENDS TcpClient, TLAPS

\* While it connects the client does nothing else; then a read is outstanding,
\* and either a heartbeat or the wait for the next one.
OneThingAtATime ==
    /\ client.connect # "idle" =>
          client.reader = "idle" /\ client.writer = "idle" /\ client.beat = "idle"
    /\ client.reader # "idle" /\ ~client.stopped =>
          (client.writer = "idle") # (client.beat = "idle")

BeforeStart ==
    client.endpoint = 0 =>
       /\ client.connect = "idle" /\ client.reader = "idle"
       /\ client.writer = "idle" /\ client.beat = "idle"
       /\ ~client.open

DeadlineWatched == client.endpoint # 0 /\ ~client.stopped => client.check # "idle"

\* What the counters of the record rely on.
InRange ==
    /\ client.connect # "idle" => client.endpoint \in 1..Endpoints
    /\ client.reader = "done" => client.buffered > 0

IInv == TypeOK /\ OneThingAtATime /\ BeforeStart /\ DeadlineWatched /\ InRange

LEMMA Numbers ==
    /\ Endpoints \in Nat
    /\ ConnectTimeout \in Nat \ {0} /\ ReadTimeout \in Nat \ {0}
    /\ HeartbeatPeriod \in Nat \ {0} /\ MaxBuffered \in Nat \ {0}
    /\ Forever \in Nat /\ ConnectTimeout <= Forever /\ ReadTimeout <= Forever
BY ClientAssumption DEF Forever

LEMMA InitIInv == Init => IInv
BY Numbers DEF Init, IInv, TypeOK, ClientState, IO, Wait, OneThingAtATime,
   BeforeStart, DeadlineWatched, InRange

----------------------------------------------------------------------------
(* What the helpers make of a record *)

LEMMA AbortFacts ==
    ASSUME NEW op \in IO
    PROVE  Abort(op) \in IO /\ (Abort(op) = "idle" <=> op = "idle") /\ (Abort(op) = "done" <=> op = "done")
BY Zenon DEF Abort, IO

LEMMA CancelFacts ==
    ASSUME NEW wait \in Wait
    PROVE  Cancel(wait) \in Wait /\ (Cancel(wait) = "idle" <=> wait = "idle")
BY Zenon DEF Cancel, Wait

LEMMA IdleStays == Abort("idle") = "idle" /\ Cancel("idle") = "idle"
BY Zenon DEF Abort, Cancel

LEMMA CloseFields ==
    ASSUME NEW c \in ClientState, NEW s, s = Close(c)
    PROVE  /\ s \in ClientState
           /\ s.open = FALSE
           /\ s.connect = Abort(c.connect) /\ s.reader = Abort(c.reader) /\ s.writer = Abort(c.writer)
           /\ s.stopped = c.stopped /\ s.endpoint = c.endpoint /\ s.beat = c.beat
           /\ s.check = c.check /\ s.buffered = c.buffered
<1>1. c.connect \in IO /\ c.reader \in IO /\ c.writer \in IO
    BY DEF ClientState
<1>2. Abort(c.connect) \in IO /\ Abort(c.reader) \in IO /\ Abort(c.writer) \in IO
    BY <1>1, AbortFacts
<1> QED BY <1>2 DEF Close, ClientState

LEMMA StopFields ==
    ASSUME NEW c \in ClientState, NEW s, s = Stop(c)
    PROVE  /\ s \in ClientState
           /\ s.open = FALSE /\ s.stopped = TRUE
           /\ s.connect = Abort(c.connect) /\ s.reader = Abort(c.reader) /\ s.writer = Abort(c.writer)
           /\ s.check = Cancel(c.check) /\ s.beat = Cancel(c.beat)
           /\ s.endpoint = c.endpoint /\ s.buffered = c.buffered
<1> DEFINE d == Close(c)
<1>1. /\ d \in ClientState
      /\ d.open = FALSE
      /\ d.connect = Abort(c.connect) /\ d.reader = Abort(c.reader) /\ d.writer = Abort(c.writer)
      /\ d.endpoint = c.endpoint /\ d.beat = c.beat
      /\ d.check = c.check /\ d.buffered = c.buffered
    BY CloseFields
<1>2. s = [d EXCEPT !.stopped = TRUE, !.check = Cancel(d.check), !.beat = Cancel(d.beat)]
    BY DEF Stop
<1> HIDE DEF d
<1>3. Cancel(d.check) \in Wait /\ Cancel(d.beat) \in Wait
    BY <1>1, CancelFacts DEF ClientState
<1> QED BY <1>1, <1>2, <1>3 DEF ClientState

LEMMA SetDeadlineFields ==
    ASSUME NEW c \in ClientState, NEW ticks \in 0..Forever, NEW s, s = SetDeadline(c, ticks)
    PROVE  /\ s \in ClientState
           /\ s.check = Cancel(c.check)
           /\ s.open = c.open /\ s.stopped = c.stopped /\ s.connect = c.connect
           /\ s.reader = c.reader /\ s.writer = c.writer /\ s.beat = c.beat
           /\ s.endpoint = c.endpoint /\ s.buffered = c.buffered
<1>1. Cancel(c.check) \in Wait
    BY CancelFacts DEF ClientState
<1> QED BY <1>1 DEF SetDeadline, ClientState

\* An attempt at an endpoint that exists.
LEMMA StartConnectFields ==
    ASSUME NEW c \in ClientState, NEW e \in 1..Endpoints, NEW s, s = StartConnect(c, e)
    PROVE  /\ s \in ClientState
           /\ s.endpoint = e /\ s.connect = "pending"
           /\ s.check = Cancel(c.check)
           /\ s.stopped = c.stopped /\ s.reader = c.reader /\ s.writer = c.writer
           /\ s.beat = c.beat /\ s.buffered = c.buffered
<1> DEFINE next == [c EXCEPT !.endpoint = e]
           d == SetDeadline(next, ConnectTimeout)
<1>1. e <= Endpoints /\ e \in 0..Endpoints + 1 /\ ConnectTimeout \in 0..Forever
    BY Numbers
<1>2. /\ next \in ClientState
      /\ next.endpoint = e /\ next.check = c.check /\ next.stopped = c.stopped
      /\ next.reader = c.reader /\ next.writer = c.writer /\ next.beat = c.beat
      /\ next.buffered = c.buffered
    BY <1>1 DEF ClientState
<1>3. s = [d EXCEPT !.open = TRUE, !.connect = "pending"]
    BY <1>1, Zenon DEF StartConnect
<1> HIDE DEF next
<1>4. /\ d \in ClientState /\ d.check = Cancel(next.check)
      /\ d.stopped = next.stopped /\ d.reader = next.reader /\ d.writer = next.writer
      /\ d.beat = next.beat /\ d.endpoint = next.endpoint /\ d.buffered = next.buffered
    BY <1>1, <1>2, SetDeadlineFields
<1> HIDE DEF d
<1>5. /\ s \in ClientState /\ s.open = TRUE /\ s.connect = "pending"
      /\ s.check = d.check /\ s.stopped = d.stopped /\ s.reader = d.reader
      /\ s.writer = d.writer /\ s.beat = d.beat /\ s.endpoint = d.endpoint
      /\ s.buffered = d.buffered
  <2>1. d \in ClientState
      BY <1>4
  <2> QED BY <1>3, <2>1 DEF ClientState, IO
<1> QED BY <1>2, <1>4, <1>5, Zenon

\* The endpoints are exhausted.
LEMMA StartConnectEnds ==
    ASSUME NEW c \in ClientState, NEW s, s = StartConnect(c, Endpoints + 1)
    PROVE  /\ s \in ClientState
           /\ s.endpoint = Endpoints + 1 /\ s.open = FALSE /\ s.stopped = TRUE
           /\ s.connect = Abort(c.connect) /\ s.reader = Abort(c.reader) /\ s.writer = Abort(c.writer)
           /\ s.beat = Cancel(c.beat) /\ s.buffered = c.buffered
<1> DEFINE next == [c EXCEPT !.endpoint = Endpoints + 1]
<1>1. /\ next \in ClientState
      /\ next.endpoint = Endpoints + 1
      /\ next.connect = c.connect /\ next.reader = c.reader /\ next.writer = c.writer
      /\ next.beat = c.beat /\ next.buffered = c.buffered
    BY Numbers DEF ClientState
<1>2. s = Stop(next)
  <2>1. ~(Endpoints + 1 <= Endpoints)
      BY Numbers
  <2> QED BY <2>1, Zenon DEF StartConnect
<1> HIDE DEF next
<1>3. /\ s \in ClientState
      /\ s.open = FALSE /\ s.stopped = TRUE
      /\ s.connect = Abort(next.connect) /\ s.reader = Abort(next.reader)
      /\ s.writer = Abort(next.writer) /\ s.beat = Cancel(next.beat)
      /\ s.endpoint = next.endpoint /\ s.buffered = next.buffered
  <2>1. next \in ClientState
      BY <1>1
  <2> QED BY <1>2, <2>1, StopFields
<1> QED BY <1>1, <1>3, Zenon

LEMMA StartReadFields ==
    ASSUME NEW c \in ClientState, NEW s, s = StartRead(c)
    PROVE  /\ s \in ClientState
           /\ s.reader # "idle" /\ (s.reader = "done" => s.buffered > 0)
           /\ s.check = Cancel(c.check)
           /\ s.open = c.open /\ s.stopped = c.stopped /\ s.connect = c.connect
           /\ s.writer = c.writer /\ s.beat = c.beat
           /\ s.endpoint = c.endpoint /\ s.buffered = c.buffered
<1> DEFINE d == SetDeadline(c, ReadTimeout)
           r == IF c.buffered > 0 THEN "done" ELSE IF c.open THEN "pending" ELSE "failed"
<1>1. ReadTimeout \in 0..Forever
    BY Numbers
<1>2. /\ d \in ClientState /\ d.check = Cancel(c.check)
      /\ d.open = c.open /\ d.stopped = c.stopped /\ d.connect = c.connect
      /\ d.writer = c.writer /\ d.beat = c.beat
      /\ d.endpoint = c.endpoint /\ d.buffered = c.buffered
    BY <1>1, SetDeadlineFields
<1>3. s = [d EXCEPT !.reader = r]
    BY DEF StartRead
<1>4. r \in IO /\ r # "idle" /\ (r = "done" => c.buffered > 0)
    BY Zenon DEF IO
<1> HIDE DEF d, r
<1> QED BY <1>2, <1>3, <1>4 DEF ClientState

LEMMA StartWriteFields ==
    ASSUME NEW c \in ClientState, NEW s, s = StartWrite(c)
    PROVE  /\ s \in ClientState
           /\ c.stopped => s = c
           /\ ~c.stopped => s.writer # "idle"
           /\ s.check = c.check
           /\ s.open = c.open /\ s.stopped = c.stopped /\ s.connect = c.connect
           /\ s.reader = c.reader /\ s.beat = c.beat
           /\ s.endpoint = c.endpoint /\ s.buffered = c.buffered
<1>1. CASE c.stopped
    BY <1>1 DEF StartWrite
<1>2. CASE ~c.stopped
    BY <1>2 DEF StartWrite, ClientState, IO
<1> QED BY <1>1, <1>2

----------------------------------------------------------------------------
(* The actions preserve the invariant *)

\* What an attempt at the next endpoint leaves, or the end of the endpoints.
LEMMA NextEndpoint ==
    ASSUME NEW c \in ClientState, NEW e \in 1..Endpoints + 1,
           c.connect = "idle", c.reader = "idle", c.writer = "idle", c.beat = "idle",
           NEW s, s = StartConnect(c, e)
    PROVE  /\ s \in ClientState
           /\ s.reader = "idle" /\ s.writer = "idle" /\ s.beat = "idle"
           /\ s.endpoint # 0
           /\ s.connect # "idle" => s.endpoint \in 1..Endpoints
           /\ ~s.stopped => (c.check # "idle" => s.check # "idle")
<1>1. CASE e \in 1..Endpoints
  <2>1. /\ s \in ClientState /\ s.endpoint = e /\ s.check = Cancel(c.check)
        /\ s.reader = c.reader /\ s.writer = c.writer /\ s.beat = c.beat
      BY <1>1, StartConnectFields
  <2>2. c.check \in Wait
      BY DEF ClientState
  <2>3. e # 0
      BY <1>1
  <2> QED BY <1>1, <2>1, <2>2, <2>3, CancelFacts, Zenon
<1>2. CASE e = Endpoints + 1
  <2>1. /\ s \in ClientState /\ s.endpoint = e /\ s.stopped = TRUE
        /\ s.connect = Abort(c.connect) /\ s.reader = Abort(c.reader)
        /\ s.writer = Abort(c.writer) /\ s.beat = Cancel(c.beat)
      BY <1>2, StartConnectEnds
  <2>2. e # 0
      BY <1>2, Numbers
  <2> QED BY <2>1, <2>2, IdleStays, Zenon
<1> QED BY <1>1, <1>2, Numbers

LEMMA StartIInv == ASSUME IInv, Start PROVE IInv'
<1> DEFINE d == StartConnect(client, 1)
<1>1. /\ client \in ClientState /\ client.connect = "idle" /\ client.reader = "idle"
      /\ client.writer = "idle" /\ client.beat = "idle"
    BY Zenon DEF IInv, TypeOK, BeforeStart, Start
<1>2. 1 \in 1..Endpoints + 1
    BY Numbers
<1>3. /\ d \in ClientState
      /\ d.reader = "idle" /\ d.writer = "idle" /\ d.beat = "idle"
      /\ d.endpoint # 0
      /\ d.connect # "idle" => d.endpoint \in 1..Endpoints
    BY <1>1, <1>2, NextEndpoint
<1>4. client' = [d EXCEPT !.check = "pending"]
    BY DEF Start
<1> HIDE DEF d
<1>5. /\ client' \in ClientState
      /\ client'.reader = d.reader /\ client'.writer = d.writer /\ client'.beat = d.beat
      /\ client'.endpoint = d.endpoint /\ client'.connect = d.connect
      /\ client'.check = "pending"
  <2>1. d \in ClientState
      BY <1>3
  <2> QED BY <1>4, <2>1 DEF ClientState, Wait
<1> QED BY <1>3, <1>5, Zenon
    DEF IInv, TypeOK, OneThingAtATime, BeforeStart, DeadlineWatched, InRange

LEMMA HandleConnectIInv == ASSUME IInv, HandleConnect PROVE IInv'
<1> DEFINE c == [client EXCEPT !.connect = "idle"]
<1>1. client \in ClientState /\ client.connect # "idle"
    BY Zenon DEF IInv, TypeOK, HandleConnect
<1>2. /\ c \in ClientState
      /\ c.connect = "idle" /\ c.reader = client.reader /\ c.writer = client.writer
      /\ c.beat = client.beat /\ c.check = client.check /\ c.stopped = client.stopped
      /\ c.endpoint = client.endpoint /\ c.open = client.open /\ c.buffered = client.buffered
    BY <1>1 DEF ClientState, IO
<1>3. /\ client.reader = "idle" /\ client.writer = "idle" /\ client.beat = "idle"
      /\ client.endpoint \in 1..Endpoints
      /\ ~client.stopped => client.check # "idle"
  <2>1. client.endpoint \in 1..Endpoints
      BY <1>1, Zenon DEF IInv, InRange
  <2>2. client.endpoint # 0
      BY <2>1
  <2> QED BY <1>1, <2>1, <2>2, Zenon DEF IInv, OneThingAtATime, DeadlineWatched
<1>4. client' = IF c.stopped THEN c
                ELSE IF ~c.open THEN StartConnect(c, c.endpoint + 1)
                ELSE IF client.connect = "failed" THEN Close(c)
                ELSE StartWrite(StartRead(c))
    BY Zenon DEF HandleConnect
<1> HIDE DEF c
<1>5. client.check \in Wait
    BY <1>1 DEF ClientState
<1>6. client.endpoint # 0
    BY <1>3
<1>7. CASE c.stopped
  <2>1. client' = c
      BY <1>4, <1>7, Zenon
  <2> QED BY <1>2, <1>3, <1>6, <1>7, <2>1, Zenon
      DEF IInv, TypeOK, OneThingAtATime, BeforeStart, DeadlineWatched, InRange
<1>8. CASE ~c.stopped /\ ~c.open
  <2>1. client' = StartConnect(c, c.endpoint + 1)
      BY <1>4, <1>8, Zenon
  <2>2. c.endpoint + 1 \in 1..Endpoints + 1
      BY <1>2, <1>3, Numbers
  <2>3. /\ client' \in ClientState
        /\ client'.reader = "idle" /\ client'.writer = "idle" /\ client'.beat = "idle"
        /\ client'.endpoint # 0
        /\ client'.connect # "idle" => client'.endpoint \in 1..Endpoints
        /\ ~client'.stopped => client'.check # "idle"
    <3>1. c.check # "idle" /\ c.connect = "idle" /\ c.reader = "idle" /\ c.writer = "idle"
          /\ c.beat = "idle" /\ c \in ClientState
        BY <1>2, <1>3, <1>8, Zenon
    <3> QED BY <2>1, <2>2, <3>1, NextEndpoint
  <2> QED BY <2>3, Zenon
      DEF IInv, TypeOK, OneThingAtATime, BeforeStart, DeadlineWatched, InRange
<1>9. CASE ~c.stopped /\ c.open /\ client.connect = "failed"
  <2>1. client' = Close(c)
      BY <1>4, <1>9, Zenon
  <2>2. /\ client' \in ClientState
        /\ client'.connect = Abort(c.connect) /\ client'.reader = Abort(c.reader)
        /\ client'.writer = Abort(c.writer) /\ client'.beat = c.beat
        /\ client'.endpoint = c.endpoint /\ client'.check = c.check
      BY <1>2, <2>1, CloseFields
  <2>3. client'.connect = "idle" /\ client'.reader = "idle" /\ client'.writer = "idle"
      BY <1>2, <1>3, <2>2, IdleStays, Zenon
  <2> QED BY <1>2, <1>3, <1>6, <1>9, <2>2, <2>3, Zenon
      DEF IInv, TypeOK, OneThingAtATime, BeforeStart, DeadlineWatched, InRange
<1>10. CASE ~c.stopped /\ c.open /\ client.connect # "failed"
  <2> DEFINE d == StartRead(c)
  <2>1. client' = StartWrite(d)
      BY <1>4, <1>10, Zenon
  <2>2. /\ d \in ClientState
        /\ d.reader # "idle" /\ (d.reader = "done" => d.buffered > 0)
        /\ d.check = Cancel(c.check) /\ d.stopped = c.stopped /\ d.connect = c.connect
        /\ d.beat = c.beat /\ d.endpoint = c.endpoint
      BY <1>2, StartReadFields
  <2> HIDE DEF d
  <2>3. /\ client' \in ClientState
        /\ ~d.stopped => client'.writer # "idle"
        /\ client'.check = d.check /\ client'.stopped = d.stopped
        /\ client'.connect = d.connect /\ client'.reader = d.reader /\ client'.beat = d.beat
        /\ client'.endpoint = d.endpoint /\ client'.buffered = d.buffered
      BY <2>1, <2>2, StartWriteFields
  <2>4. d.check # "idle"
      BY <1>2, <1>3, <1>5, <1>10, <2>2, CancelFacts, Zenon
  <2> QED BY <1>2, <1>3, <1>6, <1>10, <2>2, <2>3, <2>4, Zenon
      DEF IInv, TypeOK, OneThingAtATime, BeforeStart, DeadlineWatched, InRange
<1> QED BY <1>7, <1>8, <1>9, <1>10, Zenon

\* After stop() whatever is outstanding is only to be released.
LEMMA StoppedKeeps ==
    ASSUME NEW c \in ClientState, c.endpoint # 0, c.connect = "idle", NEW s, s = Stop(c)
    PROVE  /\ s \in ClientState /\ s.stopped /\ s.connect = "idle" /\ s.endpoint # 0
           /\ s.reader = "done" => c.reader = "done"
           /\ s.buffered = c.buffered
<1>1. /\ s \in ClientState /\ s.stopped = TRUE
      /\ s.connect = Abort(c.connect) /\ s.reader = Abort(c.reader)
      /\ s.endpoint = c.endpoint /\ s.buffered = c.buffered
    BY StopFields
<1>2. c.reader \in IO
    BY DEF ClientState
<1> QED BY <1>1, <1>2, IdleStays, AbortFacts, Zenon

LEMMA HandleReadIInv == ASSUME IInv, HandleRead PROVE IInv'
<1> DEFINE c == [client EXCEPT !.reader = "idle"]
<1>1. client \in ClientState /\ client.reader # "idle"
    BY Zenon DEF IInv, TypeOK, HandleRead
<1>2. /\ c \in ClientState
      /\ c.connect = client.connect /\ c.reader = "idle" /\ c.writer = client.writer
      /\ c.beat = client.beat /\ c.check = client.check /\ c.stopped = client.stopped
      /\ c.endpoint = client.endpoint /\ c.open = client.open /\ c.buffered = client.buffered
    BY <1>1 DEF ClientState, IO
<1>3. client.connect = "idle" /\ client.endpoint # 0
    BY <1>1, Zenon DEF IInv, OneThingAtATime, BeforeStart
<1>4. \/ c.stopped /\ client' = c
      \/ client.reader = "done" /\ ~c.stopped /\ client' = StartRead([c EXCEPT !.buffered = @ - 1])
      \/ ~c.stopped /\ client' = Stop(c)
    BY Zenon DEF HandleRead
<1> HIDE DEF c
<1>5. CASE c.stopped /\ client' = c
    BY <1>2, <1>3, <1>5, Zenon
    DEF IInv, TypeOK, OneThingAtATime, BeforeStart, DeadlineWatched, InRange
<1>6. CASE client.reader = "done" /\ ~c.stopped /\ client' = StartRead([c EXCEPT !.buffered = @ - 1])
  <2> DEFINE d == [c EXCEPT !.buffered = c.buffered - 1]
  <2>1. c.buffered > 0
      BY <1>2, <1>6, Zenon DEF IInv, InRange
  <2>2. /\ d \in ClientState
        /\ d.connect = c.connect /\ d.writer = c.writer /\ d.beat = c.beat
        /\ d.check = c.check /\ d.stopped = c.stopped /\ d.endpoint = c.endpoint
    <3>1. c.buffered - 1 \in 0..MaxBuffered
        BY <1>2, <2>1, Numbers DEF ClientState
    <3> QED BY <1>2, <3>1 DEF ClientState
  <2>3. client' = StartRead(d)
      BY <1>6, Zenon
  <2> HIDE DEF d
  <2>4. /\ client' \in ClientState
        /\ client'.reader # "idle" /\ (client'.reader = "done" => client'.buffered > 0)
        /\ client'.check = Cancel(d.check)
        /\ client'.stopped = d.stopped /\ client'.connect = d.connect
        /\ client'.writer = d.writer /\ client'.beat = d.beat
        /\ client'.endpoint = d.endpoint
      BY <2>2, <2>3, StartReadFields
  <2>5. d.check \in Wait /\ d.check # "idle"
    <3>1. d.check # "idle"
        BY <1>2, <1>3, <1>6, <2>2, Zenon DEF IInv, DeadlineWatched
    <3> QED BY <2>2, <3>1 DEF ClientState
  <2>6. client'.check # "idle"
      BY <2>4, <2>5, CancelFacts, Zenon
  <2>7. (client.writer = "idle") # (client.beat = "idle")
      BY <1>1, <1>2, <1>6, Zenon DEF IInv, OneThingAtATime
  <2>8. client'.writer = client.writer /\ client'.beat = client.beat
      BY <1>2, <2>2, <2>4, Zenon
  <2>9. (client'.writer = "idle") # (client'.beat = "idle")
      BY <2>7, <2>8
  <2> QED BY <1>2, <1>3, <1>6, <2>2, <2>4, <2>6, <2>9, Zenon
      DEF IInv, TypeOK, OneThingAtATime, BeforeStart, DeadlineWatched, InRange
<1>7. CASE ~c.stopped /\ client' = Stop(c)
  <2>1. c.endpoint # 0 /\ c.connect = "idle" /\ c.reader # "done"
      BY <1>2, <1>3, Zenon
  <2>2. /\ client' \in ClientState /\ client'.stopped /\ client'.connect = "idle"
        /\ client'.endpoint # 0 /\ (client'.reader = "done" => c.reader = "done")
      BY <1>2, <1>7, <2>1, StoppedKeeps
  <2> QED BY <2>1, <2>2, Zenon
      DEF IInv, TypeOK, OneThingAtATime, BeforeStart, DeadlineWatched, InRange
<1> QED BY <1>4, <1>5, <1>6, <1>7, Zenon

LEMMA HandleWriteIInv == ASSUME IInv, HandleWrite PROVE IInv'
<1> DEFINE c == [client EXCEPT !.writer = "idle"]
<1>1. client \in ClientState /\ client.writer # "idle"
    BY Zenon DEF IInv, TypeOK, HandleWrite
<1>2. /\ c \in ClientState
      /\ c.connect = client.connect /\ c.reader = client.reader /\ c.writer = "idle"
      /\ c.beat = client.beat /\ c.check = client.check /\ c.stopped = client.stopped
      /\ c.endpoint = client.endpoint /\ c.open = client.open /\ c.buffered = client.buffered
    BY <1>1 DEF ClientState, IO
<1>3. client.connect = "idle" /\ client.endpoint # 0
    BY <1>1, Zenon DEF IInv, OneThingAtATime, BeforeStart
<1>4. \/ c.stopped /\ client' = c
      \/ ~c.stopped /\ client' = [c EXCEPT !.heartbeat = HeartbeatPeriod, !.beat = "pending"]
      \/ ~c.stopped /\ client' = Stop(c)
    BY Zenon DEF HandleWrite
<1> HIDE DEF c
<1>5. CASE c.stopped /\ client' = c
    BY <1>2, <1>3, <1>5, Zenon
    DEF IInv, TypeOK, OneThingAtATime, BeforeStart, DeadlineWatched, InRange
<1>6. CASE ~c.stopped /\ client' = [c EXCEPT !.heartbeat = HeartbeatPeriod, !.beat = "pending"]
  <2>1. /\ client' \in ClientState
        /\ client'.connect = c.connect /\ client'.reader = c.reader /\ client'.writer = c.writer
        /\ client'.beat = "pending" /\ client'.check = c.check /\ client'.stopped = c.stopped
        /\ client'.endpoint = c.endpoint /\ client'.buffered = c.buffered
    <3>1. HeartbeatPeriod \in 0..HeartbeatPeriod /\ "pending" \in Wait
        BY Numbers DEF Wait
    <3>2. client' = [c EXCEPT !.heartbeat = HeartbeatPeriod, !.beat = "pending"]
        BY <1>6, Zenon
    <3> QED BY <1>2, <3>1, <3>2 DEF ClientState
  <2> QED BY <1>2, <1>3, <1>6, <2>1, Zenon
      DEF IInv, TypeOK, OneThingAtATime, BeforeStart, DeadlineWatched, InRange
<1>7. CASE ~c.stopped /\ client' = Stop(c)
  <2>1. c.endpoint # 0 /\ c.connect = "idle"
      BY <1>2, <1>3, Zenon
  <2>2. /\ client' \in ClientState /\ client'.stopped /\ client'.connect = "idle"
        /\ client'.endpoint # 0 /\ (client'.reader = "done" => c.reader = "done")
        /\ client'.buffered = c.buffered
      BY <1>2, <1>7, <2>1, StoppedKeeps
  <2> QED BY <1>2, <2>1, <2>2, Zenon
      DEF IInv, TypeOK, OneThingAtATime, BeforeStart, DeadlineWatched, InRange
<1> QED BY <1>4, <1>5, <1>6, <1>7, Zenon

LEMMA HeartbeatIInv == ASSUME IInv, Heartbeat PROVE IInv'
<1> DEFINE c == [client EXCEPT !.beat = "idle"]
<1>1. client \in ClientState /\ client.beat # "idle" /\ client' = StartWrite(c)
    BY Zenon DEF IInv, TypeOK, Heartbeat, Fires
<1>2. /\ c \in ClientState
      /\ c.connect = client.connect /\ c.reader = client.reader /\ c.writer = client.writer
      /\ c.beat = "idle" /\ c.check = client.check /\ c.stopped = client.stopped
      /\ c.endpoint = client.endpoint /\ c.buffered = client.buffered
    BY <1>1 DEF ClientState, Wait
<1>3. client.connect = "idle" /\ client.endpoint # 0
    BY <1>1, Zenon DEF IInv, OneThingAtATime, BeforeStart
<1> HIDE DEF c
<1>4. /\ client' \in ClientState
      /\ c.stopped => client' = c
      /\ ~c.stopped => client'.writer # "idle"
      /\ client'.check = c.check /\ client'.stopped = c.stopped /\ client'.connect = c.connect
      /\ client'.reader = c.reader /\ client'.beat = c.beat
      /\ client'.endpoint = c.endpoint /\ client'.buffered = c.buffered
    BY <1>1, <1>2, StartWriteFields
<1> QED BY <1>2, <1>3, <1>4, Zenon
    DEF IInv, TypeOK, OneThingAtATime, BeforeStart, DeadlineWatched, InRange

LEMMA CheckDeadlineIInv == ASSUME IInv, CheckDeadline PROVE IInv'
<1> DEFINE c == [client EXCEPT !.check = "idle"]
           d == [Close(c) EXCEPT !.deadline = Forever]
<1>1. client \in ClientState /\ client.check # "idle"
    BY Zenon DEF IInv, TypeOK, CheckDeadline, Fires
<1>2. /\ c \in ClientState
      /\ c.connect = client.connect /\ c.reader = client.reader /\ c.writer = client.writer
      /\ c.beat = client.beat /\ c.check = "idle" /\ c.stopped = client.stopped
      /\ c.endpoint = client.endpoint /\ c.buffered = client.buffered /\ c.open = client.open
    BY <1>1 DEF ClientState, Wait
<1>3. \/ c.stopped /\ client' = c
      \/ client' = [d EXCEPT !.check = "pending"]
      \/ client' = [c EXCEPT !.check = "pending"]
    BY Zenon DEF CheckDeadline
<1>4. /\ d \in ClientState
      /\ d.connect = Abort(c.connect) /\ d.reader = Abort(c.reader) /\ d.writer = Abort(c.writer)
      /\ d.beat = c.beat /\ d.stopped = c.stopped
      /\ d.endpoint = c.endpoint /\ d.buffered = c.buffered /\ ~d.open
  <2> DEFINE b == Close(c)
  <2>1. /\ b \in ClientState
        /\ b.connect = Abort(c.connect) /\ b.reader = Abort(c.reader) /\ b.writer = Abort(c.writer)
        /\ b.stopped = c.stopped /\ b.endpoint = c.endpoint /\ b.beat = c.beat
        /\ b.buffered = c.buffered /\ ~b.open
      BY <1>2, CloseFields
  <2>2. d = [b EXCEPT !.deadline = Forever]
      OBVIOUS
  <2> HIDE DEF b, c, d
  <2>3. Forever \in 0..Forever
      BY Numbers
  <2> QED BY <2>1, <2>2, <2>3 DEF ClientState
<1> HIDE DEF c, d
<1>5. CASE c.stopped /\ client' = c
    BY <1>2, <1>5, Zenon
    DEF IInv, TypeOK, OneThingAtATime, BeforeStart, DeadlineWatched, InRange
<1>6. CASE client' = [d EXCEPT !.check = "pending"]
  <2>1. /\ client' \in ClientState
        /\ client'.connect = d.connect /\ client'.reader = d.reader /\ client'.writer = d.writer
        /\ client'.beat = d.beat /\ client'.check = "pending" /\ client'.stopped = d.stopped
        /\ client'.endpoint = d.endpoint /\ client'.buffered = d.buffered /\ ~client'.open
      BY <1>4, <1>6 DEF ClientState, Wait
  <2>2. c.connect \in IO /\ c.reader \in IO /\ c.writer \in IO
      BY <1>2 DEF ClientState
  <2>3. /\ client'.connect = "idle" <=> client.connect = "idle"
        /\ client'.reader = "idle" <=> client.reader = "idle"
        /\ client'.writer = "idle" <=> client.writer = "idle"
        /\ client'.reader = "done" <=> client.reader = "done"
    <3>1. (Abort(c.connect) = "idle" <=> c.connect = "idle")
          /\ (Abort(c.reader) = "idle" <=> c.reader = "idle")
          /\ (Abort(c.writer) = "idle" <=> c.writer = "idle")
          /\ (Abort(c.reader) = "done" <=> c.reader = "done")
        BY <2>2, AbortFacts
    <3> QED BY <1>2, <1>4, <2>1, <3>1
  <2>4. client'.beat = client.beat /\ client'.stopped = client.stopped
        /\ client'.endpoint = client.endpoint /\ client'.buffered = client.buffered
      BY <1>2, <1>4, <2>1, Zenon
  <2>5. client'.check # "idle"
      BY <2>1
  <2> QED BY <2>1, <2>3, <2>4, <2>5, Zenon
      DEF IInv, TypeOK, OneThingAtATime, BeforeStart, DeadlineWatched, InRange
<1>7. CASE client' = [c EXCEPT !.check = "pending"]
  <2>1. /\ client' \in ClientState
        /\ client'.connect = c.connect /\ client'.reader = c.reader /\ client'.writer = c.writer
        /\ client'.beat = c.beat /\ client'.check = "pending" /\ client'.stopped = c.stopped
        /\ client'.endpoint = c.endpoint /\ client'.buffered = c.buffered /\ client'.open = c.open
      BY <1>2, <1>7 DEF ClientState, Wait
  <2> QED BY <1>2, <2>1, Zenon
      DEF IInv, TypeOK, OneThingAtATime, BeforeStart, DeadlineWatched, InRange
<1> QED BY <1>3, <1>5, <1>6, <1>7, Zenon

LEMMA EnvironmentIInv ==
    ASSUME IInv, ConnectCompletes \/ LinesArrive \/ ReadFails \/ WriteCompletes
    PROVE  IInv'
<1>1. client \in ClientState
    BY Zenon DEF IInv, TypeOK
<1>2. "done" \in IO /\ "failed" \in IO
    BY Zenon DEF IO
<1>3. CASE ConnectCompletes
  <2>1. PICK result \in {"done", "failed"} : client' = [client EXCEPT !.connect = result]
      BY <1>3, Zenon DEF ConnectCompletes
  <2>2. /\ client' \in ClientState
        /\ client'.connect = result /\ client'.reader = client.reader /\ client'.writer = client.writer
        /\ client'.beat = client.beat /\ client'.check = client.check
        /\ client'.stopped = client.stopped /\ client'.endpoint = client.endpoint
        /\ client'.buffered = client.buffered
    <3>1. result \in IO
        BY <1>2
    <3> QED BY <1>1, <2>1, <3>1 DEF ClientState
  <2>3. client.connect # "idle"
      BY <1>3, Zenon DEF ConnectCompletes
  <2> QED BY <2>2, <2>3, Zenon
      DEF IInv, TypeOK, OneThingAtATime, BeforeStart, DeadlineWatched, InRange
<1>4. CASE LinesArrive
  <2>1. PICK n \in 1..MaxBuffered : client' = [client EXCEPT !.reader = "done", !.buffered = n]
      BY <1>4, Zenon DEF LinesArrive
  <2>2. /\ client' \in ClientState
        /\ client'.connect = client.connect /\ client'.reader = "done" /\ client'.writer = client.writer
        /\ client'.beat = client.beat /\ client'.check = client.check
        /\ client'.stopped = client.stopped /\ client'.endpoint = client.endpoint
        /\ client'.buffered = n
    <3>1. n \in 0..MaxBuffered
        BY Numbers
    <3> QED BY <1>1, <1>2, <2>1, <3>1 DEF ClientState
  <2>3. client.reader # "idle" /\ client'.reader # "idle"
      BY <1>4, <2>2, Zenon DEF LinesArrive
  <2>4. n > 0
      BY Numbers
  <2> QED BY <2>2, <2>3, <2>4, Zenon
      DEF IInv, TypeOK, OneThingAtATime, BeforeStart, DeadlineWatched, InRange
<1>5. CASE ReadFails
  <2>1. /\ client' \in ClientState
        /\ client'.connect = client.connect /\ client'.reader = "failed" /\ client'.writer = client.writer
        /\ client'.beat = client.beat /\ client'.check = client.check
        /\ client'.stopped = client.stopped /\ client'.endpoint = client.endpoint
        /\ client'.buffered = client.buffered
      BY <1>1, <1>2, <1>5 DEF ReadFails, ClientState
  <2>2. client.reader # "idle" /\ client'.reader # "done"
      BY <1>5, <2>1, Zenon DEF ReadFails
  <2> QED BY <2>1, <2>2, Zenon
      DEF IInv, TypeOK, OneThingAtATime, BeforeStart, DeadlineWatched, InRange
<1>6. CASE WriteCompletes
  <2>1. PICK result \in {"done", "failed"} : client' = [client EXCEPT !.writer = result]
      BY <1>6, Zenon DEF WriteCompletes
  <2>2. /\ client' \in ClientState
        /\ client'.connect = client.connect /\ client'.reader = client.reader /\ client'.writer = result
        /\ client'.beat = client.beat /\ client'.check = client.check
        /\ client'.stopped = client.stopped /\ client'.endpoint = client.endpoint
        /\ client'.buffered = client.buffered
    <3>1. result \in IO
        BY <1>2
    <3> QED BY <1>1, <2>1, <3>1 DEF ClientState
  <2>3. client.writer # "idle" /\ result # "idle"
      BY <1>6, Zenon DEF WriteCompletes
  <2>4. (client.writer = "idle") <=> (client'.writer = "idle")
      BY <2>2, <2>3, Zenon
  <2>5. /\ client'.connect # "idle" => client'.reader = "idle" /\ client'.writer = "idle" /\ client'.beat = "idle"
        /\ client'.reader # "idle" /\ ~client'.stopped => (client'.writer = "idle") # (client'.beat = "idle")
      BY <2>2, <2>3, Zenon DEF IInv, OneThingAtATime
  <2> QED BY <2>2, <2>3, <2>5, Zenon
      DEF IInv, TypeOK, OneThingAtATime, BeforeStart, DeadlineWatched, InRange
<1> QED BY <1>3, <1>4, <1>5, <1>6

LEMMA TickIInv == ASSUME IInv, Tick PROVE IInv'
<1> DEFINE deadline == IF client.deadline \in {0, Forever} THEN client.deadline ELSE client.deadline - 1
           heartbeat == IF client.heartbeat = 0 THEN 0 ELSE client.heartbeat - 1
<1>1. client \in ClientState
    BY Zenon DEF IInv, TypeOK
<1>2. client' = [client EXCEPT !.deadline = deadline, !.heartbeat = heartbeat]
    BY DEF Tick
<1>3. deadline \in 0..Forever /\ heartbeat \in 0..HeartbeatPeriod
  <2>1. client.deadline \in 0..Forever /\ client.heartbeat \in 0..HeartbeatPeriod
      BY <1>1 DEF ClientState
  <2> QED BY <2>1, Numbers
<1> HIDE DEF deadline, heartbeat
<1>4. /\ client' \in ClientState
      /\ client'.connect = client.connect /\ client'.reader = client.reader
      /\ client'.writer = client.writer /\ client'.beat = client.beat /\ client'.check = client.check
      /\ client'.stopped = client.stopped /\ client'.endpoint = client.endpoint
      /\ client'.buffered = client.buffered /\ client'.open = client.open
    BY <1>1, <1>2, <1>3 DEF ClientState
<1> QED BY <1>4, Zenon
    DEF IInv, TypeOK, OneThingAtATime, BeforeStart, DeadlineWatched, InRange

LEMMA NextIInv == IInv /\ [Next]_vars => IInv'
<1> SUFFICES ASSUME IInv, [Next]_vars
             PROVE  IInv'
    OBVIOUS
<1>1. CASE UNCHANGED vars
  <2>1. client' = client
      BY <1>1, Zenon DEF vars
  <2> QED BY <2>1, Zenon
      DEF IInv, TypeOK, OneThingAtATime, BeforeStart, DeadlineWatched, InRange
<1> QED BY <1>1, StartIInv, HandleConnectIInv, HandleReadIInv, HandleWriteIInv, HeartbeatIInv,
           CheckDeadlineIInv, EnvironmentIInv, TickIInv, Zenon DEF Next

THEOREM Invariance == Spec => []IInv
BY InitIInv, NextIInv, PTL DEF Spec

----------------------------------------------------------------------------
(* The theorems *)

\* For any endpoints and time-outs the client's record is well typed: the
\* endpoints are never passed by (line 110), and no line is taken from an empty
\* buffer (line 176).
THEOREM TypeCorrect == Spec => []TypeOK
<1>1. IInv => TypeOK
    BY Zenon DEF IInv
<1> QED BY <1>1, Invariance, PTL

\* Until stop() the deadline actor has its wait, and a client that is connected
\* its read and either a heartbeat or the wait for the next (lines 15-16).
THEOREM ActorsCorrect == Spec => []ActorsAlive
<1>1. IInv => ActorsAlive
  <2> SUFFICES ASSUME IInv
               PROVE  ActorsAlive
      OBVIOUS
  <2>1. Started => client.endpoint # 0
      BY DEF Started
  <2>2. Connected /\ ~client.stopped => ~Connecting
      BY Zenon DEF Connected, Connecting, IInv, OneThingAtATime
  <2> QED BY <2>1, <2>2, Zenon DEF ActorsAlive, Connected, IInv, OneThingAtATime, DeadlineWatched
<1> QED BY <1>1, Invariance, PTL

\* What no handler but that of the connect changes.
LEMMA OtherHandlers ==
    ASSUME IInv, Heartbeat \/ CheckDeadline \/ ConnectCompletes \/ WriteCompletes \/ Tick
    PROVE  client.reader = "idle" => client'.reader = "idle"
<1>1. client \in ClientState
    BY Zenon DEF IInv, TypeOK
<1>2. CASE Heartbeat
  <2> DEFINE c == [client EXCEPT !.beat = "idle"]
  <2>1. client' = StartWrite(c)
      BY <1>2, Zenon DEF Heartbeat
  <2>2. c \in ClientState /\ c.reader = client.reader
      BY <1>1 DEF ClientState, Wait
  <2> HIDE DEF c
  <2> QED BY <2>1, <2>2, StartWriteFields
<1>3. CASE CheckDeadline
  <2> DEFINE c == [client EXCEPT !.check = "idle"]
             b == Close(c)
             d == [b EXCEPT !.deadline = Forever]
  <2>1. \/ client' = c
        \/ client' = [d EXCEPT !.check = "pending"]
        \/ client' = [c EXCEPT !.check = "pending"]
      BY <1>3, Zenon DEF CheckDeadline
  <2>2. c \in ClientState /\ c.reader = client.reader
      BY <1>1 DEF ClientState, Wait
  <2> HIDE DEF c
  <2>3. b \in ClientState /\ b.reader = Abort(c.reader)
      BY <2>2, CloseFields
  <2> HIDE DEF b
  <2>4. [d EXCEPT !.check = "pending"].reader = b.reader /\ [c EXCEPT !.check = "pending"].reader = c.reader
      BY <2>2, <2>3 DEF ClientState
  <2> HIDE DEF d
  <2> QED BY <2>1, <2>2, <2>3, <2>4, IdleStays, Zenon
<1>4. CASE ConnectCompletes \/ WriteCompletes
    BY <1>1, <1>4 DEF ConnectCompletes, WriteCompletes, ClientState
<1>5. CASE Tick
    BY <1>1, <1>5 DEF Tick, ClientState
<1> QED BY <1>2, <1>3, <1>4, <1>5

\* Reading starts only on a socket that is open when the connect is handled.
LEMMA ReadStarts ==
    ASSUME IInv, Next, ~Connected, client'.reader # "idle"
    PROVE  client.open
<1>1. client \in ClientState /\ client.reader = "idle"
    BY Zenon DEF IInv, TypeOK, Connected
<1>2. ~HandleRead /\ ~LinesArrive /\ ~ReadFails
    BY <1>1, Zenon DEF HandleRead, LinesArrive, ReadFails
<1>3. ~Heartbeat /\ ~CheckDeadline /\ ~ConnectCompletes /\ ~WriteCompletes /\ ~Tick
    BY <1>1, OtherHandlers, Zenon
<1>4. ~Start
  <2> SUFFICES ASSUME Start
               PROVE  client'.reader = "idle"
      OBVIOUS
  <2> DEFINE d == StartConnect(client, 1)
  <2>1. client.connect = "idle" /\ client.writer = "idle" /\ client.beat = "idle"
      BY Zenon DEF IInv, BeforeStart, Start
  <2>2. d \in ClientState /\ d.reader = "idle"
    <3>1. 1 \in 1..Endpoints + 1
        BY Numbers
    <3> QED BY <1>1, <2>1, <3>1, NextEndpoint
  <2>3. client' = [d EXCEPT !.check = "pending"]
      BY DEF Start
  <2> HIDE DEF d
  <2> QED BY <2>2, <2>3 DEF ClientState
<1>5. ~HandleWrite
  <2> SUFFICES ASSUME HandleWrite
               PROVE  client'.reader = "idle"
      OBVIOUS
  <2> DEFINE c == [client EXCEPT !.writer = "idle"]
             d == [c EXCEPT !.heartbeat = HeartbeatPeriod, !.beat = "pending"]
  <2>1. client' = c \/ client' = d \/ client' = Stop(c)
      BY Zenon DEF HandleWrite
  <2>2. c \in ClientState /\ c.reader = "idle"
      BY <1>1 DEF ClientState, IO
  <2> HIDE DEF c
  <2>3. d.reader = "idle"
      BY <2>2 DEF ClientState
  <2>4. client' = Stop(c) => client'.reader = Abort(c.reader)
      BY <2>2, StopFields
  <2> HIDE DEF d
  <2> QED BY <2>1, <2>2, <2>3, <2>4, IdleStays, Zenon
<1>6. CASE HandleConnect
  <2> SUFFICES ASSUME ~client.open
               PROVE  client'.reader = "idle"
      OBVIOUS
  <2> DEFINE c == [client EXCEPT !.connect = "idle"]
  <2>1. /\ c \in ClientState /\ c.connect = "idle" /\ c.reader = "idle"
        /\ c.writer = client.writer /\ c.beat = client.beat /\ c.open = client.open
        /\ c.endpoint = client.endpoint
      BY <1>1 DEF ClientState, IO
  <2>2. client' = c \/ client' = StartConnect(c, c.endpoint + 1)
    <3>1. ~c.open
        BY <2>1
    <3> QED BY <1>6, <3>1, Zenon DEF HandleConnect
  <2>3. client.connect # "idle"
      BY <1>6, Zenon DEF HandleConnect
  <2>4. client.writer = "idle" /\ client.beat = "idle" /\ client.endpoint \in 1..Endpoints
      BY <2>3, Zenon DEF IInv, OneThingAtATime, InRange
  <2> HIDE DEF c
  <2>5. c.endpoint + 1 \in 1..Endpoints + 1
      BY <2>1, <2>4, Numbers
  <2>6. c.writer = "idle" /\ c.beat = "idle"
      BY <2>1, <2>4, Zenon
  <2>7. client' = StartConnect(c, c.endpoint + 1) => client'.reader = "idle"
      BY <2>1, <2>5, <2>6, NextEndpoint
  <2> QED BY <2>1, <2>2, <2>7, Zenon
<1> QED BY <1>2, <1>3, <1>4, <1>5, <1>6, Zenon DEF Next

\* However late a connect succeeds, what the deadline has closed is not taken
\* for a connection (lines 131-137).
THEOREM LateConnectCorrect == Spec => NoConnectionOnClosedSocket
<1>1. IInv /\ [Next]_vars => [(~Connected /\ client'.reader # "idle") => client.open]_vars
    BY ReadStarts, Zenon DEF vars
<1> QED BY <1>1, Invariance, PTL DEF Spec, NoConnectionOnClosedSocket

\* Without an expired deadline or a failed operation the socket stays open.
LEMMA StaysOpen ==
    ASSUME IInv, Next, client.open, client.deadline # 0,
           client.connect # "failed", client.reader # "failed", client.writer # "failed"
    PROVE  client'.open
<1>1. client \in ClientState
    BY Zenon DEF IInv, TypeOK
<1>2. ~Start
    BY Zenon DEF Start, IInv, BeforeStart
<1>3. CASE HandleConnect
  <2> DEFINE c == [client EXCEPT !.connect = "idle"]
             d == StartRead(c)
  <2>1. c \in ClientState /\ c.open = client.open
      BY <1>1 DEF ClientState, IO
  <2>2. client' = c \/ client' = StartWrite(d)
    <3>1. c.open
        BY <2>1
    <3> QED BY <1>3, <3>1, Zenon DEF HandleConnect
  <2> HIDE DEF c
  <2>3. d \in ClientState /\ d.open = c.open
      BY <2>1, StartReadFields
  <2> HIDE DEF d
  <2>4. client' = StartWrite(d) => client'.open = d.open
      BY <2>3, StartWriteFields
  <2> QED BY <2>1, <2>2, <2>3, <2>4, Zenon
<1>4. CASE HandleRead
  <2> DEFINE c == [client EXCEPT !.reader = "idle"]
             d == [c EXCEPT !.buffered = c.buffered - 1]
  <2>1. client' = c \/ (client.reader = "done" /\ client' = StartRead(d))
      BY <1>4, Zenon DEF HandleRead
  <2>2. c \in ClientState /\ c.open = client.open /\ c.buffered = client.buffered
      BY <1>1 DEF ClientState, IO
  <2> HIDE DEF c
  <2>3. ASSUME client.reader = "done", client' = StartRead(d)
        PROVE  client'.open = c.open
    <3>1. c.buffered > 0
        BY <2>2, <2>3, Zenon DEF IInv, InRange
    <3>2. c.buffered - 1 \in 0..MaxBuffered
        BY <2>2, <3>1, Numbers DEF ClientState
    <3>3. d \in ClientState /\ d.open = c.open
        BY <2>2, <3>2 DEF ClientState
    <3> HIDE DEF d
    <3>4. client'.open = d.open
        BY <2>3, <3>3, StartReadFields
    <3> QED BY <3>3, <3>4, Zenon
  <2> HIDE DEF d
  <2> QED BY <2>1, <2>2, <2>3, Zenon
<1>5. CASE HandleWrite
  <2> DEFINE c == [client EXCEPT !.writer = "idle"]
             d == [c EXCEPT !.heartbeat = HeartbeatPeriod, !.beat = "pending"]
  <2>1. client' = c \/ client' = d
      BY <1>5, Zenon DEF HandleWrite
  <2>2. c \in ClientState /\ c.open = client.open
      BY <1>1 DEF ClientState, IO
  <2> HIDE DEF c
  <2>3. d.open = c.open
      BY <2>2 DEF ClientState
  <2> HIDE DEF d
  <2> QED BY <2>1, <2>2, <2>3, Zenon
<1>6. CASE Heartbeat
  <2> DEFINE c == [client EXCEPT !.beat = "idle"]
  <2>1. client' = StartWrite(c)
      BY <1>6, Zenon DEF Heartbeat
  <2>2. c \in ClientState /\ c.open = client.open
      BY <1>1 DEF ClientState, Wait
  <2> HIDE DEF c
  <2>3. client'.open = c.open
      BY <2>1, <2>2, StartWriteFields
  <2> QED BY <2>2, <2>3, Zenon
<1>7. CASE CheckDeadline
  <2> DEFINE c == [client EXCEPT !.check = "idle"]
             d == [c EXCEPT !.check = "pending"]
  <2>1. c \in ClientState /\ c.open = client.open /\ c.deadline = client.deadline
      BY <1>1 DEF ClientState, Wait
  <2>2. ~Expired(c)
      BY <2>1 DEF Expired
  <2>3. client' = c \/ client' = d
      BY <1>7, <2>2, Zenon DEF CheckDeadline
  <2> HIDE DEF c
  <2>4. d.open = c.open
      BY <2>1 DEF ClientState
  <2> HIDE DEF d
  <2> QED BY <2>1, <2>3, <2>4, Zenon
<1>8. CASE ConnectCompletes \/ LinesArrive \/ ReadFails \/ WriteCompletes
    BY <1>1, <1>8 DEF ConnectCompletes, LinesArrive, ReadFails, WriteCompletes, ClientState
<1>9. CASE Tick
    BY <1>1, <1>9 DEF Tick, ClientState
<1> QED BY <1>2, <1>3, <1>4, <1>5, <1>6, <1>7, <1>8, <1>9, Zenon DEF Next

\* The deadline actor, which every new deadline wakes, closes the socket only
\* when the time is over (lines 225-228); all else that closes it is a failure.
THEOREM ClosingCorrect == Spec => ClosesForAReason
<1> DEFINE Reason == \/ client.deadline = 0
                     \/ "failed" \in {client.connect, client.reader, client.writer}
<1>1. IInv /\ [Next]_vars => [(client.open /\ ~client'.open) => Reason]_vars
  <2> SUFFICES ASSUME IInv, Next, client.open, ~client'.open
               PROVE  Reason
      BY Zenon DEF vars
  <2>1. client.deadline = 0 \/ client.connect = "failed" \/ client.reader = "failed"
        \/ client.writer = "failed"
      BY StaysOpen, Zenon
  <2> QED BY <2>1, Zenon
<1> QED BY <1>1, Invariance, PTL DEF Spec, ClosesForAReason

=============================================================================
