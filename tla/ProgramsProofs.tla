--------------------------- MODULE ProgramsProofs ---------------------------
(***************************************************************************)
(* Proofs about the six components of Programs, for every value of their   *)
(* constants: one section for each.                                        *)
(***************************************************************************)
EXTENDS Programs, SequenceTheorems, FiniteSetTheorems, TLAPS

\* A set of numbers that is not empty has a least number.
LEMMA LeastNumber ==
    ASSUME NEW T \in SUBSET Nat, T # {}
    PROVE  \E m \in T : \A n \in T : m <= n
<1> DEFINE upTo(m) == 0..m
           Ts == {upTo(m) : m \in T}
<1>1. \A m \in T : IsFiniteSet(upTo(m)) /\ upTo(m) \in SUBSET Nat
  <2> SUFFICES ASSUME NEW m \in T PROVE IsFiniteSet(0..m) /\ 0..m \in SUBSET Nat
      OBVIOUS
  <2>1. 0 \in Int /\ m \in Int
      OBVIOUS
  <2> QED BY <2>1, FS_Interval
<1>2. Ts \subseteq FiniteSubsetsOf(Nat) /\ Ts # {}
    BY <1>1 DEF FiniteSubsetsOf
<1>3. PICK X \in Ts : \A Y \in Ts : ~ (<<Y, X>> \in StrictSubsetOrdering(Nat))
  <2> HIDE DEF Ts
  <2> QED BY <1>2, FS_StrictSubsetOrderingWellFounded, WFMin
<1>4. PICK m \in T : X = upTo(m)
    BY <1>3
<1>5. ASSUME NEW n \in T, n < m PROVE FALSE
  <2>1. upTo(n) \in Ts /\ upTo(n) \subseteq upTo(m) /\ m \in upTo(m) \ upTo(n)
      BY <1>5
  <2>2. <<upTo(n), upTo(m)>> \in StrictSubsetOrdering(Nat)
      BY <1>1, <2>1 DEF StrictSubsetOrdering
  <2> QED BY <1>3, <1>4, <2>1, <2>2
<1> QED BY <1>5

----------------------------------------------------------------------------
(* The HTTP server                                                         *)


\* The last response that was sent leaves the connection open.
Continues(s) ==
    LET n == Len(answered[s]) IN n > 0 => ~Http!need_eof(answered[s][n])

\* Where the operation of a session stands, and how many of the requests that
\* were read have been answered.
Reading(s) ==
    session[s].read \in {"posted", "pending"} =>
       session[s].used = Len(answered[s]) /\ Continues(s)

HasRead(s) ==
    session[s].read = "done" =>
       session[s].used = Len(answered[s]) + 1 /\ Continues(s)

Writing(s) ==
    session[s].write = "pending" =>
       /\ session[s].used = Len(answered[s]) + 1 /\ Continues(s)
       /\ session[s].close = Http!need_eof(Http!handle_request(asked[s][session[s].used]))

HasWritten(s) ==
    session[s].write = "done" =>
       /\ session[s].used = Len(answered[s]) /\ session[s].used > 0
       /\ session[s].close = Http!need_eof(answered[s][session[s].used])

OneOperation(s) ==
    /\ session[s].read = "idle" \/ session[s].write = "idle"
    /\ session[s].write \notin {"posted", "eof"}

Counted(s) ==
    /\ session[s].used <= Len(asked[s]) /\ Len(asked[s]) <= MaxRequests
    /\ ~session[s].made => /\ session[s].used = 0 /\ answered[s] = <<>>
                           /\ session[s].read = "idle" /\ session[s].write = "idle"

SessionInv(s) == /\ Reading(s) /\ HasRead(s) /\ Writing(s) /\ HasWritten(s)
                 /\ OneOperation(s) /\ Counted(s)

HttpInv == Http!TypeOK /\ \A s \in Sessions : SessionInv(s)

----------------------------------------------------------------------------
(* Facts about responses and steps                                         *)

LEMMA HttpNumbers ==
    ASSUME Http!HttpAssumption
    PROVE  Timeout \in Nat \ {0} /\ MaxRequests \in Nat \ {0}
BY DEF Http!HttpAssumption

LEMMA ResponseType ==
    ASSUME Http!HttpAssumption, NEW req \in Requests
    PROVE  Http!handle_request(req) \in Http!Response
<1>1. req \in Http!Request
    BY DEF Http!HttpAssumption
<1> QED BY <1>1 DEF Http!handle_request, Http!error_response, Http!Request, Http!Response

LEMMA HttpInitInv == ASSUME Http!HttpAssumption, Http!Init PROVE HttpInv
<1>1. 0 \in 0..MaxRequests /\ 0 \in 0..Timeout
    BY HttpNumbers
<1>2. Http!TypeOK
    BY <1>1 DEF Http!Init, Http!TypeOK, Http!SessionState, Http!Op
<1> QED BY <1>1, <1>2, HttpNumbers DEF Http!Init, HttpInv, SessionInv, Reading, HasRead, Writing,
            HasWritten, OneOperation, Counted

\* What an action of one session has to show: the others stay as they are.
LEMMA OneSession ==
    ASSUME HttpInv, NEW s \in Sessions, NEW t \in Http!SessionState,
           session' = [session EXCEPT ![s] = t],
           accept' \in Http!Op,
           asked' \in [Sessions -> Seq(Requests)],
           answered' \in [Sessions -> Seq(Http!Response)],
           \A u \in Sessions \ {s} : asked'[u] = asked[u] /\ answered'[u] = answered[u],
           session'[s] = t => SessionInv(s)'
    PROVE  HttpInv'
<1>1. session' \in [Sessions -> Http!SessionState] /\ session'[s] = t
    BY DEF HttpInv, Http!TypeOK
<1>2. ASSUME NEW u \in Sessions \ {s} PROVE SessionInv(u)'
  <2>1. session'[u] = session[u] /\ asked'[u] = asked[u] /\ answered'[u] = answered[u]
      BY <1>2 DEF HttpInv, Http!TypeOK
  <2>2. SessionInv(u)
      BY DEF HttpInv
  <2> QED BY <2>1, <2>2 DEF SessionInv, Reading, HasRead, Writing, HasWritten,
              OneOperation, Counted, Continues
<1>3. Http!TypeOK'
    BY <1>1 DEF Http!TypeOK
<1> QED BY <1>1, <1>2, <1>3 DEF HttpInv

\* The same, when neither requests nor responses are added.
LEMMA Moved ==
    ASSUME HttpInv, NEW s \in Sessions, NEW t \in Http!SessionState,
           session' = [session EXCEPT ![s] = t],
           accept' \in Http!Op, UNCHANGED <<asked, answered>>,
           session'[s] = t => SessionInv(s)'
    PROVE  HttpInv'
<1>1. /\ asked' \in [Sessions -> Seq(Requests)] /\ answered' \in [Sessions -> Seq(Http!Response)]
      /\ \A u \in Sessions \ {s} : asked'[u] = asked[u] /\ answered'[u] = answered[u]
    BY DEF HttpInv, Http!TypeOK
<1> QED BY <1>1, OneSession

----------------------------------------------------------------------------
(* One lemma per action                                                    *)

LEMMA OnAcceptInv == ASSUME Http!HttpAssumption, HttpInv, Http!OnAccept PROVE HttpInv'
<1>1. CASE accept = "failed" /\ accept' = "pending" /\ UNCHANGED <<session, asked, answered>>
    BY <1>1 DEF HttpInv, Http!TypeOK, SessionInv, Reading, HasRead, Writing, HasWritten,
       OneOperation, Counted, Continues, Http!Op
<1>2. ASSUME NEW s \in Sessions, ~session[s].made, accept' = "pending",
             Http!Set(s, [session[s] EXCEPT !.made = TRUE, !.read = "posted"]),
             UNCHANGED <<asked, answered>>
      PROVE  HttpInv'
  <2> DEFINE t == [session[s] EXCEPT !.made = TRUE, !.read = "posted"]
  <2>1. session[s] \in Http!SessionState /\ SessionInv(s) /\ answered[s] = <<>> /\ session[s].used = 0
      BY <1>2 DEF HttpInv, Http!TypeOK, SessionInv, Counted
  <2>2. /\ t \in Http!SessionState /\ t.read = "posted" /\ t.write = session[s].write
        /\ t.used = session[s].used /\ t.made = TRUE /\ t.close = session[s].close
      BY <2>1 DEF Http!SessionState, Http!Op
  <2>3. session' = [session EXCEPT ![s] = t]
      BY <1>2 DEF Http!Set
  <2> HIDE DEF t
  <2>4. ASSUME session'[s] = t PROVE SessionInv(s)'
      BY <1>2, <2>1, <2>2, <2>4 DEF SessionInv, Reading, HasRead, Writing, HasWritten,
         OneOperation, Counted, Continues
  <2> QED BY <1>2, <2>2, <2>3, <2>4, Moved DEF Http!Op
<1> QED BY <1>1, <1>2 DEF Http!OnAccept

LEMMA doReadType ==
    ASSUME Http!HttpAssumption, NEW t \in Http!SessionState
    PROVE  /\ Http!do_read(t) \in Http!SessionState
           /\ Http!do_read(t).read = "pending" /\ Http!do_read(t).write = t.write
           /\ Http!do_read(t).used = t.used /\ Http!do_read(t).made = t.made
<1>1. Timeout \in 0..Timeout /\ "pending" \in Http!Op
    BY HttpNumbers DEF Http!Op
<1> QED BY <1>1 DEF Http!do_read, Http!SessionState

LEMMA RunInv == ASSUME Http!HttpAssumption, HttpInv, NEW s \in Sessions, Http!Run(s) PROVE HttpInv'
<1> DEFINE t == Http!do_read(session[s])
<1>1. session[s] \in Http!SessionState /\ SessionInv(s) /\ session[s].read = "posted"
    BY DEF HttpInv, Http!TypeOK, Http!Run
<1>2. /\ t \in Http!SessionState /\ t.read = "pending" /\ t.write = session[s].write
      /\ t.used = session[s].used /\ t.made = session[s].made
    BY <1>1, doReadType
<1>3. session' = [session EXCEPT ![s] = t] /\ UNCHANGED <<accept, asked, answered>>
    BY DEF Http!Run, Http!Set
<1> HIDE DEF t
<1>4. ASSUME session'[s] = t PROVE SessionInv(s)'
    BY <1>1, <1>2, <1>3, <1>4 DEF SessionInv, Reading, HasRead, Writing, HasWritten,
       OneOperation, Counted, Continues
<1> QED BY <1>2, <1>3, <1>4, Moved DEF HttpInv, Http!TypeOK

LEMMA OnReadInv == ASSUME Http!HttpAssumption, HttpInv, NEW s \in Sessions, Http!OnRead(s) PROVE HttpInv'
<1> DEFINE idle == [session[s] EXCEPT !.read = "idle"]
           res == Http!handle_request(asked[s][session[s].used])
           t == [idle EXCEPT !.write = "pending", !.close = Http!need_eof(res)]
<1>1. session[s] \in Http!SessionState /\ SessionInv(s) /\ UNCHANGED <<accept, asked, answered>>
    BY DEF HttpInv, Http!TypeOK, Http!OnRead
<1>2. /\ idle \in Http!SessionState /\ idle.read = "idle" /\ idle.write = session[s].write
      /\ idle.used = session[s].used /\ idle.made = session[s].made
      /\ idle.close = session[s].close
    BY <1>1 DEF Http!SessionState, Http!Op
<1>3. CASE session[s].read \in {"failed", "eof"} /\ Http!Set(s, idle)
  <2> HIDE DEF idle
  <2>1. ASSUME session'[s] = idle PROVE SessionInv(s)'
      BY <1>1, <1>2, <1>3, <2>1 DEF SessionInv, Reading, HasRead, Writing, HasWritten,
         OneOperation, Counted, Continues
  <2> QED BY <1>1, <1>2, <1>3, <2>1, Moved DEF Http!Set, HttpInv, Http!TypeOK
<1>4. CASE session[s].read = "done" /\ Http!Set(s, t)
  <2>1. Http!need_eof(res) \in BOOLEAN
      BY DEF Http!need_eof
  <2>2. /\ t \in Http!SessionState /\ t.read = "idle" /\ t.write = "pending"
        /\ t.used = session[s].used /\ t.made = session[s].made /\ t.close = Http!need_eof(res)
      BY <1>1, <2>1 DEF Http!SessionState, Http!Op
  <2> HIDE DEF t, idle
  <2>3. ASSUME session'[s] = t PROVE SessionInv(s)'
      BY <1>1, <1>4, <2>2, <2>3 DEF SessionInv, Reading, HasRead, Writing, HasWritten,
         OneOperation, Counted, Continues
  <2> QED BY <1>1, <1>4, <2>2, <2>3, Moved DEF Http!Set, HttpInv, Http!TypeOK
<1> QED BY <1>2, <1>3, <1>4 DEF Http!OnRead

LEMMA OnWriteInv == ASSUME Http!HttpAssumption, HttpInv, NEW s \in Sessions, Http!OnWrite(s) PROVE HttpInv'
<1> DEFINE idle == [session[s] EXCEPT !.write = "idle"]
           t == Http!do_read(idle)
<1>1. session[s] \in Http!SessionState /\ SessionInv(s) /\ UNCHANGED <<accept, asked, answered>>
    BY DEF HttpInv, Http!TypeOK, Http!OnWrite
<1>2. /\ idle \in Http!SessionState /\ idle.read = session[s].read /\ idle.write = "idle"
      /\ idle.used = session[s].used /\ idle.made = session[s].made
    BY <1>1 DEF Http!SessionState, Http!Op
<1>3. session[s].write \in {"done", "failed"}
    BY DEF Http!OnWrite
<1>4. CASE Http!Set(s, idle)
  <2> HIDE DEF idle
  <2>1. ASSUME session'[s] = idle PROVE SessionInv(s)'
      BY <1>1, <1>2, <1>3, <2>1 DEF SessionInv, Reading, HasRead, Writing, HasWritten,
         OneOperation, Counted, Continues
  <2> QED BY <1>1, <1>2, <1>4, <2>1, Moved DEF Http!Set, HttpInv, Http!TypeOK
<1>5. CASE session[s].write = "done" /\ ~session[s].close /\ Http!Set(s, t)
  <2>1. /\ t \in Http!SessionState /\ t.read = "pending" /\ t.write = "idle"
        /\ t.used = session[s].used /\ t.made = session[s].made
      BY <1>2, doReadType
  <2> HIDE DEF t
  <2>2. ASSUME session'[s] = t PROVE SessionInv(s)'
      BY <1>1, <1>5, <2>1, <2>2 DEF SessionInv, Reading, HasRead, Writing, HasWritten,
         OneOperation, Counted, Continues
  <2> QED BY <1>1, <1>5, <2>1, <2>2, Moved DEF Http!Set, HttpInv, Http!TypeOK
<1> QED BY <1>4, <1>5 DEF Http!OnWrite

LEMMA AskInv ==
    ASSUME Http!HttpAssumption, HttpInv, NEW s \in Sessions, NEW req \in Requests, Http!Ask(s, req)
    PROVE  HttpInv'
<1>1. /\ session[s] \in Http!SessionState /\ SessionInv(s) /\ session[s].made
      /\ asked[s] \in Seq(Requests) /\ Len(asked[s]) < MaxRequests
      /\ UNCHANGED <<accept, session, answered>>
      /\ asked' = [asked EXCEPT ![s] = Append(@, req)]
    BY DEF HttpInv, Http!TypeOK, Http!Ask
<1>2. /\ asked' \in [Sessions -> Seq(Requests)] /\ asked'[s] = Append(asked[s], req)
      /\ \A u \in Sessions \ {s} : asked'[u] = asked[u]
    BY <1>1 DEF HttpInv, Http!TypeOK
<1>3. /\ Len(asked'[s]) = Len(asked[s]) + 1
      /\ \A q \in 1..Len(asked[s]) : asked'[s][q] = asked[s][q]
    BY <1>1, <1>2
<1>4. session[s].write = "pending" => session[s].used \in 1..Len(asked[s])
  <2>1. session[s].used \in Nat /\ Len(answered[s]) \in Nat
      BY <1>1, HttpNumbers DEF HttpInv, Http!TypeOK, Http!SessionState
  <2> QED BY <1>1, <2>1 DEF SessionInv, Writing, Counted
<1>5. SessionInv(s)'
  <2>1. Len(asked[s]) \in Nat /\ session[s].used \in Nat /\ MaxRequests \in Nat
      BY <1>1, HttpNumbers DEF Http!SessionState
  <2>2. Writing(s)'
      BY <1>1, <1>3, <1>4 DEF SessionInv, Writing, Continues
  <2>3. Counted(s)'
      BY <1>1, <1>3, <2>1 DEF SessionInv, Counted
  <2> QED BY <1>1, <2>2, <2>3 DEF SessionInv, Reading, HasRead, HasWritten,
              OneOperation, Continues
<1>6. session' = [session EXCEPT ![s] = session[s]] /\ accept' \in Http!Op
      /\ answered' \in [Sessions -> Seq(Http!Response)]
    BY <1>1 DEF HttpInv, Http!TypeOK
<1> QED BY <1>1, <1>2, <1>5, <1>6, OneSession

LEMMA ReadCompletesInv ==
    ASSUME Http!HttpAssumption, HttpInv, NEW s \in Sessions, Http!ReadCompletes(s)
    PROVE  HttpInv'
<1>1. /\ session[s] \in Http!SessionState /\ SessionInv(s) /\ session[s].read = "pending"
      /\ UNCHANGED <<accept, asked, answered>>
      /\ session[s].used \in Nat /\ Len(asked[s]) \in Nat
    BY HttpNumbers DEF HttpInv, Http!TypeOK, Http!ReadCompletes, Http!SessionState
<1>2. CASE /\ session[s].used < Len(asked[s])
           /\ Http!Set(s, [session[s] EXCEPT !.read = "done", !.used = @ + 1])
  <2> DEFINE t == [session[s] EXCEPT !.read = "done", !.used = @ + 1]
  <2>1. session[s].used + 1 \in 0..MaxRequests
      BY <1>1, <1>2, HttpNumbers DEF SessionInv, Counted
  <2>2. /\ t \in Http!SessionState /\ t.read = "done" /\ t.write = session[s].write
        /\ t.used = session[s].used + 1 /\ t.made = session[s].made
      BY <1>1, <2>1 DEF Http!SessionState, Http!Op
  <2>3. session' = [session EXCEPT ![s] = t]
      BY <1>2 DEF Http!Set
  <2> HIDE DEF t
  <2>4. ASSUME session'[s] = t PROVE SessionInv(s)'
      BY <1>1, <1>2, <2>2, <2>4 DEF SessionInv, Reading, HasRead, Writing, HasWritten,
         OneOperation, Counted, Continues
  <2> QED BY <1>1, <2>2, <2>3, <2>4, Moved DEF HttpInv, Http!TypeOK
<1>3. ASSUME NEW result \in {"eof", "failed"}, Http!Set(s, [session[s] EXCEPT !.read = result])
      PROVE  HttpInv'
  <2> DEFINE t == [session[s] EXCEPT !.read = result]
  <2>1. /\ t \in Http!SessionState /\ t.read = result /\ t.write = session[s].write
        /\ t.used = session[s].used /\ t.made = session[s].made
      BY <1>1 DEF Http!SessionState, Http!Op
  <2>2. session' = [session EXCEPT ![s] = t]
      BY <1>3 DEF Http!Set
  <2> HIDE DEF t
  <2>3. ASSUME session'[s] = t PROVE SessionInv(s)'
      BY <1>1, <2>1, <2>3 DEF SessionInv, Reading, HasRead, Writing, HasWritten,
         OneOperation, Counted, Continues
  <2> QED BY <1>1, <2>1, <2>2, <2>3, Moved DEF HttpInv, Http!TypeOK
<1> QED BY <1>2, <1>3 DEF Http!ReadCompletes

\* A write fails, by itself or because its time is over.
LEMMA WriteFailsInv ==
    ASSUME Http!HttpAssumption, HttpInv, NEW s \in Sessions, session[s].write = "pending",
           Http!Set(s, [session[s] EXCEPT !.write = "failed"]),
           UNCHANGED <<accept, asked, answered>>
    PROVE  HttpInv'
<1> DEFINE t == [session[s] EXCEPT !.write = "failed"]
<1>1. session[s] \in Http!SessionState /\ SessionInv(s)
    BY DEF HttpInv, Http!TypeOK
<1>2. /\ t \in Http!SessionState /\ t.read = session[s].read /\ t.write = "failed"
      /\ t.used = session[s].used /\ t.made = session[s].made
    BY <1>1 DEF Http!SessionState, Http!Op
<1>3. session' = [session EXCEPT ![s] = t]
    BY DEF Http!Set
<1> HIDE DEF t
<1>4. ASSUME session'[s] = t PROVE SessionInv(s)'
    BY <1>1, <1>2, <1>4 DEF SessionInv, Reading, HasRead, Writing, HasWritten,
       OneOperation, Counted, Continues
<1> QED BY <1>2, <1>3, <1>4, Moved DEF HttpInv, Http!TypeOK

\* The response to the oldest request that is not answered has been sent.
Sent(s) ==
    /\ session[s].write = "pending"
    /\ Http!Set(s, [session[s] EXCEPT !.write = "done"])
    /\ answered' = [answered EXCEPT ![s] =
                       Append(@, Http!handle_request(asked[s][session[s].used]))]
    /\ UNCHANGED <<accept, asked>>

LEMMA SentInv == ASSUME Http!HttpAssumption, HttpInv, NEW s \in Sessions, Sent(s) PROVE HttpInv'
<1> DEFINE t == [session[s] EXCEPT !.write = "done"]
           res == Http!handle_request(asked[s][session[s].used])
<1>1. /\ session[s] \in Http!SessionState /\ SessionInv(s) /\ session[s].write = "pending"
      /\ asked[s] \in Seq(Requests) /\ answered[s] \in Seq(Http!Response)
      /\ session[s].used \in Nat /\ UNCHANGED <<accept, asked>>
    BY HttpNumbers DEF HttpInv, Http!TypeOK, Http!SessionState, Sent
<1>2. /\ session[s].used = Len(answered[s]) + 1
      /\ session[s].used \in 1..Len(asked[s])
      /\ session[s].close = Http!need_eof(res) /\ session[s].read = "idle"
    BY <1>1 DEF SessionInv, Writing, Counted, OneOperation
<1>3. res \in Http!Response
  <2>1. asked[s][session[s].used] \in Requests
      BY <1>1, <1>2
  <2> QED BY <2>1, ResponseType
<1>4. /\ t \in Http!SessionState /\ t.read = session[s].read /\ t.write = "done"
      /\ t.used = session[s].used /\ t.made = session[s].made /\ t.close = session[s].close
    BY <1>1 DEF Http!SessionState, Http!Op
<1>5. session' = [session EXCEPT ![s] = t] /\ answered' = [answered EXCEPT ![s] = Append(@, res)]
    BY DEF Sent, Http!Set
<1> HIDE DEF t, res
<1>6. /\ answered' \in [Sessions -> Seq(Http!Response)] /\ answered'[s] = Append(answered[s], res)
      /\ \A u \in Sessions \ {s} : answered'[u] = answered[u]
    BY <1>1, <1>3, <1>5 DEF HttpInv, Http!TypeOK
<1>7. Len(answered'[s]) = Len(answered[s]) + 1 /\ answered'[s][Len(answered[s]) + 1] = res
    BY <1>1, <1>3, <1>6
<1>8. session[s].made
    BY <1>1 DEF SessionInv, Counted
<1>9. ASSUME session'[s] = t PROVE SessionInv(s)'
  <2>1. Reading(s)' /\ HasRead(s)' /\ Writing(s)'
      BY <1>2, <1>4, <1>9 DEF Reading, HasRead, Writing
  <2>2. HasWritten(s)'
      BY <1>1, <1>2, <1>4, <1>7, <1>9 DEF HasWritten
  <2>3. OneOperation(s)'
      BY <1>2, <1>4, <1>9 DEF OneOperation
  <2>4. Counted(s)'
      BY <1>1, <1>2, <1>4, <1>7, <1>8, <1>9 DEF SessionInv, Counted
  <2> QED BY <2>1, <2>2, <2>3, <2>4 DEF SessionInv
<1>10. accept' \in Http!Op /\ asked' \in [Sessions -> Seq(Requests)]
       /\ \A u \in Sessions \ {s} : asked'[u] = asked[u]
    BY <1>1 DEF HttpInv, Http!TypeOK
<1> QED BY <1>4, <1>5, <1>6, <1>9, <1>10, OneSession

LEMMA StreamExpiresInv ==
    ASSUME Http!HttpAssumption, HttpInv, NEW s \in Sessions, Http!StreamExpires(s)
    PROVE  HttpInv'
<1> DEFINE t == [session[s] EXCEPT !.read = "failed"]
<1>1. CASE session[s].read = "pending" /\ Http!Set(s, t)
  <2>1. session[s] \in Http!SessionState /\ SessionInv(s) /\ UNCHANGED <<accept, asked, answered>>
      BY DEF HttpInv, Http!TypeOK, Http!StreamExpires
  <2>2. /\ t \in Http!SessionState /\ t.read = "failed" /\ t.write = session[s].write
        /\ t.used = session[s].used /\ t.made = session[s].made
      BY <2>1 DEF Http!SessionState, Http!Op
  <2> HIDE DEF t
  <2>3. ASSUME session'[s] = t PROVE SessionInv(s)'
      BY <1>1, <2>1, <2>2, <2>3 DEF SessionInv, Reading, HasRead, Writing, HasWritten,
         OneOperation, Counted, Continues
  <2> QED BY <1>1, <2>1, <2>2, <2>3, Moved DEF Http!Set, HttpInv, Http!TypeOK
<1>2. CASE /\ session[s].write = "pending"
           /\ Http!Set(s, [session[s] EXCEPT !.write = "failed"])
    BY <1>2, WriteFailsInv DEF Http!StreamExpires
<1> QED BY <1>1, <1>2 DEF Http!StreamExpires

LEMMA TickInv == ASSUME Http!HttpAssumption, HttpInv, Http!Tick PROVE HttpInv'
<1> DEFINE counted(s) == [session[s] EXCEPT !.deadline = IF @ > 0 THEN @ - 1 ELSE @]
<1>1. ASSUME NEW s \in Sessions
      PROVE  /\ counted(s) \in Http!SessionState
             /\ counted(s).made = session[s].made /\ counted(s).read = session[s].read
             /\ counted(s).write = session[s].write /\ counted(s).close = session[s].close
             /\ counted(s).used = session[s].used
  <2>1. session[s] \in Http!SessionState
      BY DEF HttpInv, Http!TypeOK
  <2> QED BY <2>1, HttpNumbers DEF Http!SessionState
<1>2. session' = [s \in Sessions |-> counted(s)] /\ UNCHANGED <<accept, asked, answered>>
    BY DEF Http!Tick
<1> HIDE DEF counted
<1>3. Http!TypeOK'
    BY <1>1, <1>2 DEF HttpInv, Http!TypeOK
<1>4. ASSUME NEW s \in Sessions PROVE SessionInv(s)'
  <2>1. SessionInv(s) /\ session'[s] = counted(s)
      BY <1>2 DEF HttpInv
  <2> QED BY <1>1, <1>2, <2>1 DEF SessionInv, Reading, HasRead, Writing, HasWritten,
              OneOperation, Counted, Continues
<1> QED BY <1>3, <1>4 DEF HttpInv

LEMMA HttpNextInv == Http!HttpAssumption /\ HttpInv /\ [Http!Next]_Http!vars => HttpInv'
<1> SUFFICES ASSUME Http!HttpAssumption, HttpInv, [Http!Next]_Http!vars PROVE HttpInv'
    OBVIOUS
<1>1. CASE UNCHANGED Http!vars
    BY <1>1 DEF Http!vars, HttpInv, Http!TypeOK, SessionInv, Reading, HasRead, Writing, HasWritten,
       OneOperation, Counted, Continues
<1>2. CASE Http!Handlers
    BY <1>2, OnAcceptInv, RunInv, OnReadInv, OnWriteInv DEF Http!Handlers
<1>3. CASE Http!AcceptCompletes
  <2>1. accept' \in Http!Op /\ UNCHANGED <<session, asked, answered>>
      BY <1>3 DEF Http!AcceptCompletes, Http!Op
  <2> QED BY <2>1 DEF HttpInv, Http!TypeOK, SessionInv, Reading, HasRead, Writing, HasWritten,
              OneOperation, Counted, Continues
<1>4. CASE Http!Tick
    BY <1>4, TickInv
<1>5. ASSUME NEW s \in Sessions, NEW req \in Requests, Http!Ask(s, req) PROVE HttpInv'
    BY <1>5, AskInv
<1>6. ASSUME NEW s \in Sessions, Http!WriteCompletes(s) PROVE HttpInv'
    BY <1>6, SentInv, WriteFailsInv DEF Http!WriteCompletes, Sent
<1>7. ASSUME NEW s \in Sessions, Http!ReadCompletes(s) \/ Http!StreamExpires(s) PROVE HttpInv'
    BY <1>7, ReadCompletesInv, StreamExpiresInv
<1> QED BY <1>1, <1>2, <1>3, <1>4, <1>5, <1>6, <1>7 DEF Http!Next

\* Only the client's requests and the responses are seen from outside.
LEMMA HttpStepMaps ==
    ASSUME Http!HttpAssumption, HttpInv, [Http!Next]_Http!vars
    PROVE  [Http!Connection!Next]_Http!Connection!vars
<1>1. ASSUME UNCHANGED <<asked, answered>> PROVE [Http!Connection!Next]_Http!Connection!vars
    BY <1>1 DEF Http!Connection!vars
<1>2. CASE UNCHANGED Http!vars \/ Http!Handlers \/ Http!AcceptCompletes \/ Http!Tick
    BY <1>1, <1>2 DEF Http!vars, Http!Handlers, Http!OnAccept, Http!Run, Http!OnRead,
       Http!OnWrite, Http!AcceptCompletes, Http!Tick
<1>3. ASSUME NEW s \in Sessions, Http!ReadCompletes(s) \/ Http!StreamExpires(s)
      PROVE  [Http!Connection!Next]_Http!Connection!vars
    BY <1>1, <1>3 DEF Http!ReadCompletes, Http!StreamExpires
<1>4. ASSUME NEW s \in Sessions, NEW req \in Requests, Http!Ask(s, req)
      PROVE  [Http!Connection!Next]_Http!Connection!vars
    BY <1>4 DEF Http!Ask, Http!Connection!Ask, Http!Connection!Next
<1>5. ASSUME NEW s \in Sessions, Http!WriteCompletes(s)
      PROVE  [Http!Connection!Next]_Http!Connection!vars
  <2>1. CASE UNCHANGED answered
      BY <1>1, <1>5, <2>1 DEF Http!WriteCompletes
  <2>2. CASE Sent(s)
    <3>1. SessionInv(s) /\ Len(answered[s]) \in Nat /\ Len(asked[s]) \in Nat
        BY DEF HttpInv, Http!TypeOK
    <3>2. /\ session[s].used = Len(answered[s]) + 1 /\ Continues(s)
          /\ session[s].used <= Len(asked[s])
        BY <2>2, <3>1 DEF Sent, SessionInv, Writing, Counted
    <3>3. Http!Connection!Reply(s)
        BY <2>2, <3>1, <3>2 DEF Sent, Http!Connection!Reply, Continues
    <3> QED BY <3>3 DEF Http!Connection!Next
  <2> QED BY <1>5, <2>1, <2>2 DEF Http!WriteCompletes, Sent
<1> QED BY <1>2, <1>3, <1>4, <1>5 DEF Http!Next

----------------------------------------------------------------------------
(* The connection of a third-party library                                 *)

\* Every octet sent is in one of three places, which are in the order sent.
Echo == outbox \o write_buffer \o inbox = [n \in 1..sent |-> n]

\* The library writes while it has something to write.
Buffered == wants = "reading" <=> write_buffer = <<>>

\* While the socket is open the waits are those that the library wants, until
\* a wait for reading fails.
Watched == open => /\ writer # "idle" <=> wants = "writing"
                   /\ reader # "idle" <=> wants = "reading" /\ ~deaf
                   /\ deaf => wants = "reading"

\* Whichever handler closes the socket is the last: there is no other wait that
\* could still end.
LastHandler == ~open => reader = "idle" /\ writer = "idle"

IoInv == Io!TypeOK /\ Echo /\ Buffered /\ Watched /\ LastHandler

----------------------------------------------------------------------------
(* Facts about sequences                                                   *)

LEMMA IoNumbers ==
    ASSUME Io!IoAssumption
    PROVE  BufferSize \in Nat \ {0} /\ MaxOctets \in Nat \ {0}
BY DEF Io!IoAssumption

\* A sequence is its first n elements and the rest.
LEMMA Cut ==
    ASSUME NEW T, NEW q \in Seq(T), NEW n \in 0..Len(q)
    PROVE  /\ SubSeq(q, 1, n) \in Seq(T) /\ Len(SubSeq(q, 1, n)) = n
           /\ SubSeq(q, n + 1, Len(q)) \in Seq(T)
           /\ Len(SubSeq(q, n + 1, Len(q))) = Len(q) - n
           /\ SubSeq(q, 1, n) \o SubSeq(q, n + 1, Len(q)) = q
<1>1. Len(q) \in Nat /\ \A i \in 1..Len(q) : q[i] \in T
    BY ElementOfSeq, LenProperties
<1>2. SubSeq(q, 1, n) \in Seq(T) /\ Len(SubSeq(q, 1, n)) = n
    BY <1>1, SubSeqProperties
<1>3. /\ SubSeq(q, n + 1, Len(q)) \in Seq(T)
      /\ Len(SubSeq(q, n + 1, Len(q))) = Len(q) - n
    BY <1>1, SubSeqProperties
<1>4. SubSeq(q, 1, n) \o SubSeq(q, n + 1, Len(q)) = SubSeq(q, 1, Len(q))
  <2>1. 1 \in 1..Len(q) + 1 /\ n \in 1 - 1..Len(q) /\ Len(q) \in n..Len(q)
      BY <1>1
  <2> QED BY <2>1, ConcatAdjacentSubSeq, Zenon
<1>5. SubSeq(q, 1, Len(q)) = q
    BY SubSeqFull
<1> QED BY <1>2, <1>3, <1>4, <1>5, Zenon

LEMMA IoInitInv == ASSUME Io!IoAssumption, Io!Init PROVE IoInv
<1>1. Io!TypeOK
  <2>1. open \in BOOLEAN /\ deaf \in BOOLEAN
      BY DEF Io!Init
  <2> QED BY <2>1, IoNumbers DEF Io!Init, Io!TypeOK, Io!Wait
<1>2. Echo
  <2>1. outbox \o write_buffer \o inbox = <<>>
      BY EmptySeq, ConcatEmptySeq DEF Io!Init
  <2> QED BY <2>1 DEF Io!Init, Echo
<1> QED BY <1>1, <1>2 DEF Io!Init, IoInv, Buffered, Watched, LastHandler

----------------------------------------------------------------------------
(* One lemma per action                                                    *)

\* The octets stay where they are and the library wants what it did.
LEMMA WaitsOnly ==
    ASSUME IoInv, UNCHANGED <<wants, write_buffer, sent, inbox, outbox>>,
           reader' \in Io!Wait, writer' \in Io!Wait, open' \in BOOLEAN, deaf' \in BOOLEAN,
           Watched', LastHandler'
    PROVE  IoInv'
BY DEF IoInv, Io!TypeOK, Echo, Buffered

LEMMA WaitsInv ==
    ASSUME IoInv, Io!OnReadWaitFailed \/ Io!ReadWaitEnds \/ Io!WriteWaitEnds
    PROVE  IoInv'
<1>1. Io!TypeOK /\ Watched /\ LastHandler
    BY DEF IoInv
<1>2. UNCHANGED <<wants, write_buffer, sent, inbox, outbox, open>>
    BY DEF Io!OnReadWaitFailed, Io!ReadWaitEnds, Io!WriteWaitEnds
<1>3. reader' \in Io!Wait /\ writer' \in Io!Wait /\ deaf' \in BOOLEAN
    BY <1>1 DEF Io!TypeOK, Io!Wait, Io!OnReadWaitFailed, Io!ReadWaitEnds, Io!WriteWaitEnds
<1>4. Watched' /\ LastHandler'
    BY <1>1, <1>2 DEF Watched, LastHandler, Io!OnReadWaitFailed, Io!ReadWaitEnds, Io!WriteWaitEnds
<1> QED BY <1>1, <1>2, <1>3, <1>4, WaitsOnly DEF Io!TypeOK

LEMMA OnWriteWaitFailedInv == ASSUME IoInv, Io!OnWriteWaitFailed PROVE IoInv'
<1>1. Io!TypeOK /\ open /\ reader = "idle"
    BY DEF IoInv, Watched, LastHandler, Io!OnWriteWaitFailed
<1>2. open' = FALSE /\ reader' = "idle" /\ writer' = "idle"
    BY <1>1 DEF Io!OnWriteWaitFailed, Io!Close, Io!Abort
<1>3. Watched' /\ LastHandler' /\ reader' \in Io!Wait /\ writer' \in Io!Wait
    BY <1>2 DEF Watched, LastHandler, Io!Wait
<1> QED BY <1>1, <1>2, <1>3, WaitsOnly DEF Io!OnWriteWaitFailed, Io!TypeOK

LEMMA OnReadableInv == ASSUME Io!IoAssumption, IoInv, Io!OnReadable PROVE IoInv'
<1> DEFINE n == IF Len(inbox) < BufferSize THEN Len(inbox) ELSE BufferSize
<1>1. /\ Io!TypeOK /\ Echo /\ open /\ reader = "ready" /\ writer = "idle"
      /\ wants = "reading" /\ write_buffer = <<>> /\ ~deaf
    BY DEF IoInv, Buffered, Watched, LastHandler, Io!OnReadable
<1>2. n \in 0..Len(inbox) /\ n <= BufferSize
    BY <1>1, IoNumbers DEF Io!TypeOK
<1>3. CASE /\ n > 0
           /\ write_buffer' = SubSeq(inbox, 1, n)
           /\ inbox' = SubSeq(inbox, n + 1, Len(inbox))
           /\ wants' = "writing"
           /\ Io!do_operations("writing", "idle", writer)
           /\ UNCHANGED <<sent, outbox, deaf>>
  <2>1. reader' = "idle" /\ writer' = "pending" /\ open'
      BY <1>1, <1>3 DEF Io!do_operations
  <2>2. /\ write_buffer' \in Seq(1..MaxOctets) /\ Len(write_buffer') = n
        /\ inbox' \in Seq(1..MaxOctets) /\ write_buffer' \o inbox' = inbox
      BY <1>1, <1>2, <1>3, Cut DEF Io!TypeOK
  <2>3. Io!TypeOK'
      BY <1>1, <1>2, <1>3, <2>1, <2>2 DEF Io!TypeOK, Io!Wait
  <2>4. Echo'
    <3>1. outbox \o write_buffer = outbox
        BY <1>1, ConcatEmptySeq DEF Io!TypeOK
    <3>2. outbox \o write_buffer' \o inbox' = outbox \o inbox
      <4>1. {outbox, write_buffer', inbox'} \subseteq Seq(1..MaxOctets)
          BY <1>1, <2>2 DEF Io!TypeOK
      <4>2. (outbox \o write_buffer') \o inbox' = outbox \o (write_buffer' \o inbox')
          BY <4>1, ConcatAssociative
      <4> QED BY <2>2, <4>2
    <3> QED BY <1>1, <1>3, <3>1, <3>2 DEF Echo
  <2>5. write_buffer' # <<>>
      BY <1>2, <1>3, <2>2, EmptySeq
  <2>6. ~deaf'
      BY <1>1, <1>3
  <2> QED BY <1>3, <2>1, <2>3, <2>4, <2>5, <2>6 DEF IoInv, Buffered, Watched, LastHandler
<1>4. CASE /\ Io!do_operations(wants, "idle", writer)
           /\ UNCHANGED <<wants, write_buffer, inbox, sent, outbox, deaf>>
  <2>1. reader' = "pending" /\ writer' = "idle" /\ open'
      BY <1>1, <1>4 DEF Io!do_operations
  <2>2. /\ Watched' /\ LastHandler' /\ reader' \in Io!Wait /\ writer' \in Io!Wait
        /\ open' \in BOOLEAN
      BY <1>1, <1>4, <2>1 DEF Watched, LastHandler, Io!Wait, Io!TypeOK, Io!do_operations
  <2> QED BY <1>1, <1>4, <2>2, WaitsOnly DEF Io!TypeOK
<1>5. CASE /\ Io!Close("idle", writer)
           /\ UNCHANGED <<wants, write_buffer, inbox, sent, outbox, deaf>>
  <2>1. reader' = "idle" /\ writer' = "idle" /\ open' = FALSE
      BY <1>1, <1>5 DEF Io!Close, Io!Abort
  <2>2. Watched' /\ LastHandler' /\ reader' \in Io!Wait /\ writer' \in Io!Wait
      BY <2>1 DEF Watched, LastHandler, Io!Wait
  <2> QED BY <1>1, <1>5, <2>1, <2>2, WaitsOnly DEF Io!TypeOK
<1> QED BY <1>3, <1>4, <1>5 DEF Io!OnReadable

LEMMA OnWritableInv == ASSUME Io!IoAssumption, IoInv, Io!OnWritable PROVE IoInv'
<1>1. /\ Io!TypeOK /\ Echo /\ open /\ writer = "ready" /\ reader = "idle"
      /\ wants = "writing" /\ write_buffer # <<>> /\ ~deaf
    BY DEF IoInv, Buffered, Watched, LastHandler, Io!OnWritable
<1>2. ASSUME NEW n \in 1..Len(write_buffer), NEW next,
             next = IF Io!Rest(n) # <<>> THEN "writing" ELSE "reading",
             outbox' = outbox \o SubSeq(write_buffer, 1, n),
             write_buffer' = Io!Rest(n), wants' = next,
             Io!do_operations(next, reader, "idle"),
             UNCHANGED <<sent, inbox, deaf>>
      PROVE  IoInv'
  <2> DEFINE first == SubSeq(write_buffer, 1, n)
  <2>1. /\ first \in Seq(1..MaxOctets) /\ write_buffer' \in Seq(1..MaxOctets)
        /\ Len(write_buffer') = Len(write_buffer) - n
        /\ first \o write_buffer' = write_buffer
    <3>1. write_buffer \in Seq(1..MaxOctets) /\ n \in 0..Len(write_buffer)
        BY <1>1 DEF Io!TypeOK
    <3>2. write_buffer' = SubSeq(write_buffer, n + 1, Len(write_buffer))
        BY <1>2 DEF Io!Rest
    <3> QED BY <3>1, <3>2, Cut, Zenon
  <2>2. outbox' \in Seq(1..MaxOctets)
      BY <1>1, <1>2, <2>1, ConcatProperties DEF Io!TypeOK
  <2>3. Io!TypeOK'
    <3>1. Len(write_buffer') <= BufferSize
        BY <1>1, <2>1, IoNumbers DEF Io!TypeOK
    <3>2. next \in {"reading", "writing"} /\ reader' \in Io!Wait /\ writer' \in Io!Wait
        BY <1>1, <1>2 DEF Io!do_operations, Io!Wait
    <3> QED BY <1>1, <1>2, <2>1, <2>2, <3>1, <3>2 DEF Io!TypeOK, Io!do_operations
  <2>4. Echo'
    <3>1. outbox' \o write_buffer' = outbox \o write_buffer
      <4>1. {outbox, first, write_buffer'} \subseteq Seq(1..MaxOctets)
          BY <1>1, <2>1 DEF Io!TypeOK
      <4> HIDE DEF first
      <4>2. (outbox \o first) \o write_buffer' = outbox \o (first \o write_buffer')
          BY <4>1, ConcatAssociative
      <4> QED BY <1>2, <2>1, <4>2 DEF first
    <3> QED BY <1>1, <1>2, <3>1 DEF Echo
  <2>5. Buffered' /\ Watched' /\ LastHandler'
      BY <1>1, <1>2 DEF Buffered, Watched, LastHandler, Io!do_operations
  <2> QED BY <2>3, <2>4, <2>5 DEF IoInv
<1>3. CASE /\ Io!do_operations(wants, reader, "idle")
           /\ UNCHANGED <<wants, write_buffer, outbox, sent, inbox, deaf>>
  <2>1. reader' = "idle" /\ writer' = "pending" /\ UNCHANGED open
      BY <1>1, <1>3 DEF Io!do_operations
  <2>2. /\ Watched' /\ LastHandler' /\ reader' \in Io!Wait /\ writer' \in Io!Wait
        /\ open' \in BOOLEAN
      BY <1>1, <1>3, <2>1 DEF Watched, LastHandler, Io!Wait, Io!TypeOK
  <2> QED BY <1>1, <1>3, <2>2, WaitsOnly DEF Io!TypeOK
<1>4. CASE /\ Io!Close(reader, "idle")
           /\ UNCHANGED <<wants, write_buffer, outbox, sent, inbox, deaf>>
  <2>1. reader' = "idle" /\ writer' = "idle" /\ open' = FALSE
      BY <1>1, <1>4 DEF Io!Close, Io!Abort
  <2>2. Watched' /\ LastHandler' /\ reader' \in Io!Wait /\ writer' \in Io!Wait
      BY <2>1 DEF Watched, LastHandler, Io!Wait
  <2> QED BY <1>1, <1>4, <2>1, <2>2, WaitsOnly DEF Io!TypeOK
<1> QED BY <1>2, <1>3, <1>4 DEF Io!OnWritable

LEMMA ClientSendsInv == ASSUME Io!IoAssumption, IoInv, Io!ClientSends PROVE IoInv'
<1> DEFINE before == outbox \o write_buffer
           numbers == [n \in 1..sent |-> n]
<1>1. /\ Io!TypeOK /\ before \o inbox = numbers /\ sent \in Nat
      /\ sent + 1 \in 1..MaxOctets
    BY IoNumbers DEF IoInv, Io!TypeOK, Echo, Io!ClientSends
<1>2. /\ before \in Seq(1..MaxOctets) /\ inbox \in Seq(1..MaxOctets)
      /\ inbox' = Append(inbox, sent + 1) /\ inbox' \in Seq(1..MaxOctets)
      /\ sent' = sent + 1
    BY <1>1, ConcatProperties, AppendProperties DEF Io!TypeOK, Io!ClientSends
<1>3. before \o inbox' = Append(before \o inbox, sent + 1)
  <2> HIDE DEF before
  <2>1. before \o inbox \in Seq(1..MaxOctets) /\ <<sent + 1>> \in Seq(1..MaxOctets)
    <3>1. before \o inbox \in Seq(1..MaxOctets)
        BY <1>2, ConcatProperties, Zenon
    <3> QED BY <1>1, <3>1
  <2>2. inbox' = inbox \o <<sent + 1>>
      BY <1>1, <1>2, AppendIsConcat
  <2>3. Append(before \o inbox, sent + 1) = (before \o inbox) \o <<sent + 1>>
      BY <1>1, <2>1, AppendIsConcat
  <2> QED BY <1>2, <2>1, <2>2, <2>3, ConcatAssociative
<1>4. numbers \in Seq(Nat) /\ Len(numbers) = sent
    BY <1>1
<1>5. Append(numbers, sent + 1) = [n \in 1..(sent + 1) |-> n]
  <2> DEFINE more == [n \in 1..(sent + 1) |-> n]
  <2>1. more \in Seq(Nat) /\ Len(more) = sent + 1
      BY <1>1
  <2>2. /\ Append(numbers, sent + 1) \in Seq(Nat)
        /\ Len(Append(numbers, sent + 1)) = sent + 1
        /\ \A i \in 1..sent : Append(numbers, sent + 1)[i] = i
        /\ Append(numbers, sent + 1)[sent + 1] = sent + 1
      BY <1>1, <1>4, AppendProperties
  <2>3. \A i \in 1..(sent + 1) : Append(numbers, sent + 1)[i] = more[i]
      BY <1>1, <2>2
  <2> QED BY <2>1, <2>2, <2>3, SeqEqual
<1>6. Echo'
    BY <1>1, <1>2, <1>3, <1>5 DEF Echo, Io!ClientSends
<1>7. Io!TypeOK'
    BY <1>1, <1>2, IoNumbers DEF Io!TypeOK, Io!ClientSends
<1> QED BY <1>6, <1>7 DEF IoInv, Buffered, Watched, LastHandler, Io!ClientSends

LEMMA IoNextInv == Io!IoAssumption /\ IoInv /\ [Io!Next]_Io!vars => IoInv'
<1>1. ASSUME IoInv, UNCHANGED Io!vars PROVE IoInv'
    BY <1>1 DEF Io!vars, IoInv, Io!TypeOK, Echo, Buffered, Watched, LastHandler
<1> QED BY <1>1, WaitsInv, OnReadableInv, OnWriteWaitFailedInv, OnWritableInv,
           ClientSendsInv DEF Io!Next

----------------------------------------------------------------------------
(* The composed write                                                      *)

\* The body runs, or an operation it has started, or it has completed.  It is
\* first called without an error, and the coroutine is at its end only when it
\* has completed.
WriteInv ==
    /\ Write!TypeOK
    /\ completed = 1 <=> ~ready /\ outstanding = "none"
    /\ ready => outstanding = "none"
    /\ freed <=> completed = 1
    /\ place = "starting" => ~err /\ outstanding = "none"
    /\ place = "end" => completed = 1

LEMMA WriteInitInv == ASSUME MaxCount \in Nat, Write!Init PROVE WriteInv
<1>1. err = FALSE /\ ready = TRUE /\ freed = FALSE
    BY DEF Write!Init
<1>2. {err, ready, freed} \subseteq BOOLEAN
    BY <1>1
<1> QED BY <1>1, <1>2 DEF Write!Init, WriteInv, Write!TypeOK

LEMMA WriteNextInv == MaxCount \in Nat /\ WriteInv /\ [Write!Next]_Write!vars => WriteInv'
<1> SUFFICES ASSUME MaxCount \in Nat, WriteInv, [Write!Next]_Write!vars PROVE WriteInv'
    OBVIOUS
<1>1. CASE UNCHANGED Write!vars
    BY <1>1 DEF Write!vars, WriteInv, Write!TypeOK
<1>2. CASE Write!Run
  <2>1. /\ ready /\ completed = 0 /\ ~freed /\ outstanding = "none" /\ ready' = FALSE
        /\ UNCHANGED <<form, err>>
      BY <1>2 DEF Write!Run, WriteInv, Write!TypeOK
  <2>2. \/ /\ completed' = 0 /\ freed' = freed /\ outstanding' \in {"timer", "write"}
           /\ repeat_count' \in 0..MaxCount /\ place' \in {"waiting", "writing"}
        \/ /\ completed' = 1 /\ freed' = TRUE /\ outstanding' = "none"
           /\ repeat_count' = repeat_count
           /\ (place' = place /\ place # "end") \/ place' = "end"
      BY <1>2, <2>1 DEF Write!Run, Write!RunStateMachine, Write!RunCoroutine, Write!Starts,
         Write!Completes, WriteInv, Write!TypeOK
  <2>3. {err', ready', freed'} \subseteq BOOLEAN
      BY <2>1, <2>2 DEF WriteInv, Write!TypeOK
  <2>4. Write!TypeOK'
      BY <2>1, <2>2, <2>3 DEF WriteInv, Write!TypeOK
  <2> QED BY <2>1, <2>2, <2>4 DEF WriteInv, Write!TypeOK
<1>3. CASE Write!OperationEnds
  <2>1. /\ completed = 0 /\ ~freed /\ outstanding' = "none" /\ ready' = TRUE
        /\ err' \in BOOLEAN /\ place \in {"waiting", "writing"}
        /\ UNCHANGED <<form, repeat_count, place, completed, freed>>
      BY <1>3 DEF Write!OperationEnds, WriteInv, Write!TypeOK
  <2>2. {err', ready', freed'} \subseteq BOOLEAN
      BY <2>1 DEF WriteInv, Write!TypeOK
  <2> QED BY <2>1, <2>2 DEF WriteInv, Write!TypeOK
<1> QED BY <1>1, <1>2, <1>3 DEF Write!Next

\* The body that is run by a completion takes one step of the abstract
\* operation; the completion itself is not seen.
LEMMA WriteStepMaps ==
    ASSUME WriteInv, [Write!Next]_Write!vars
    PROVE  [Write!Abstract!Next]_Write!Abstract!vars
<1>1. CASE UNCHANGED Write!vars
    BY <1>1 DEF Write!vars, Write!Abstract!vars
<1>2. CASE Write!Run
  <2>1. ready /\ completed = 0 /\ err' = err
      BY <1>2 DEF Write!Run, WriteInv, Write!TypeOK
  <2>2. CASE Write!RunStateMachine
      BY <1>2, <2>1, <2>2 DEF Write!RunStateMachine, Write!Starts, Write!Completes,
         Write!Repeats, WriteInv, Write!TypeOK,
         Write!Abstract!Next, Write!Abstract!Round, Write!Abstract!Complete
  <2>3. CASE Write!RunCoroutine
      BY <1>2, <2>1, <2>3 DEF Write!RunCoroutine, Write!Starts, Write!Completes,
         WriteInv, Write!TypeOK,
         Write!Abstract!Next, Write!Abstract!Round, Write!Abstract!Complete
  <2> QED BY <1>2, <2>2, <2>3 DEF Write!Run
<1>3. CASE Write!OperationEnds
    BY <1>3 DEF Write!OperationEnds, WriteInv, Write!TypeOK, Write!Abstract!vars
<1> QED BY <1>1, <1>2, <1>3 DEF Write!Next

----------------------------------------------------------------------------
(* The ping-pong                                                           *)

\* Before the connection is made nothing has been sent; while it is open a pong
\* is outstanding.
PingInv ==
    /\ Ping!TypeOK /\ Ping!PongsMatchPings
    /\ phase = "connecting" => /\ position = 0 /\ pongs = 0
                               /\ toServer = <<>> /\ toPinger = <<>>
    /\ phase = "open" => pongs < NUM_PINGS

Characters == 0..Length - 1

LEMMA PingNumbers ==
    ASSUME Ping!PingPongAssumption
    PROVE  Length \in Nat \ {0} /\ NUM_PINGS \in Nat \ {0}
BY DEF Ping!PingPongAssumption

\* What is left of a PING after its first k characters.
RestFrom(k) == SubSeq(Ping!PING, k + 1, Length)

LEMMA PINGFacts ==
    ASSUME Ping!PingPongAssumption
    PROVE  /\ Ping!PING \in Seq(Characters) /\ Len(Ping!PING) = Length
           /\ \A x \in 1..Length : Ping!PING[x] = x - 1
<1>1. Length \in Nat /\ \A x \in 1..Length : x - 1 \in Characters
    BY PingNumbers DEF Characters
<1>2. Ping!PING \in [1..Length -> Characters]
    BY <1>1 DEF Ping!PING
<1> QED BY <1>1, <1>2 DEF Ping!PING

LEMMA RestFacts ==
    ASSUME Ping!PingPongAssumption, NEW k \in 0..Length
    PROVE  /\ RestFrom(k) \in Seq(Characters) /\ Len(RestFrom(k)) = Length - k
           /\ \A x \in 1..Length - k : RestFrom(k)[x] = k + x - 1
<1>1. Length \in Nat
    BY PingNumbers
<1>2. /\ k + 1 \in 1..Len(Ping!PING) + 1 /\ Length \in (k + 1) - 1..Len(Ping!PING)
      /\ Ping!PING \in Seq(Characters) /\ Len(Ping!PING) = Length
    BY <1>1, PINGFacts
<1>3. /\ RestFrom(k) \in Seq(Characters)
      /\ Len(RestFrom(k)) = IF k + 1 <= Length THEN Length - (k + 1) + 1 ELSE 0
      /\ \A x \in 1..Length - (k + 1) + 1 : RestFrom(k)[x] = Ping!PING[k + 1 + x - 1]
    BY <1>2, SubSeqProperties DEF RestFrom
<1>4. \A x \in 1..Length - k : RestFrom(k)[x] = k + x - 1
  <2> SUFFICES ASSUME NEW x \in 1..Length - k
               PROVE  RestFrom(k)[x] = k + x - 1
      OBVIOUS
  <2>1. /\ x \in 1..Length - (k + 1) + 1 /\ k + 1 + x - 1 \in 1..Length
        /\ (k + 1 + x - 1) - 1 = k + x - 1
      BY <1>1
  <2> QED BY <1>3, <2>1, PINGFacts
<1> QED BY <1>1, <1>3, <1>4

----------------------------------------------------------------------------
(* The loop over the characters of a read.  As it is a recursive function, *)
(* it has to be shown to be one: Expected is what it computes.             *)

Turn(f, k, chars, n) ==
    IF n = 0 THEN [state |-> k, pongs |-> pongs, matched |-> matched, written |-> <<>>]
    ELSE IF f[n - 1].pongs = NUM_PINGS THEN f[n - 1] ELSE Ping!Count(f[n - 1], chars[n])

Expected(k, n) ==
    IF k + n < Length
    THEN [state |-> k + n, pongs |-> pongs, matched |-> matched, written |-> <<>>]
    ELSE [state |-> 0, pongs |-> pongs + 1, matched |-> matched,
          written |-> IF pongs + 1 < NUM_PINGS THEN Ping!PING ELSE <<>>]

\* A function that solves the equation of the loop is the loop.
LEMMA LoopIsFunction ==
    ASSUME NEW k, NEW chars,
           NEW g, g = [n \in 0..Len(chars) |-> Turn(g, k, chars, n)]
    PROVE  Ping!CountedFrom(k, chars)
             = [n \in 0..Len(chars) |-> Turn(Ping!CountedFrom(k, chars), k, chars, n)]
BY Zenon DEF Ping!CountedFrom, Turn

\* The characters of a read are the next of a PING.
Next_of(k, chars) ==
    /\ chars \in Seq(Characters) /\ Len(chars) <= Length - k
    /\ \A x \in 1..Len(chars) : chars[x] = k + x - 1

LEMMA ExpectedTurns ==
    ASSUME Ping!PingPongAssumption, NEW k \in Characters, NEW chars, Next_of(k, chars),
           pongs \in 0..NUM_PINGS - 1, matched = TRUE,
           NEW f, NEW n \in 0..Len(chars), n > 0 => f[n - 1] = Expected(k, n - 1)
    PROVE  Turn(f, k, chars, n) = Expected(k, n)
<1>1. /\ Length \in Nat \ {0} /\ NUM_PINGS \in Nat \ {0} /\ Len(chars) \in Nat
      /\ k \in 0..Length - 1 /\ n \in 0..Length - k /\ Len(chars) <= Length - k
    BY PingNumbers, LenProperties DEF Next_of, Characters
<1>2. CASE n = 0
  <2>1. k + 0 = k /\ k < Length
      BY <1>1
  <2>2. Turn(f, k, chars, 0) = Expected(k, 0)
      BY <2>1 DEF Turn, Expected
  <2> QED BY <1>2, <2>2
<1>3. CASE n > 0
  <2> DEFINE q == f[n - 1]
  <2>1. q = [state |-> k + (n - 1), pongs |-> pongs, matched |-> matched, written |-> <<>>]
      BY <1>1, <1>3 DEF Expected
  <2>2. Turn(f, k, chars, n) = Ping!Count(q, chars[n])
      BY <1>1, <1>3, <2>1 DEF Turn
  <2>3. chars[n] = q.state
      BY <1>1, <1>3, <2>1 DEF Next_of
  <2> HIDE DEF q
  <2>4. q.state + 1 = k + n
      BY <1>1, <2>1
  <2>5. CASE k + n < Length
    <3>1. (q.state + 1) % Length = k + n /\ k + n # 0
        BY <1>1, <1>3, <2>4, <2>5
    <3>2. <<>> \o <<>> = <<>>
        BY ConcatEmptySeq, EmptySeq
    <3>3. Ping!Count(q, chars[n])
            = [state |-> k + n, pongs |-> pongs, matched |-> matched, written |-> <<>>]
        BY <2>1, <2>3, <3>1, <3>2 DEF Ping!Count
    <3> QED BY <2>2, <2>5, <3>3 DEF Expected
  <2>6. CASE ~(k + n < Length)
    <3>1. k + n = Length /\ (q.state + 1) % Length = 0
        BY <1>1, <1>3, <2>4, <2>6
    <3>2. <<>> \o <<>> = <<>> /\ <<>> \o Ping!PING = Ping!PING
        BY ConcatEmptySeq, EmptySeq, PINGFacts
    <3>3. Ping!Count(q, chars[n])
            = [state |-> 0, pongs |-> pongs + 1, matched |-> matched,
               written |-> IF pongs + 1 < NUM_PINGS THEN Ping!PING ELSE <<>>]
        BY <2>1, <2>3, <3>1, <3>2 DEF Ping!Count
    <3> QED BY <2>2, <2>6, <3>3 DEF Expected
  <2> QED BY <2>5, <2>6
<1> QED BY <1>1, <1>2, <1>3

\* The loop does what is expected: the first turn that did not would follow one
\* that did.
LEMMA LoopAsExpected ==
    ASSUME Ping!PingPongAssumption, NEW k \in Characters, NEW chars, Next_of(k, chars),
           pongs \in 0..NUM_PINGS - 1, matched = TRUE
    PROVE  Ping!CountedFrom(k, chars)[Len(chars)] = Expected(k, Len(chars))
<1> DEFINE f == Ping!CountedFrom(k, chars)
           g == [n \in 0..Len(chars) |-> Expected(k, n)]
           wrong == {n \in 0..Len(chars) : f[n] # Expected(k, n)}
<1>1. Len(chars) \in Nat
    BY LenProperties DEF Next_of
<1>2. f = [n \in 0..Len(chars) |-> Turn(f, k, chars, n)]
  <2>1. ASSUME NEW n \in 0..Len(chars) PROVE Turn(g, k, chars, n) = Expected(k, n)
    <3>1. n > 0 => g[n - 1] = Expected(k, n - 1)
        BY <1>1
    <3> HIDE DEF g
    <3> QED BY <3>1, ExpectedTurns
  <2>2. g = [n \in 0..Len(chars) |-> Turn(g, k, chars, n)]
      BY <2>1
  <2> HIDE DEF g
  <2> QED BY <2>2, LoopIsFunction
<1> HIDE DEF f
<1>3. ASSUME wrong # {} PROVE FALSE
  <2>1. PICK m \in wrong : \A n \in wrong : m <= n
    <3>1. wrong \in SUBSET Nat
        BY <1>1
    <3> HIDE DEF wrong
    <3> QED BY <1>3, <3>1, LeastNumber
  <2>2. m \in 0..Len(chars) /\ f[m] = Turn(f, k, chars, m) /\ f[m] # Expected(k, m)
      BY <1>2, <2>1
  <2>3. m > 0 => f[m - 1] = Expected(k, m - 1)
    <3>1. m > 0 => m - 1 \in 0..Len(chars) /\ ~(m <= m - 1)
        BY <1>1, <2>2
    <3> QED BY <2>1, <3>1
  <2> QED BY <2>2, <2>3, ExpectedTurns
<1> QED BY <1>1, <1>3 DEF f

----------------------------------------------------------------------------
(* The steps of the two                                                    *)

LEMMA PingInitInv == ASSUME Ping!PingPongAssumption, Ping!Init PROVE PingInv
<1>1. /\ phase = "connecting" /\ position = 0 /\ pongs = 0 /\ matched = TRUE
      /\ server = "listening" /\ toServer = <<>> /\ toPinger = <<>>
    BY DEF Ping!Init
<1>2. {toServer, toPinger} \subseteq Seq(0..Length - 1)
    BY <1>1
<1> QED BY <1>1, <1>2, PingNumbers DEF PingInv, Ping!TypeOK, Ping!PongsMatchPings

LEMMA OnConnectInv == ASSUME Ping!PingPongAssumption, PingInv, Ping!OnConnect PROVE PingInv'
<1>1. /\ phase' = "open" /\ toServer' = Ping!PING /\ toPinger' = <<>>
      /\ UNCHANGED <<position, pongs, matched, server>>
      /\ position = 0 /\ pongs = 0
    BY DEF Ping!OnConnect, PingInv
<1>2. Ping!PING \in Seq(Characters)
    BY PINGFacts
<1>3. <<>> \o Ping!PING = Ping!PING
    BY <1>2, ConcatEmptySeq
<1>4. SubSeq(Ping!PING, 1, Length) = Ping!PING
    BY PINGFacts, SubSeqFull
<1>5. Ping!TypeOK'
  <2>1. <<>> \in Seq(Characters)
      OBVIOUS
  <2> QED BY <1>1, <1>2, <2>1 DEF PingInv, Ping!TypeOK, Characters
<1>6. Ping!PongsMatchPings'
    BY <1>1, <1>3, <1>4 DEF PingInv, Ping!PongsMatchPings
<1> QED BY <1>1, <1>5, <1>6, PingNumbers DEF PingInv

\* The characters under way, when the connection is open.
LEMMA UnderWay ==
    ASSUME Ping!PingPongAssumption, PingInv, phase = "open"
    PROVE  /\ position \in Characters /\ toPinger \in Seq(Characters)
           /\ toServer \in Seq(Characters)
           /\ toPinger \o toServer = RestFrom(position)
           /\ Len(toPinger) \in Nat /\ Len(toServer) \in Nat
           /\ Len(toPinger) + Len(toServer) = Length - position
           /\ \A x \in 1..Len(toPinger) : toPinger[x] = position + x - 1
<1>1. /\ position \in Characters /\ toPinger \in Seq(Characters)
      /\ toServer \in Seq(Characters) /\ toPinger \o toServer = RestFrom(position)
    BY DEF PingInv, Ping!TypeOK, Ping!PongsMatchPings, Characters, RestFrom
<1>2. Len(toPinger) \in Nat /\ Len(toServer) \in Nat /\ position \in 0..Length
    BY <1>1, LenProperties, PingNumbers DEF Characters
<1>3. /\ Len(toPinger \o toServer) = Len(toPinger) + Len(toServer)
      /\ \A x \in 1..Len(toPinger) : (toPinger \o toServer)[x] = toPinger[x]
  <2>1. /\ Len(toPinger \o toServer) = Len(toPinger) + Len(toServer)
        /\ \A x \in 1..(Len(toPinger) + Len(toServer)) :
              (toPinger \o toServer)[x] = IF x <= Len(toPinger) THEN toPinger[x]
                                          ELSE toServer[x - Len(toPinger)]
    <3>1. {toPinger, toServer} \subseteq Seq(Characters)
        BY <1>1
    <3> QED BY <3>1, ConcatProperties
  <2> QED BY <1>2, <2>1
<1>4. /\ Len(RestFrom(position)) = Length - position
      /\ \A x \in 1..Length - position : RestFrom(position)[x] = position + x - 1
    BY <1>2, RestFacts
<1>5. Len(toPinger) + Len(toServer) = Length - position
    BY <1>1, <1>3, <1>4
<1>6. \A x \in 1..Len(toPinger) : x \in 1..Length - position
    BY <1>2, <1>5, PingNumbers
<1> QED BY <1>1, <1>2, <1>3, <1>4, <1>5, <1>6

LEMMA ReadInv == ASSUME Ping!PingPongAssumption, PingInv, Ping!Read PROVE PingInv'
<1>1. /\ phase = "open" /\ server' = server
      /\ position \in Characters /\ toPinger \in Seq(Characters)
      /\ toServer \in Seq(Characters)
      /\ toPinger \o toServer = RestFrom(position)
      /\ Len(toPinger) \in Nat /\ Len(toServer) \in Nat
      /\ Len(toPinger) + Len(toServer) = Length - position
      /\ \A x \in 1..Len(toPinger) : toPinger[x] = position + x - 1
    BY UnderWay DEF Ping!Read
<1>2. /\ pongs \in 0..NUM_PINGS - 1 /\ matched = TRUE
      /\ Length \in Nat \ {0} /\ NUM_PINGS \in Nat \ {0}
      /\ position \in 0..Length - 1
    BY <1>1, PingNumbers DEF PingInv, Ping!TypeOK, Ping!PongsMatchPings, Characters
<1>3. PICK n \in 1..Len(toPinger) :
         LET after == Ping!Counted(SubSeq(toPinger, 1, n))
         IN  /\ toPinger' = SubSeq(toPinger, n + 1, Len(toPinger))
             /\ position' = after.state /\ pongs' = after.pongs /\ matched' = after.matched
             /\ toServer' = toServer \o after.written
             /\ phase' = IF after.pongs = NUM_PINGS THEN "closing" ELSE phase
    BY DEF Ping!Read
<1> DEFINE chars == SubSeq(toPinger, 1, n)
           rest == SubSeq(toPinger, n + 1, Len(toPinger))
<1>4. n \in 1..Length - position /\ n \in 0..Len(toPinger) /\ n \in Nat \ {0}
    BY <1>1, <1>2
<1>5. /\ chars \in Seq(Characters) /\ Len(chars) = n
      /\ rest \in Seq(Characters) /\ Len(rest) = Len(toPinger) - n
      /\ chars \o rest = toPinger
    BY <1>1, <1>4, Cut
<1>6. \A x \in 1..n : chars[x] = position + x - 1
  <2>1. \A x \in 1..n : toPinger[x] = chars[x]
    <3>1. {chars, rest} \subseteq Seq(Characters)
        BY <1>5
    <3> HIDE DEF chars, rest
    <3>2. \A x \in 1..(Len(chars) + Len(rest)) :
             (chars \o rest)[x] = IF x <= Len(chars) THEN chars[x] ELSE rest[x - Len(chars)]
        BY <3>1, ConcatProperties
    <3>3. \A x \in 1..n : x \in 1..(Len(chars) + Len(rest)) /\ x <= Len(chars)
        BY <1>1, <1>4, <1>5
    <3> QED BY <1>5, <3>2, <3>3
  <2>2. \A x \in 1..n : x \in 1..Len(toPinger)
      BY <1>1, <1>4
  <2> QED BY <1>1, <2>1, <2>2
<1> HIDE DEF chars, rest
<1>7. Ping!Counted(chars) = Expected(position, n)
  <2>1. Next_of(position, chars)
      BY <1>2, <1>4, <1>5, <1>6 DEF Next_of
  <2> QED BY <1>1, <1>2, <1>5, <2>1, LoopAsExpected DEF Ping!Counted
<1>8. /\ toPinger' = rest
      /\ position' = Expected(position, n).state /\ pongs' = Expected(position, n).pongs
      /\ matched' = Expected(position, n).matched
      /\ toServer' = toServer \o Expected(position, n).written
      /\ phase' = IF Expected(position, n).pongs = NUM_PINGS THEN "closing" ELSE phase
    BY <1>3, <1>7 DEF chars, rest
<1>9. rest \o toServer = RestFrom(position + n)
  <2>1. position + n \in 0..Length /\ position \in 0..Length
      BY <1>2, <1>4
  <2>2. /\ RestFrom(position + n) \in Seq(Characters)
        /\ Len(RestFrom(position + n)) = Length - (position + n)
        /\ \A x \in 1..Length - (position + n) :
              RestFrom(position + n)[x] = (position + n) + x - 1
      BY <2>1, RestFacts
  <2>3. /\ Len(RestFrom(position)) = Length - position
        /\ \A x \in 1..Length - position : RestFrom(position)[x] = position + x - 1
      BY <2>1, RestFacts
  <2>4. {chars, rest, toServer} \subseteq Seq(Characters)
      BY <1>1, <1>5
  <2>5. RestFrom(position) = chars \o (rest \o toServer)
    <3>1. (chars \o rest) \o toServer = chars \o (rest \o toServer)
        BY <2>4, ConcatAssociative
    <3> QED BY <1>1, <1>5, <3>1
  <2>6. rest \o toServer \in Seq(Characters) /\ Len(rest \o toServer) = Len(rest) + Len(toServer)
      BY <2>4, ConcatProperties
  <2> DEFINE tail == rest \o toServer
  <2>7. Len(tail) = Length - (position + n)
      BY <1>1, <1>2, <1>4, <1>5, <2>6
  <2>8. ASSUME NEW x \in 1..Length - (position + n)
        PROVE  tail[x] = RestFrom(position + n)[x]
    <3> HIDE DEF tail
    <3>1. {chars, tail} \subseteq Seq(Characters)
        BY <2>4, <2>6 DEF tail
    <3>2. n + x \in 1..(Len(chars) + Len(tail)) /\ ~(n + x <= Len(chars)) /\ (n + x) - Len(chars) = x
        BY <1>2, <1>4, <1>5, <2>7
    <3>3. (chars \o tail)[n + x] = tail[(n + x) - Len(chars)]
        BY <3>1, <3>2, ConcatProperties
    <3>4. n + x \in 1..Length - position /\ position + (n + x) - 1 = (position + n) + x - 1
        BY <1>2, <1>4
    <3>5. tail[x] = RestFrom(position)[n + x]
        BY <2>5, <3>2, <3>3 DEF tail
    <3> QED BY <2>2, <2>3, <3>4, <3>5
  <2> HIDE DEF tail
  <2>9. tail \in Seq(Characters)
      BY <2>6 DEF tail
  <2>10. tail = RestFrom(position + n)
      BY <1>2, <1>4, <2>2, <2>7, <2>8, <2>9, SeqEqual
  <2> QED BY <2>10 DEF tail
<1>10. CASE position + n < Length
  <2>1. /\ toPinger' = rest /\ position' = position + n /\ pongs' = pongs /\ matched' = TRUE
        /\ toServer' = toServer \o <<>> /\ phase' = "open"
      BY <1>1, <1>2, <1>8, <1>10 DEF Expected
  <2>2. toServer' = toServer
      BY <1>1, <2>1, ConcatEmptySeq
  <2>3. position' \in 0..Length - 1
      BY <1>2, <1>4, <1>10, <2>1
  <2>4. Ping!TypeOK'
      BY <1>1, <1>2, <1>5, <2>1, <2>2, <2>3 DEF PingInv, Ping!TypeOK, Characters
  <2>5. Ping!PongsMatchPings'
      BY <1>9, <2>1, <2>2 DEF Ping!PongsMatchPings, RestFrom, Ping!PING
  <2> QED BY <1>2, <2>1, <2>4, <2>5 DEF PingInv
<1>11. CASE ~(position + n < Length)
  <2>1. /\ toPinger' = rest /\ position' = 0 /\ pongs' = pongs + 1 /\ matched' = TRUE
        /\ toServer' = toServer \o (IF pongs + 1 < NUM_PINGS THEN Ping!PING ELSE <<>>)
        /\ phase' = IF pongs + 1 = NUM_PINGS THEN "closing" ELSE "open"
      BY <1>1, <1>2, <1>8, <1>11 DEF Expected
  <2>2. position + n = Length /\ Len(toPinger) = n /\ Len(toServer) = 0 /\ Len(rest) = 0
      BY <1>1, <1>2, <1>4, <1>5, <1>11
  <2>3. toServer = <<>> /\ rest = <<>>
      BY <1>1, <1>5, <2>2, EmptySeq
  <2>4. /\ Ping!PING \in Seq(Characters) /\ SubSeq(Ping!PING, 0 + 1, Length) = Ping!PING
        /\ <<>> \o Ping!PING = Ping!PING /\ <<>> \o <<>> = <<>>
    <3>1. Ping!PING \in Seq(Characters) /\ SubSeq(Ping!PING, 1, Length) = Ping!PING
        BY PINGFacts, SubSeqFull
    <3>2. <<>> \in Seq(Characters) /\ 0 + 1 = 1
        OBVIOUS
    <3> QED BY <3>1, <3>2, ConcatEmptySeq
  <2>5. toServer' = IF pongs + 1 < NUM_PINGS THEN Ping!PING ELSE <<>>
      BY <2>1, <2>3, <2>4
  <2>6. Ping!TypeOK'
    <3>1. toServer' \in Seq(Characters) /\ toPinger' \in Seq(Characters)
      <4>1. <<>> \in Seq(Characters)
          OBVIOUS
      <4> QED BY <1>5, <2>1, <2>4, <2>5, <4>1
    <3>2. pongs' \in 0..NUM_PINGS /\ position' \in 0..Length - 1
        BY <1>2, <2>1
    <3> QED BY <1>1, <2>1, <3>1, <3>2 DEF PingInv, Ping!TypeOK, Characters
  <2>7. toPinger' \o toServer' = toServer'
      BY <2>1, <2>3, <2>4, <2>5
  <2>8. Ping!PongsMatchPings'
      BY <1>2, <2>1, <2>4, <2>5, <2>7 DEF Ping!PongsMatchPings, Ping!PING
  <2> QED BY <1>2, <2>1, <2>6, <2>8 DEF PingInv
<1> QED BY <1>10, <1>11

LEMMA EchoInv == ASSUME Ping!PingPongAssumption, PingInv, Ping!Echo PROVE PingInv'
<1>1. UNCHANGED <<phase, position, pongs, matched, server>>
    BY DEF Ping!Echo
<1>2. toServer \in Seq(Characters) /\ toPinger \in Seq(Characters)
    BY DEF PingInv, Ping!TypeOK, Characters
<1>3. PICK n \in 1..Len(toServer) :
         /\ toPinger' = toPinger \o SubSeq(toServer, 1, n)
         /\ toServer' = SubSeq(toServer, n + 1, Len(toServer))
    BY DEF Ping!Echo
<1> DEFINE first == SubSeq(toServer, 1, n)
<1>4. /\ first \in Seq(Characters) /\ toServer' \in Seq(Characters)
      /\ first \o toServer' = toServer /\ toServer # <<>>
    <2>1. n \in 0..Len(toServer) /\ toServer # <<>>
        BY <1>2, <1>3, LenProperties, EmptySeq
    <2> QED BY <1>2, <1>3, <2>1, Cut
<1> HIDE DEF first
<1>5. toPinger' = toPinger \o first
    BY <1>3 DEF first
<1>6. toPinger' \o toServer' = toPinger \o toServer
  <2>1. {toPinger, first, toServer'} \subseteq Seq(Characters)
      BY <1>2, <1>4
  <2>2. (toPinger \o first) \o toServer' = toPinger \o (first \o toServer')
      BY <2>1, ConcatAssociative
  <2> QED BY <1>4, <1>5, <2>2
<1>7. toPinger' \in Seq(Characters)
    BY <1>2, <1>4, <1>5, ConcatProperties
<1>8. Ping!TypeOK'
    BY <1>1, <1>4, <1>7 DEF PingInv, Ping!TypeOK, Characters
<1>9. Ping!PongsMatchPings'
    BY <1>1, <1>6 DEF PingInv, Ping!PongsMatchPings, Ping!PING
<1> QED BY <1>1, <1>4, <1>8, <1>9 DEF PingInv

LEMMA PingNextInv == Ping!PingPongAssumption /\ PingInv /\ [Ping!Next]_Ping!vars => PingInv'
<1>1. ASSUME PingInv, UNCHANGED <<position, pongs, matched, toServer, toPinger>>,
             phase' = phase \/ (phase = "closing" /\ phase' = "closed"),
             server' \in {"listening", "open", "closed"}
      PROVE  PingInv'
  <2>1. Ping!TypeOK'
      BY <1>1 DEF PingInv, Ping!TypeOK
  <2>2. Ping!PongsMatchPings'
      BY <1>1 DEF PingInv, Ping!PongsMatchPings, Ping!PING
  <2> QED BY <1>1, <2>1, <2>2 DEF PingInv
<1>2. ASSUME PingInv, \/ UNCHANGED Ping!vars
                      \/ Ping!OnClose \/ Ping!Accept \/ Ping!EchoEnds
      PROVE  PingInv'
  <2>1. server \in {"listening", "open", "closed"}
      BY <1>2 DEF PingInv, Ping!TypeOK
  <2> QED BY <1>1, <1>2, <2>1 DEF Ping!vars, Ping!OnClose, Ping!Accept, Ping!EchoEnds
<1> QED BY <1>2, OnConnectInv, ReadInv, EchoInv DEF Ping!Next

----------------------------------------------------------------------------
(* The stack                                                               *)

LEMMA StackNumbers == ASSUME Stack!StackAssumption PROVE StackSize \in Nat
BY DEF Stack!StackAssumption

LEMMA StackInitInv == ASSUME Stack!StackAssumption, Stack!Init PROVE Stack!TypeOK
<1>1. /\ top = 0 /\ elements = {} /\ gone = FALSE /\ last = None
      /\ S = [x \in Stack!Slots |-> Raw]
    BY DEF Stack!Init
<1>2. top \in 0..StackSize /\ elements = 0..top - 1
    BY <1>1, StackNumbers
<1>3. S \in [Stack!Slots -> Values \cup {Raw}]
    BY <1>1
<1> QED BY <1>1, <1>2, <1>3 DEF Stack!TypeOK

LEMMA StackNextInv ==
    Stack!StackAssumption /\ Stack!TypeOK /\ [Stack!Next]_Stack!vars => Stack!TypeOK'
<1> SUFFICES ASSUME Stack!StackAssumption, Stack!TypeOK, [Stack!Next]_Stack!vars
             PROVE  Stack!TypeOK'
    OBVIOUS
<1>1. /\ top \in 0..StackSize /\ StackSize \in Nat /\ elements = 0..top - 1
      /\ S \in [Stack!Slots -> Values \cup {Raw}]
    BY StackNumbers DEF Stack!TypeOK
<1>2. CASE UNCHANGED Stack!vars
    BY <1>2 DEF Stack!vars, Stack!TypeOK
<1>3. ASSUME NEW v \in Values, Stack!Push(v) PROVE Stack!TypeOK'
  <2>1. top' = top + 1 /\ top' \in 0..StackSize /\ elements' = 0..top' - 1
      BY <1>1, <1>3 DEF Stack!Push
  <2> QED BY <1>1, <1>3, <2>1 DEF Stack!Push, Stack!TypeOK
<1>4. CASE Stack!PopEmpty
    BY <1>4 DEF Stack!PopEmpty, Stack!TypeOK
<1>5. CASE Stack!Pop
  <2>1. /\ top - 1 \in Stack!Slots /\ top' = top - 1 /\ top' \in 0..StackSize
        /\ elements' = 0..top' - 1
      BY <1>1, <1>5 DEF Stack!Pop, Stack!Slots
  <2>2. S' = [S EXCEPT ![top - 1] = S[top - 1]] /\ last' = S[top - 1] /\ gone' = gone
      BY <1>5 DEF Stack!Pop, Stack!Remains
  <2> QED BY <1>1, <2>1, <2>2 DEF Stack!TypeOK
<1>6. CASE Stack!Free
  <2>1. elements' = 0..top' - 1 /\ top' = 0
      BY <1>6 DEF Stack!Free
  <2> QED BY <1>1, <1>6, <2>1 DEF Stack!Free, Stack!TypeOK
<1> QED BY <1>2, <1>3, <1>4, <1>5, <1>6 DEF Stack!Next

HeldBy(t, buffer) == [x \in 1..t |-> buffer[x - 1]]

LEMMA HeldByType ==
    ASSUME NEW t \in 0..StackSize, StackSize \in Nat,
           NEW buffer \in [Stack!Slots -> Values \cup {Raw}]
    PROVE  /\ HeldBy(t, buffer) \in Seq(Values \cup {Raw}) /\ Len(HeldBy(t, buffer)) = t
           /\ \A x \in 1..t : HeldBy(t, buffer)[x] = buffer[x - 1]
<1>1. \A x \in 1..t : x - 1 \in Stack!Slots
    BY DEF Stack!Slots
<1>2. HeldBy(t, buffer) \in [1..t -> Values \cup {Raw}] /\ t \in Nat
    BY <1>1 DEF HeldBy
<1> QED BY <1>2 DEF HeldBy

Contents == HeldBy(top, S)

\* A push appends to what the stack holds, a pop takes the last of it.
LEMMA StackStepMaps ==
    ASSUME Stack!StackAssumption, Stack!TypeOK, Stack!TypeOK', [Stack!Next]_Stack!vars
    PROVE  [Stack!Lifo!Next]_Stack!Lifo!vars
<1>1. /\ top \in 0..StackSize /\ StackSize \in Nat /\ top' \in 0..StackSize
      /\ S \in [Stack!Slots -> Values \cup {Raw}]
    BY StackNumbers DEF Stack!TypeOK
<1>2. /\ Contents \in Seq(Values \cup {Raw}) /\ Len(Contents) = top
      /\ \A x \in 1..top : Contents[x] = S[x - 1]
    BY <1>1, HeldByType DEF Contents
<1>3. /\ Contents' \in Seq(Values \cup {Raw}) /\ Len(Contents') = top'
      /\ \A x \in 1..top' : Contents'[x] = S'[x - 1]
  <2>1. S' \in [Stack!Slots -> Values \cup {Raw}]
      BY DEF Stack!TypeOK
  <2> QED BY <1>1, <2>1, HeldByType DEF Contents
<1>4. CASE UNCHANGED Stack!vars
    BY <1>4 DEF Stack!vars, Stack!Lifo!vars
<1>5. ASSUME NEW v \in Values, Stack!Push(v) PROVE Stack!Lifo!Next
  <2>1. top < StackSize /\ top' = top + 1 /\ S' = [S EXCEPT ![top] = v] /\ last' = last
      BY <1>5 DEF Stack!Push
  <2>2. /\ Append(Contents, v) \in Seq(Values \cup {Raw})
        /\ Len(Append(Contents, v)) = top + 1
        /\ \A x \in 1..top : Append(Contents, v)[x] = Contents[x]
        /\ Append(Contents, v)[top + 1] = v
      BY <1>2, AppendProperties
  <2>3. \A x \in 1..top + 1 : S'[x - 1] = IF x = top + 1 THEN v ELSE S[x - 1]
      BY <1>1, <2>1 DEF Stack!Slots
  <2>4. Contents' = Append(Contents, v)
    <3>1. Len(Contents') = Len(Append(Contents, v))
        BY <1>3, <2>1, <2>2
    <3>2. \A x \in 1..top + 1 : Contents'[x] = Append(Contents, v)[x]
        BY <1>1, <1>2, <1>3, <2>1, <2>2, <2>3
    <3> QED BY <1>3, <2>1, <2>2, <3>1, <3>2, SeqEqual
  <2>5. Stack!Lifo!Push(v)
      BY <1>2, <2>1, <2>4 DEF Stack!Lifo!Push, Contents, HeldBy
  <2> QED BY <2>5 DEF Stack!Lifo!Next
<1>6. CASE Stack!PopEmpty
  <2>1. Contents = <<>> /\ Contents' = Contents
      BY <1>2, <1>6, EmptySeq DEF Stack!PopEmpty, Contents, HeldBy
  <2>2. Stack!Lifo!PopEmpty
      BY <1>6, <2>1 DEF Stack!PopEmpty, Stack!Lifo!PopEmpty, Contents, HeldBy
  <2> QED BY <2>2 DEF Stack!Lifo!Next
<1>7. CASE Stack!Pop
  <2>1. top \in 1..StackSize /\ top' = top - 1 /\ last' = S[top - 1] /\ S' = S
      BY <1>1, <1>7 DEF Stack!Pop, Stack!Remains, Stack!Slots
  <2>2. Contents # <<>> /\ Contents[top] = S[top - 1]
      BY <1>2, <2>1, EmptySeq
  <2>3. /\ SubSeq(Contents, 1, top - 1) \in Seq(Values \cup {Raw})
        /\ Len(SubSeq(Contents, 1, top - 1)) = top - 1
        /\ \A x \in 1..top - 1 : SubSeq(Contents, 1, top - 1)[x] = Contents[x]
    <3>1. /\ 1 \in 1..Len(Contents) + 1 /\ top - 1 \in 1 - 1..Len(Contents)
          /\ \A x \in 1..top - 1 : 1 + x - 1 = x
        BY <1>2, <2>1
    <3>2. /\ SubSeq(Contents, 1, top - 1) \in Seq(Values \cup {Raw})
          /\ Len(SubSeq(Contents, 1, top - 1)) = top - 1
          /\ \A x \in 1..top - 1 : SubSeq(Contents, 1, top - 1)[x] = Contents[1 + x - 1]
        BY <1>2, <2>1, <3>1, SubSeqProperties
    <3> QED BY <3>1, <3>2
  <2>4. Contents' = SubSeq(Contents, 1, top - 1)
    <3>1. Len(Contents') = top - 1
        BY <1>3, <2>1
    <3>2. \A x \in 1..top - 1 : Contents'[x] = SubSeq(Contents, 1, top - 1)[x]
        BY <1>2, <1>3, <2>1, <2>3
    <3> QED BY <1>3, <2>3, <3>1, <3>2, SeqEqual
  <2>5. Stack!Lifo!Pop
      BY <1>2, <2>1, <2>2, <2>4 DEF Stack!Lifo!Pop, Stack!Lifo!Last, Stack!Lifo!Front, Contents, HeldBy
  <2> QED BY <2>5 DEF Stack!Lifo!Next
<1>8. CASE Stack!Free
  <2>1. top' = 0 /\ last' = last
      BY <1>8 DEF Stack!Free
  <2>2. Contents' = <<>>
      BY <1>3, <2>1, EmptySeq
  <2>3. Stack!Lifo!Discard
      BY <2>1, <2>2 DEF Stack!Lifo!Discard, Contents, HeldBy
  <2> QED BY <2>3 DEF Stack!Lifo!Next
<1> QED BY <1>4, <1>5, <1>6, <1>7, <1>8 DEF Stack!Next

----------------------------------------------------------------------------
(* The singleton                                                           *)

Constructs(x) == frames[x].what = "construct"

\* What is owned by the pointer or by make_unique is owned once: the object of a
\* constructor that is running is neither the instance nor that of another one.
OwnedOnce ==
    /\ instance # 0 => ~Singleton!UnderConstruction(instance)
    /\ \A x, y \in DOMAIN frames :
          Constructs(x) /\ Constructs(y) /\ frames[x].of = frames[y].of => x = y

\* An object that has not been made is not spoken of.
NotMade ==
    /\ instance <= made
    /\ \A x \in DOMAIN frames : frames[x].of <= made
    /\ \A o \in made + 1..MaxObjects : deleted[o] = 0

SingletonInv ==
    /\ Singleton!TypeOK /\ Singleton!EveryObjectIsOwned
    /\ OwnedOnce /\ NotMade

LEMMA SingletonNumbers ==
    ASSUME Singleton!SingletonAssumption
    PROVE  MaxObjects \in Nat \ {0} /\ MaxFrames \in Nat \ {0}
BY DEF Singleton!SingletonAssumption

LEMMA SingletonInitInv ==
    ASSUME Singleton!SingletonAssumption, Singleton!Init PROVE SingletonInv
BY SingletonNumbers DEF Singleton!Init, SingletonInv, Singleton!TypeOK, Singleton!Objects,
   Singleton!EveryObjectIsOwned, OwnedOnce, NotMade

\* A call puts its frame in front of the others.
LEMMA FrameAdded ==
    ASSUME NEW q \in Seq(Singleton!Frame), NEW f \in Singleton!Frame
    PROVE  /\ <<f>> \o q \in Seq(Singleton!Frame)
           /\ DOMAIN (<<f>> \o q) = 1..Len(q) + 1
           /\ (<<f>> \o q)[1] = f
           /\ \A x \in 1..Len(q) : (<<f>> \o q)[x + 1] = q[x]
<1>1. <<f>> \in Seq(Singleton!Frame) /\ Len(<<f>>) = 1 /\ <<f>>[1] = f /\ Len(q) \in Nat
    BY LenProperties
<1>2. /\ <<f>> \o q \in Seq(Singleton!Frame) /\ Len(<<f>> \o q) = 1 + Len(q)
      /\ \A x \in 1..(1 + Len(q)) : (<<f>> \o q)[x] = IF x <= 1 THEN <<f>>[x] ELSE q[x - 1]
    BY <1>1, ConcatProperties
<1> QED BY <1>1, <1>2, LenProperties

LEMMA FrameRemoved ==
    ASSUME NEW q \in Seq(Singleton!Frame), q # <<>>
    PROVE  /\ Head(q) = q[1] /\ 1 \in DOMAIN q /\ Len(q) \in Nat \ {0}
           /\ DOMAIN q = 1..Len(q)
           /\ Tail(q) \in Seq(Singleton!Frame) /\ Len(Tail(q)) = Len(q) - 1
           /\ DOMAIN Tail(q) = 1..Len(q) - 1
           /\ \A x \in 1..Len(q) - 1 : Tail(q)[x] = q[x + 1]
BY HeadTailProperties, EmptySeq, LenProperties

Typed == frames' \in Seq(Singleton!Frame) /\ \A x \in DOMAIN frames' : frames'[x].of <= made'
Distinct ==
    \A x, y \in DOMAIN frames' :
       Constructs(x)' /\ Constructs(y)' /\ frames'[x].of = frames'[y].of => x = y

\* What a call leaves of the frames, when the caller goes on below it.
LEMMA CallFrames ==
    ASSUME SingletonInv, NEW f \in Singleton!Frame, frames' = <<f>> \o frames,
           made' \in Nat, f.of <= made', made <= made',
           f.what = "construct" => ~Singleton!UnderConstruction(f.of)
    PROVE  /\ Typed /\ Distinct
           /\ \A o : Singleton!UnderConstruction(o)' <=>
                        \/ Singleton!UnderConstruction(o)
                        \/ f = [what |-> "construct", of |-> o]
<1>1. /\ frames \in Seq(Singleton!Frame) /\ DOMAIN frames = 1..Len(frames)
      /\ Len(frames) \in Nat /\ made \in Nat
    BY LenProperties DEF SingletonInv, Singleton!TypeOK
<1>2. /\ frames' \in Seq(Singleton!Frame) /\ DOMAIN frames' = 1..Len(frames) + 1
      /\ frames'[1] = f /\ \A x \in 1..Len(frames) : frames'[x + 1] = frames[x]
    BY <1>1, FrameAdded
<1>3. \A x \in 2..Len(frames) + 1 :
         x - 1 \in DOMAIN frames /\ frames'[x] = frames[x - 1]
  <2> SUFFICES ASSUME NEW x \in 2..Len(frames) + 1
               PROVE  x - 1 \in DOMAIN frames /\ frames'[x] = frames[x - 1]
      OBVIOUS
  <2>1. x - 1 \in 1..Len(frames) /\ (x - 1) + 1 = x
      BY <1>1
  <2> QED BY <1>1, <1>2, <2>1
<1>4. \A x \in DOMAIN frames' : x = 1 \/ x \in 2..Len(frames) + 1
    BY <1>1, <1>2
<1>5. \A x \in DOMAIN frames : frames[x] \in Singleton!Frame /\ frames[x].of <= made
    BY <1>1, ElementOfSeq DEF SingletonInv, NotMade
<1>6. Typed
  <2>1. \A x \in DOMAIN frames : frames[x].of <= made'
    <3> SUFFICES ASSUME NEW x \in DOMAIN frames PROVE frames[x].of <= made'
        OBVIOUS
    <3>1. frames[x].of \in Int /\ frames[x].of <= made
        BY <1>5 DEF Singleton!Frame, Singleton!Objects
    <3> QED BY <1>1, <3>1
  <2> QED BY <1>2, <1>3, <1>4, <2>1 DEF Typed
<1>7. \A o : Singleton!UnderConstruction(o)' <=>
                \/ Singleton!UnderConstruction(o)
                \/ f = [what |-> "construct", of |-> o]
  <2>1. \A x \in DOMAIN frames : x + 1 \in DOMAIN frames' /\ frames'[x + 1] = frames[x]
      BY <1>1, <1>2
  <2>2. 1 \in DOMAIN frames' /\ frames'[1] = f
      BY <1>1, <1>2
  <2> SUFFICES ASSUME NEW o
               PROVE  Singleton!UnderConstruction(o)' <=>
                         \/ Singleton!UnderConstruction(o)
                         \/ f = [what |-> "construct", of |-> o]
      OBVIOUS
  <2> DEFINE c == [what |-> "construct", of |-> o]
  <2> HIDE DEF c
  <2>3. (\E x \in DOMAIN frames' : frames'[x] = c) <=> (\E x \in DOMAIN frames : frames[x] = c) \/ f = c
      BY <1>3, <1>4, <2>1, <2>2
  <2> QED BY <2>3 DEF c, Singleton!UnderConstruction
<1>8. Distinct
  <2> SUFFICES ASSUME NEW x \in DOMAIN frames', NEW y \in DOMAIN frames',
                      Constructs(x)', Constructs(y)', frames'[x].of = frames'[y].of
               PROVE  x = y
      BY DEF Distinct
  <2>1. \A z \in DOMAIN frames : frames[z].what = "construct" =>
           Singleton!UnderConstruction(frames[z].of)
      BY <1>5 DEF Singleton!UnderConstruction, Singleton!Frame
  <2>2. CASE x = 1 \/ y = 1
      BY <1>2, <1>3, <1>4, <2>1, <2>2 DEF Constructs
  <2>3. CASE x # 1 /\ y # 1
    <3>1. x - 1 = y - 1
        BY <1>3, <1>4, <2>3 DEF SingletonInv, OwnedOnce, Constructs
    <3> QED BY <1>1, <1>2, <3>1
  <2> QED BY <2>2, <2>3
<1> QED BY <1>6, <1>7, <1>8

\* What a return leaves of them: the frame in front goes, or gives way to one
\* that constructs nothing.
LEMMA ReturnFrames ==
    ASSUME SingletonInv, frames # <<>>, made' = made,
           \/ frames' = Tail(frames)
           \/ \E f \in Singleton!Frame : /\ f.what # "construct" /\ f.of <= made
                                         /\ frames' = <<f>> \o Tail(frames)
    PROVE  /\ Typed /\ Distinct
           /\ \A o : Singleton!UnderConstruction(o)' <=>
                        /\ Singleton!UnderConstruction(o)
                        /\ Head(frames) # [what |-> "construct", of |-> o]
<1>1. /\ frames \in Seq(Singleton!Frame) /\ made \in Int /\ Head(frames) = frames[1]
      /\ Len(frames) \in Nat \ {0} /\ DOMAIN frames = 1..Len(frames)
      /\ Tail(frames) \in Seq(Singleton!Frame) /\ Len(Tail(frames)) = Len(frames) - 1
      /\ DOMAIN Tail(frames) = 1..Len(frames) - 1
      /\ \A x \in 1..Len(frames) - 1 : Tail(frames)[x] = frames[x + 1]
    BY FrameRemoved DEF SingletonInv, Singleton!TypeOK
<1>2. \A x \in DOMAIN frames : frames[x] \in Singleton!Frame /\ frames[x].of <= made
    BY <1>1, ElementOfSeq DEF SingletonInv, NotMade
<1>3. \A x, y \in DOMAIN frames :
         Constructs(x) /\ Constructs(y) /\ frames[x].of = frames[y].of => x = y
    BY DEF SingletonInv, OwnedOnce
<1>4. \A o : Singleton!UnderConstruction(o) /\ Head(frames) # [what |-> "construct", of |-> o]
               <=> \E x \in 2..Len(frames) : frames[x] = [what |-> "construct", of |-> o]
  <2> SUFFICES ASSUME NEW o
               PROVE  Singleton!UnderConstruction(o)
                        /\ Head(frames) # [what |-> "construct", of |-> o]
                      <=> \E x \in 2..Len(frames) : frames[x] = [what |-> "construct", of |-> o]
      OBVIOUS
  <2>1. \A x \in 1..Len(frames) : x = 1 \/ x \in 2..Len(frames)
      BY <1>1
  <2>2. 1 \in 1..Len(frames) /\ \A x \in 2..Len(frames) : x \in 1..Len(frames) /\ x # 1
      BY <1>1
  <2> QED BY <1>1, <1>3, <2>1, <2>2 DEF Singleton!UnderConstruction, Constructs
<1>5. CASE frames' = Tail(frames)
  <2>1. \A x \in DOMAIN frames' : x + 1 \in 2..Len(frames) /\ frames'[x] = frames[x + 1]
      BY <1>1, <1>5
  <2>2. \A x \in 2..Len(frames) : x - 1 \in DOMAIN frames' /\ frames'[x - 1] = frames[x]
    <3> SUFFICES ASSUME NEW x \in 2..Len(frames)
                 PROVE  x - 1 \in DOMAIN frames' /\ frames'[x - 1] = frames[x]
        OBVIOUS
    <3>1. x - 1 \in 1..Len(frames) - 1 /\ (x - 1) + 1 = x
        BY <1>1
    <3> QED BY <1>1, <1>5, <3>1
  <2>3. \A x \in DOMAIN frames' : x + 1 \in DOMAIN frames
      BY <1>1, <1>5
  <2>4. Typed
      BY <1>1, <1>2, <1>5, <2>1, <2>3 DEF Typed
  <2>5. \A o : Singleton!UnderConstruction(o)' <=>
           \E x \in 2..Len(frames) : frames[x] = [what |-> "construct", of |-> o]
      BY <2>1, <2>2 DEF Singleton!UnderConstruction
  <2>6. Distinct
    <3> SUFFICES ASSUME NEW x \in DOMAIN frames', NEW y \in DOMAIN frames',
                        Constructs(x)', Constructs(y)', frames'[x].of = frames'[y].of
                 PROVE  x = y
        BY DEF Distinct
    <3>1. x + 1 = y + 1
        BY <1>3, <2>1, <2>3 DEF Constructs
    <3> QED BY <1>1, <1>5, <3>1
  <2> QED BY <1>4, <2>4, <2>5, <2>6
<1>6. ASSUME NEW f \in Singleton!Frame, f.what # "construct", f.of <= made,
             frames' = <<f>> \o Tail(frames)
      PROVE  /\ Typed /\ Distinct
             /\ \A o : Singleton!UnderConstruction(o)' <=>
                          /\ Singleton!UnderConstruction(o)
                          /\ Head(frames) # [what |-> "construct", of |-> o]
  <2>1. /\ frames' \in Seq(Singleton!Frame) /\ DOMAIN frames' = 1..(Len(frames) - 1) + 1
        /\ frames'[1] = f
        /\ \A x \in 1..Len(frames) - 1 : frames'[x + 1] = Tail(frames)[x]
    <3> DEFINE q == Tail(frames)
    <3>1. q \in Seq(Singleton!Frame) /\ Len(q) = Len(frames) - 1 /\ frames' = <<f>> \o q
        BY <1>1, <1>6
    <3> HIDE DEF q
    <3>2. /\ frames' \in Seq(Singleton!Frame) /\ DOMAIN frames' = 1..Len(q) + 1
          /\ frames'[1] = f /\ \A x \in 1..Len(q) : frames'[x + 1] = q[x]
        BY <3>1, FrameAdded
    <3> QED BY <3>1, <3>2 DEF q
  <2>2. DOMAIN frames' = DOMAIN frames
    <3>1. (Len(frames) - 1) + 1 = Len(frames)
        BY <1>1
    <3> QED BY <1>1, <2>1, <3>1
  <2>3. \A x \in 2..Len(frames) : frames'[x] = frames[x]
    <3> SUFFICES ASSUME NEW x \in 2..Len(frames)
                 PROVE  frames'[x] = frames[x]
        OBVIOUS
    <3>1. x - 1 \in 1..Len(frames) - 1 /\ (x - 1) + 1 = x
        BY <1>1
    <3> QED BY <1>1, <2>1, <3>1
  <2>4. \A x \in DOMAIN frames : x = 1 \/ x \in 2..Len(frames)
      BY <1>1
  <2>5. \A x \in 2..Len(frames) : x \in DOMAIN frames
      BY <1>1
  <2>6. Typed
      BY <1>2, <1>6, <2>1, <2>2, <2>3, <2>4 DEF Typed
  <2>7. \A o : Singleton!UnderConstruction(o)' <=>
           \E x \in 2..Len(frames) : frames[x] = [what |-> "construct", of |-> o]
    <3> SUFFICES ASSUME NEW o
                 PROVE  Singleton!UnderConstruction(o)' <=>
                           \E x \in 2..Len(frames) : frames[x] = [what |-> "construct", of |-> o]
        OBVIOUS
    <3> DEFINE c == [what |-> "construct", of |-> o]
    <3>1. f # c
        BY <1>6
    <3> HIDE DEF c
    <3>2. (\E x \in DOMAIN frames' : frames'[x] = c) <=> \E x \in 2..Len(frames) : frames[x] = c
        BY <2>1, <2>2, <2>3, <2>4, <2>5, <3>1
    <3> QED BY <3>2 DEF c, Singleton!UnderConstruction
  <2>8. Distinct
      BY <1>3, <1>6, <2>1, <2>2, <2>3, <2>4 DEF Distinct, Constructs
  <2> QED BY <1>4, <2>6, <2>7, <2>8
<1> QED BY <1>5, <1>6

LEMMA CreateInv == ASSUME Singleton!SingletonAssumption, SingletonInv, Singleton!Create
                   PROVE  SingletonInv'
<1> DEFINE f == [what |-> "construct", of |-> made + 1]
<1>1. /\ instance = 0 /\ made \in 0..MaxObjects /\ made + 1 \in 1..MaxObjects
      /\ instance' = 0 /\ made' = made + 1 /\ deleted' = deleted
      /\ frames' = <<f>> \o frames /\ f \in Singleton!Frame
      /\ MaxObjects \in Nat
    BY SingletonNumbers DEF Singleton!Create, Singleton!Called, SingletonInv,
       Singleton!TypeOK, Singleton!Frame, Singleton!Objects
<1>2. \A o : Singleton!UnderConstruction(o) => o \in Int /\ o <= made
  <2>1. \A x \in DOMAIN frames : frames[x] \in Singleton!Frame /\ frames[x].of <= made
      BY ElementOfSeq, LenProperties DEF SingletonInv, NotMade, Singleton!TypeOK
  <2> QED BY <1>1, <2>1 DEF Singleton!UnderConstruction, Singleton!Frame, Singleton!Objects
<1>3. ~Singleton!UnderConstruction(made + 1)
    BY <1>1, <1>2
<1>4. /\ Typed /\ Distinct
      /\ \A o : Singleton!UnderConstruction(o)' <=>
                   \/ Singleton!UnderConstruction(o)
                   \/ f = [what |-> "construct", of |-> o]
  <2>1. f.of <= made' /\ made <= made' /\ f.of = made + 1
      BY <1>1
  <2> HIDE DEF f
  <2> QED BY <1>1, <1>3, <2>1, CallFrames
<1>5. \A o : Singleton!UnderConstruction(o)' <=> Singleton!UnderConstruction(o) \/ o = made + 1
    BY <1>4
<1>6. Singleton!EveryObjectIsOwned'
  <2> SUFFICES ASSUME NEW o \in 1..made + 1
               PROVE  /\ deleted[o] <= 1
                      /\ deleted[o] = 0 <=> (o = 0 \/ Singleton!UnderConstruction(o)')
      BY <1>1 DEF Singleton!EveryObjectIsOwned
  <2>1. CASE o = made + 1
      BY <1>1, <1>5, <2>1 DEF SingletonInv, NotMade
  <2>2. CASE o # made + 1
      BY <1>1, <1>5, <2>2 DEF SingletonInv, Singleton!EveryObjectIsOwned
  <2> QED BY <2>1, <2>2
<1>7. NotMade'
  <2>1. \A o \in made' + 1..MaxObjects : deleted'[o] = 0
      BY <1>1 DEF SingletonInv, NotMade
  <2> QED BY <1>1, <1>4, <2>1 DEF NotMade, Typed
<1>8. Singleton!TypeOK'
    BY <1>1, <1>4 DEF SingletonInv, Singleton!TypeOK, Typed
<1> QED BY <1>1, <1>4, <1>6, <1>7, <1>8 DEF SingletonInv, OwnedOnce, Distinct

\* The instance, if there is one, is deleted, and a frame is put in front of
\* what is left of the others; o takes its place.
LEMMA InstanceReplaced ==
    ASSUME Singleton!SingletonAssumption, SingletonInv, made' = made, Typed, Distinct,
           NEW o \in 0..made, instance' = o,
           deleted' = IF instance = 0 THEN deleted ELSE Singleton!Mark(instance),
           o # 0 => /\ Singleton!UnderConstruction(o)
                    /\ ~Singleton!UnderConstruction(o)',
           \A q \in 1..made : q # o =>
              (Singleton!UnderConstruction(q)' <=> Singleton!UnderConstruction(q))
    PROVE  SingletonInv'
<1>1. /\ made \in 0..MaxObjects /\ instance \in 0..made
      /\ deleted \in [Singleton!Objects -> Nat] /\ MaxObjects \in Int
    BY SingletonNumbers DEF SingletonInv, Singleton!TypeOK, NotMade
<1>2. /\ deleted' \in [Singleton!Objects -> Nat]
      /\ \A q \in 1..MaxObjects : deleted'[q] = IF q = instance THEN deleted[q] + 1 ELSE deleted[q]
    BY <1>1 DEF Singleton!Mark, Singleton!Objects
<1>3. Singleton!EveryObjectIsOwned'
  <2> SUFFICES ASSUME NEW q \in 1..made
               PROVE  /\ deleted'[q] <= 1
                      /\ deleted'[q] = 0 <=> (q = o \/ Singleton!UnderConstruction(q)')
      BY DEF Singleton!EveryObjectIsOwned
  <2>1. /\ q \in 1..MaxObjects /\ deleted[q] \in Nat
        /\ deleted[q] <= 1
        /\ deleted[q] = 0 <=> (q = instance \/ Singleton!UnderConstruction(q))
      BY <1>1 DEF SingletonInv, Singleton!EveryObjectIsOwned, Singleton!Objects
  <2>2. q = instance => ~Singleton!UnderConstruction(q)
      BY DEF SingletonInv, OwnedOnce
  <2> QED BY <1>2, <2>1, <2>2
<1>4. NotMade'
  <2>1. \A q \in made + 1..MaxObjects : q \in 1..MaxObjects /\ q # instance
      BY <1>1
  <2>2. \A q \in made + 1..MaxObjects : deleted'[q] = 0
      BY <1>2, <2>1 DEF SingletonInv, NotMade
  <2> QED BY <2>2 DEF NotMade, Typed
<1>5. Singleton!TypeOK'
    BY <1>1, <1>2 DEF Singleton!TypeOK, Typed
<1> QED BY <1>3, <1>4, <1>5 DEF SingletonInv, OwnedOnce, Distinct

LEMMA DestroyInv ==
    ASSUME Singleton!SingletonAssumption, SingletonInv, Singleton!Destroy
    PROVE  SingletonInv'
<1> DEFINE f == [what |-> "delete", of |-> instance]
<1>1. /\ frames' = <<f>> \o frames /\ f \in Singleton!Frame /\ instance' = 0 /\ made' = made
      /\ deleted' = Singleton!Mark(instance) /\ instance # 0 /\ made \in Nat
      /\ f.of <= made /\ f.what # "construct"
    BY DEF Singleton!Destroy, Singleton!Called, SingletonInv, Singleton!TypeOK, NotMade,
       Singleton!Frame, Singleton!Objects
<1>2. /\ Typed /\ Distinct
      /\ \A o : Singleton!UnderConstruction(o)' <=> Singleton!UnderConstruction(o)
  <2>1. made <= made' /\ f.of <= made'
      BY <1>1
  <2>2. \A o : f # [what |-> "construct", of |-> o]
      OBVIOUS
  <2> HIDE DEF f
  <2>3. /\ Typed /\ Distinct
        /\ \A o : Singleton!UnderConstruction(o)' <=>
                     \/ Singleton!UnderConstruction(o)
                     \/ f = [what |-> "construct", of |-> o]
      BY <1>1, <2>1, CallFrames
  <2> QED BY <2>2, <2>3
<1> QED BY <1>1, <1>2, InstanceReplaced

\* An assignment to instance_, by the frame in front, of nothing or of the
\* object that has been constructed.
LEMMA AssignInv ==
    ASSUME Singleton!SingletonAssumption, SingletonInv, frames # <<>>, made' = made,
           NEW o \in 0..made, Singleton!Assign(o, Tail(frames)),
           IF o = 0 THEN Head(frames).what # "construct"
           ELSE Head(frames) = [what |-> "construct", of |-> o]
    PROVE  SingletonInv'
<1> DEFINE f == [what |-> "reset", of |-> instance]
<1>1. /\ instance' = o /\ made \in 0..MaxObjects /\ instance \in 0..made
      /\ deleted' = IF instance = 0 THEN deleted ELSE Singleton!Mark(instance)
    BY SingletonNumbers DEF Singleton!Assign, SingletonInv, Singleton!TypeOK, NotMade
<1>2. \/ frames' = Tail(frames)
      \/ instance # 0 /\ frames' = <<f>> \o Tail(frames)
    BY DEF Singleton!Assign, Singleton!Called
<1>3. instance # 0 => f \in Singleton!Frame /\ f.what # "construct" /\ f.of <= made
    BY <1>1, SingletonNumbers DEF Singleton!Frame, Singleton!Objects
<1>4. /\ Typed /\ Distinct
      /\ \A q : Singleton!UnderConstruction(q)' <=>
                   /\ Singleton!UnderConstruction(q)
                   /\ Head(frames) # [what |-> "construct", of |-> q]
  <2> HIDE DEF f
  <2>1. \/ frames' = Tail(frames)
        \/ \E g \in Singleton!Frame : /\ g.what # "construct" /\ g.of <= made
                                      /\ frames' = <<g>> \o Tail(frames)
      BY <1>2, <1>3
  <2> QED BY <2>1, ReturnFrames
<1>5. Head(frames) = frames[1] /\ 1 \in DOMAIN frames
    BY FrameRemoved DEF SingletonInv, Singleton!TypeOK
<1>6. o # 0 => Singleton!UnderConstruction(o) /\ ~Singleton!UnderConstruction(o)'
    BY <1>4, <1>5 DEF Singleton!UnderConstruction
<1>7. \A q \in 1..made : q # o =>
         (Singleton!UnderConstruction(q)' <=> Singleton!UnderConstruction(q))
  <2> SUFFICES ASSUME NEW q \in 1..made, q # o
               PROVE  Head(frames) # [what |-> "construct", of |-> q]
      BY <1>4
  <2>1. [what |-> "construct", of |-> q].what = "construct"
        /\ [what |-> "construct", of |-> q].of = q
        /\ [what |-> "construct", of |-> o].of = o
      OBVIOUS
  <2> QED BY <2>1
<1> QED BY <1>1, <1>4, <1>6, <1>7, InstanceReplaced

LEMMA ReplacedInv == ASSUME SingletonInv, Singleton!Replaced PROVE SingletonInv'
<1>1. /\ frames # <<>> /\ Head(frames).what = "reset" /\ frames' = Tail(frames)
      /\ UNCHANGED <<instance, made, deleted>>
    BY DEF Singleton!Replaced, Singleton!Running
<1>2. \A o : Head(frames) # [what |-> "construct", of |-> o]
    BY <1>1
<1>3. /\ Typed /\ Distinct
      /\ \A o : Singleton!UnderConstruction(o)' <=> Singleton!UnderConstruction(o)
    BY <1>1, <1>2, ReturnFrames
<1> QED BY <1>1, <1>3 DEF SingletonInv, Singleton!TypeOK, Singleton!EveryObjectIsOwned,
           OwnedOnce, NotMade, Typed, Distinct

LEMMA SingletonNextInv ==
    Singleton!SingletonAssumption /\ SingletonInv /\ [Singleton!Next]_Singleton!vars
    => SingletonInv'
<1> SUFFICES ASSUME Singleton!SingletonAssumption, SingletonInv,
                    [Singleton!Next]_Singleton!vars
             PROVE  SingletonInv'
    OBVIOUS
<1>1. CASE UNCHANGED Singleton!vars
    BY <1>1 DEF Singleton!vars, SingletonInv, Singleton!TypeOK,
       Singleton!EveryObjectIsOwned, Singleton!UnderConstruction, OwnedOnce, NotMade,
       Constructs
<1>2. CASE Singleton!Constructed
  <2>1. /\ frames # <<>> /\ Head(frames).what = "construct" /\ made' = made
        /\ Singleton!Assign(Head(frames).of, Tail(frames))
      BY <1>2 DEF Singleton!Constructed, Singleton!Running
  <2>2. Head(frames) \in Singleton!Frame /\ Head(frames).of <= made /\ made \in Nat
    <3>1. Head(frames) = frames[1] /\ 1 \in DOMAIN frames /\ frames[1] \in Singleton!Frame
        BY <2>1, FrameRemoved, ElementOfSeq DEF SingletonInv, Singleton!TypeOK
    <3> QED BY <3>1 DEF SingletonInv, NotMade, Singleton!TypeOK
  <2>3. /\ Head(frames).of \in 1..made
        /\ Head(frames) = [what |-> "construct", of |-> Head(frames).of]
      BY <2>1, <2>2 DEF Singleton!Frame, Singleton!Objects
  <2> QED BY <2>1, <2>2, <2>3, AssignInv
<1>3. CASE Singleton!Destroyed
  <2>1. /\ frames # <<>> /\ Head(frames).what # "construct" /\ made' = made
        /\ Singleton!Assign(0, Tail(frames)) /\ 0 \in 0..made
      BY <1>3 DEF Singleton!Destroyed, Singleton!Running, SingletonInv, Singleton!TypeOK
  <2> QED BY <2>1, AssignInv
<1> QED BY <1>1, <1>2, <1>3, CreateInv, DestroyInv, ReplacedInv DEF Singleton!Next


----------------------------------------------------------------------------
(* The six together                                                        *)

ProgramsInv ==
    HttpInv /\ IoInv /\ WriteInv /\ PingInv /\ Stack!TypeOK /\ SingletonInv

LEMMA EachAssumption ==
    /\ Http!HttpAssumption /\ Io!IoAssumption /\ MaxCount \in Nat
    /\ Ping!PingPongAssumption /\ Stack!StackAssumption
    /\ Singleton!SingletonAssumption
BY ProgramsAssumption

LEMMA EachInit ==
    Init => Http!Init /\ Io!Init /\ Write!Init /\ Ping!Init /\ Stack!Init /\ Singleton!Init
BY DEF Init

LEMMA ProgramsInitInv == Init => ProgramsInv
BY EachAssumption, EachInit, HttpInitInv, IoInitInv, WriteInitInv, PingInitInv,
   StackInitInv, SingletonInitInv DEF ProgramsInv

\* A step of one program is a step of it and leaves the others where they are.
LEMMA EachStep ==
    [Next]_vars => /\ [Http!Next]_Http!vars /\ [Io!Next]_Io!vars
                   /\ [Write!Next]_Write!vars /\ [Ping!Next]_Ping!vars
                   /\ [Stack!Next]_Stack!vars /\ [Singleton!Next]_Singleton!vars
<1>1. UNCHANGED httpVars => UNCHANGED Http!vars
    BY DEF httpVars, Http!vars
<1>2. UNCHANGED ioVars => UNCHANGED Io!vars
    BY DEF ioVars, Io!vars
<1>3. UNCHANGED writeVars => UNCHANGED Write!vars
    BY DEF writeVars, Write!vars
<1>4. UNCHANGED pingVars => UNCHANGED Ping!vars
    BY DEF pingVars, Ping!vars
<1>5. UNCHANGED stackVars => UNCHANGED Stack!vars
    BY DEF stackVars, Stack!vars
<1>6. UNCHANGED singletonVars => UNCHANGED Singleton!vars
    BY DEF singletonVars, Singleton!vars
<1> USE DEF HttpNext, IoNext, WriteNext, PingNext, StackNext, SingletonNext, Next, vars
<1>7. [Next]_vars => /\ Http!Next \/ UNCHANGED httpVars
                     /\ Io!Next \/ UNCHANGED ioVars
                     /\ Write!Next \/ UNCHANGED writeVars
    OBVIOUS
<1>8. [Next]_vars => /\ Ping!Next \/ UNCHANGED pingVars
                     /\ Stack!Next \/ UNCHANGED stackVars
                     /\ Singleton!Next \/ UNCHANGED singletonVars
    OBVIOUS
<1> QED BY <1>1, <1>2, <1>3, <1>4, <1>5, <1>6, <1>7, <1>8

LEMMA ProgramsNextInv == ProgramsInv /\ [Next]_vars => ProgramsInv'
BY EachAssumption, EachStep, HttpNextInv, IoNextInv, WriteNextInv, PingNextInv,
   StackNextInv, SingletonNextInv DEF ProgramsInv

LEMMA ProgramsInvariance == Spec => []ProgramsInv
BY ProgramsInitInv, ProgramsNextInv, PTL DEF Spec

\* The server answers the requests of every client in order, whatever it sends
\* ahead and however reads, writes and the time-out interleave, and sends
\* nothing after a response whose end is the end of the connection
\* (beast_http_server/main.cpp, lines 130-235).
THEOREM AnswersCorrect == Spec => AnswersInOrder
<1>1. ProgramsInv => Http!TypeOK
    BY DEF ProgramsInv, HttpInv
<1>2. Init => Http!Connection!Init
    BY EachInit DEF Http!Init, Http!Connection!Init
<1>3. ProgramsInv /\ [Next]_vars => [Http!Connection!Next]_Http!Connection!vars
    BY EachAssumption, EachStep, HttpStepMaps DEF ProgramsInv
<1> QED BY <1>1, <1>2, <1>3, ProgramsInvariance, PTL
        DEF Spec, AnswersInOrder, Http!AnswersInOrder, Http!Connection!Spec

\* For a buffer of any size and a client that sends any number of octets, what
\* is echoed, what is in the buffer and what is still to be read is what was
\* sent; and while the socket is open the connection waits for what the library
\* wants, and for nothing else, until a wait for reading fails
\* (asio_third_party_io/main.cpp, lines 74-129).
THEOREM EchoCorrect == Spec => []EchoesInOrder
<1>1. ProgramsInv => EchoesInOrder
    BY DEF ProgramsInv, IoInv, Echo, Buffered, Watched, EchoesInOrder, Io!EchoesInOrder
<1> QED BY <1>1, ProgramsInvariance, PTL

\* The state machine and the coroutine both make a pause and a write as often as
\* they are told and complete once (asio_write_fsm/main.cpp, lines 91-124).
THEOREM WriteCorrect == Spec => ImplementsRepeatedWrite
<1>1. ProgramsInv => Write!TypeOK
    BY DEF ProgramsInv, WriteInv
<1>2. Init => Write!Abstract!Init
    BY EachInit DEF Write!Init, Write!Abstract!Init
<1>3. ProgramsInv /\ [Next]_vars => [Write!Abstract!Next]_Write!Abstract!vars
    BY EachStep, WriteStepMaps DEF ProgramsInv
<1> QED BY <1>1, <1>2, <1>3, ProgramsInvariance, PTL
        DEF Spec, ImplementsRepeatedWrite, Write!ImplementsRepeatedWrite, Write!Abstract!Spec

\* A PING of any length, cut into reads in any way and echoed in any pieces, is
\* counted once, and the pinger closes with exactly its number of pongs
\* (uv_ping_pong/main.cpp, lines 88-131).
THEOREM PingPongCorrect == Spec => []PongsMatchPings
<1>1. ProgramsInv => PongsMatchPings
    BY DEF ProgramsInv, PingInv, PongsMatchPings
<1> QED BY <1>1, ProgramsInvariance, PTL

\* A stack of any capacity, of a type whose destructor is trivial, gives back
\* the last element that it still holds (container/stack.hpp, lines 39-54).
THEOREM StackCorrect == Spec => ImplementsLifo
<1>1. ProgramsInv => Stack!TypeOK
    BY DEF ProgramsInv
<1>2. Init => Stack!Lifo!Init
  <2>1. Stack!Init => Contents = <<>> /\ last = None
    <3> SUFFICES ASSUME Stack!Init PROVE Contents = <<>> /\ last = None
        OBVIOUS
    <3>1. top = 0 /\ last = None /\ Stack!TypeOK
        BY EachAssumption, StackInitInv DEF Stack!Init
    <3>2. Contents \in Seq(Values \cup {Raw}) /\ Len(Contents) = 0
        BY <3>1, EachAssumption, StackNumbers, HeldByType DEF Stack!TypeOK, Contents
    <3> QED BY <3>1, <3>2, EmptySeq
  <2> QED BY <2>1, EachInit DEF Stack!Lifo!Init, Contents, HeldBy
<1>3. ProgramsInv /\ ProgramsInv' /\ [Next]_vars => [Stack!Lifo!Next]_Stack!Lifo!vars
    BY EachAssumption, EachStep, StackStepMaps DEF ProgramsInv
<1> QED BY <1>1, <1>2, <1>3, ProgramsInvariance, PTL
        DEF Spec, ImplementsLifo, Stack!ImplementsLifo, Stack!Lifo!Spec

\* However deep constructors and destructors call the singleton back, an object
\* is deleted at most once and what is not deleted has one owner
\* (singleton/singleton.hpp, lines 21-60).
THEOREM SingletonCorrect == Spec => []EveryObjectIsOwned
<1>1. ProgramsInv => EveryObjectIsOwned
    BY DEF ProgramsInv, SingletonInv, EveryObjectIsOwned
<1> QED BY <1>1, ProgramsInvariance, PTL

=============================================================================
