------------------------------ MODULE Programs ------------------------------
(***************************************************************************)
(* Four of the programs under test/: the HTTP server, the connection of a  *)
(* third-party library, the composed write and the libuv ping-pong; and    *)
(* two classes as a program uses them: the stack, of a type with a trivial *)
(* destructor, and the singleton.  A behaviour is a run of one of the six, *)
(* the others stay in their initial states.                                *)
(***************************************************************************)
EXTENDS Integers, Sequences

CONSTANTS Sessions, Requests, Timeout, MaxRequests,    \* of the HTTP server
          BufferSize, MaxOctets,                       \* of the connection
          MaxCount,                                    \* of the composed write
          Length, NUM_PINGS,                           \* of the ping-pong
          Values, None, Raw, StackSize,                \* of the stack
          MaxObjects, MaxFrames                        \* of the singleton

VARIABLES program,
          accept, session, asked, answered,
          wants, write_buffer, reader, writer, open, sent, inbox, outbox, deaf,
          form, repeat_count, place, outstanding, err, ready, completed, freed,
          phase, position, pongs, matched, server, toServer, toPinger,
          top, S, elements, gone, last,
          instance, frames, made, deleted

httpVars == <<accept, session, asked, answered>>
ioVars == <<wants, write_buffer, reader, writer, open, sent, inbox, outbox, deaf>>
writeVars == <<form, repeat_count, place, outstanding, err, ready, completed, freed>>
pingVars == <<phase, position, pongs, matched, server, toServer, toPinger>>
stackVars == <<top, S, elements, gone, last>>
singletonVars == <<instance, frames, made, deleted>>

vars == <<program, httpVars, ioVars, writeVars, pingVars, stackVars, singletonVars>>

Http == INSTANCE HttpServer
Io == INSTANCE ThirdPartyIo WITH state <- wants
Write == INSTANCE WriteMessage WITH program <- form, state <- place
Ping == INSTANCE PingPong WITH state <- position
Stack == INSTANCE Stack
         WITH Nothing <- None, N <- StackSize, Trivial <- TRUE,
              live <- elements, freed <- gone, popped <- last
Singleton == INSTANCE Singleton

ASSUME ProgramsAssumption ==
    /\ Http!HttpAssumption
    /\ Io!IoAssumption
    /\ MaxCount \in Nat
    /\ Ping!PingPongAssumption
    /\ Stack!StackAssumption
    /\ Singleton!SingletonAssumption

Init ==
    /\ program \in {"http", "io", "write", "ping", "stack", "singleton"}
    /\ Http!Init /\ Io!Init /\ Write!Init /\ Ping!Init /\ Stack!Init /\ Singleton!Init
    /\ program = "write" \/ <<form, repeat_count>> = <<"fsm", 0>>

HttpNext ==
    /\ program = "http" /\ Http!Next
    /\ UNCHANGED <<program, ioVars, writeVars, pingVars, stackVars, singletonVars>>

IoNext ==
    /\ program = "io" /\ Io!Next
    /\ UNCHANGED <<program, httpVars, writeVars, pingVars, stackVars, singletonVars>>

WriteNext ==
    /\ program = "write" /\ Write!Next
    /\ UNCHANGED <<program, httpVars, ioVars, pingVars, stackVars, singletonVars>>

PingNext ==
    /\ program = "ping" /\ Ping!Next
    /\ UNCHANGED <<program, httpVars, ioVars, writeVars, stackVars, singletonVars>>

StackNext ==
    /\ program = "stack" /\ Stack!Next
    /\ UNCHANGED <<program, httpVars, ioVars, writeVars, pingVars, singletonVars>>

SingletonNext ==
    /\ program = "singleton" /\ Singleton!Next
    /\ UNCHANGED <<program, httpVars, ioVars, writeVars, pingVars, stackVars>>

Next == HttpNext \/ IoNext \/ WriteNext \/ PingNext \/ StackNext \/ SingletonNext

\* Of a server that is not run no action that is fair is enabled.
Spec == Init /\ [][Next]_vars /\ Http!Fairness /\ WF_pingVars(PingNext)

----------------------------------------------------------------------------
(* The properties of the six *)

\* One response per request, in order, and none after one that ends the
\* connection: see HttpServer.
AnswersInOrder == [](Http!TypeOK) /\ Http!AnswersInOrder

\* What is read and written in pieces is echoed in order: see ThirdPartyIo.
EchoesInOrder == Io!TypeOK /\ Io!EchoesInOrder

\* The state machine and the coroutine do the same: see WriteMessage.
ImplementsRepeatedWrite == [](Write!TypeOK) /\ Write!ImplementsRepeatedWrite

\* The characters under way are the rest of one PING: see PingPong.
PongsMatchPings == Ping!TypeOK /\ Ping!PongsMatchPings

\* The stack gives back the last element that it still holds: see Stack.
ImplementsLifo == [](Stack!TypeOK) /\ Stack!ImplementsLifo

\* No object of the singleton is leaked or deleted twice, however constructors
\* and destructors call back: see Singleton.
EveryObjectIsOwned == Singleton!TypeOK /\ Singleton!EveryObjectIsOwned

\* A silent client does not hold its session (see HttpServer), and the exchange
\* of pings and pongs ends (see PingPong).
EveryOperationEnds == Http!EveryOperationEnds /\ (program = "ping" => Ping!Completes)

=============================================================================
