\* Two endpoints; the read times out before the connect would, and heartbeats
\* are due more often than either.
SPECIFICATION Spec
CONSTANTS
    Endpoints = 2
    ConnectTimeout = 3
    ReadTimeout = 2
    HeartbeatPeriod = 1
    MaxBuffered = 2
INVARIANTS
    ActorsAlive
PROPERTIES
    ClosesForAReason
    NoConnectionOnClosedSocket
    EveryWaitEnds
    StopsForGood
