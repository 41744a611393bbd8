\* Two sessions that may each have a message in flight: deliver, join and stop
\* of one interleave with every actor of the other.
SPECIFICATION Safety
CONSTANTS
    Sessions = {s1, s2}
    Messages = {m1}
    Heartbeat = Heartbeat
    Broadcaster = Broadcaster
    Timeout = 1
    MaxPosts = 1
SYMMETRY Symmetry
INVARIANTS
    ActorsAlive
    NoLostWakeup
    HeartbeatOnlyInFront
    NothingLost
    SubscribersAreOpen
PROPERTIES
    FrontStaysWhileWriting
    StopsForAReason
