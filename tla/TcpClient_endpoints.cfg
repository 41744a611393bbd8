\* A connect that fails by itself, with another endpoint left to try.
SPECIFICATION Spec
CONSTANTS
    Endpoints = 2
    ConnectTimeout = 3
    ReadTimeout = 2
    HeartbeatPeriod = 1
    MaxBuffered = 2
INVARIANTS
    TriesEndpointsInTurn
